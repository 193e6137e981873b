---------------------------- MODULE NaturalLemmas ----------------------------
(***************************************************************************)
(* Facts about the natural numbers that the proofs of several components   *)
(* cite.  Those proofs need induction over data; they argue by the least   *)
(* counterexample instead.                                                 *)
(***************************************************************************)
EXTENDS Integers, WellFoundedInduction, TLAPS

\* Every set of naturals has a least element.
LEMMA LeastNumber ==
  ASSUME NEW T, T \subseteq Nat, T # {}
  PROVE  \E m \in T : \A k \in T : m <= k
<1> DEFINE R == OpToRel(<, Nat)
<1>1. IsWellFoundedOn(R, Nat)
  BY NatLessThanWellFounded, Zenon
<1>2. \A a, b \in Nat : a < b => <<a, b>> \in R
  <2>1. R = {ss \in Nat \X Nat : ss[1] < ss[2]}
    BY Zenon DEF OpToRel
  <2> HIDE DEF R
  <2>2. QED
    BY <2>1
<1> HIDE DEF R
<1>3. PICK m \in T : \A k \in T : ~(<<k, m>> \in R)
  BY <1>1, WFMin, Zenon
<1>4. m \in Nat /\ \A k \in T : k \in Nat /\ ~(k < m)
  BY <1>2, <1>3
<1>5. \A k \in T : m <= k
  BY <1>4
<1>6. QED
  BY <1>5

\* Quotient and remainder of the next number.
LEMMA DivModSuccessor ==
  ASSUME NEW a \in Nat, NEW n \in Nat \ {0}
  PROVE  /\ a % n = n - 1 => (a + 1) % n = 0 /\ (a + 1) \div n = a \div n + 1
         /\ a % n # n - 1 =>
              (a + 1) % n = (a % n) + 1 /\ (a + 1) \div n = a \div n
<1> DEFINE q == a \div n
           r == a % n
           qs == (a + 1) \div n
           rs == (a + 1) % n
<1>1. /\ q \in Int /\ r \in 0 .. n - 1 /\ a = n * q + r
      /\ qs \in Int /\ rs \in 0 .. n - 1 /\ a + 1 = n * qs + rs
  OBVIOUS
<1> HIDE DEF q, r, qs, rs
<1>2. n * (qs - q) = r + 1 - rs
  BY <1>1
<1>3. qs - q \in {0, 1}
  <2>1. CASE qs - q >= 2
    <3>1. n * (qs - q) >= n * 2
      BY <2>1, <1>1
    <3>2. QED
      BY <3>1, <1>1, <1>2
  <2>2. CASE qs - q <= -1
    <3>1. n * (qs - q) <= n * (-1)
      BY <2>2, <1>1
    <3>2. QED
      BY <3>1, <1>1, <1>2
  <2>3. QED
    BY <2>1, <2>2, <1>1
<1>4. CASE qs = q
  BY <1>1, <1>2, <1>4 DEF q, r, qs, rs
<1>5. CASE qs = q + 1
  BY <1>1, <1>2, <1>5 DEF q, r, qs, rs
<1>6. QED
  BY <1>1, <1>3, <1>4, <1>5
=============================================================================
