------------------------------ MODULE Division ------------------------------
(***************************************************************************)
(* What the proofs need of quotients and remainders: a number is its       *)
(* quotient and its remainder, and they are the only ones.                 *)
(***************************************************************************)
EXTENDS Integers, TLAPS

\* A number is its quotient, rounded down, and its remainder.
LEMMA Split ==
    ASSUME NEW B \in Nat \ {0}, NEW x \in Int
    PROVE  /\ x \div B \in Int /\ x % B \in 0 .. B - 1
           /\ x = (x % B) + (B * (x \div B))
           /\ x \in Nat => x \div B \in Nat
OBVIOUS

\* So is a natural number.
LEMMA NatSplit ==
    ASSUME NEW B \in Nat \ {0}, NEW x \in Nat
    PROVE  /\ x \div B \in Nat /\ x % B \in 0 .. B - 1
           /\ x = (x % B) + (B * (x \div B))
OBVIOUS

\* Which are the only ones.
LEMMA Unique ==
    ASSUME NEW B \in Nat \ {0}, NEW q \in Int, NEW r \in 0 .. B - 1
    PROVE  (r + (B * q)) % B = r /\ (r + (B * q)) \div B = q
<1> DEFINE x == r + (B * q)
           p == x \div B
           s == x % B
<1>1. B * q \in Int /\ x \in Int
  OBVIOUS
<1>2. p \in Int /\ s \in 0 .. B - 1 /\ x = s + (B * p)
  BY <1>1, Split
<1>3. x = r + (B * q)
  OBVIOUS
<1> HIDE DEF x, p, s
<1>4. CASE p >= q + 1
  <2>1. B * p >= B * (q + 1)
    BY <1>2, <1>4
  <2>2. B * (q + 1) = (B * q) + B
    OBVIOUS
  <2> QED
    BY <1>1, <1>2, <1>3, <2>1, <2>2
<1>5. CASE q >= p + 1
  <2>1. B * q >= B * (p + 1)
    BY <1>2, <1>5
  <2>2. B * (p + 1) = (B * p) + B
    BY <1>2
  <2> QED
    BY <1>1, <1>2, <1>3, <2>1, <2>2
<1>6. CASE p = q
  BY <1>1, <1>2, <1>3, <1>6 DEF x, p, s
<1> QED
  BY <1>2, <1>4, <1>5, <1>6

\* And a natural quotient is the only one.
LEMMA NatUnique ==
    ASSUME NEW B \in Nat \ {0}, NEW q \in Nat, NEW r \in 0 .. B - 1
    PROVE  (r + (B * q)) % B = r /\ (r + (B * q)) \div B = q
<1>1. q \in Int
  OBVIOUS
<1> QED
  BY <1>1, Unique

\* Dividing twice divides by the product.
LEMMA Twice ==
    ASSUME NEW B \in Nat \ {0}, NEW C \in Nat \ {0}, NEW x \in Nat
    PROVE  (x \div B) \div C = x \div (B * C)
<1> DEFINE q == x \div B
           r == x % B
           t == q \div C
           u == q % C
<1>1. q \in Nat /\ r \in 0 .. B - 1 /\ x = r + (B * q)
  OBVIOUS
<1> HIDE DEF q, r
<1>2. t \in Nat /\ u \in 0 .. C - 1 /\ q = u + (C * t)
  BY <1>1
<1> HIDE DEF t, u
<1>3. B * C \in Nat \ {0} /\ B * u \in Nat
  BY <1>2
<1>4. x = (r + (B * u)) + ((B * C) * t)
  BY <1>1, <1>2
<1>5. B * u <= B * (C - 1)
  BY <1>2
<1>6. B * (C - 1) = (B * C) - B
  OBVIOUS
<1>7. r + (B * u) \in 0 .. (B * C) - 1
  BY <1>1, <1>3, <1>5, <1>6
<1>8. ((r + (B * u)) + ((B * C) * t)) \div (B * C) = t
  BY <1>2, <1>3, <1>7, Unique
<1> QED
  BY <1>4, <1>8 DEF q, t

\* A multiple of the divisor added changes the quotient only.
LEMMA AddedMultiple ==
    ASSUME NEW B \in Nat \ {0}, NEW x \in Int, NEW k \in Int
    PROVE  (x + (B * k)) % B = x % B /\ (x + (B * k)) \div B = (x \div B) + k
<1> DEFINE q == x \div B
           r == x % B
<1>1. q \in Int /\ r \in 0 .. B - 1 /\ x = r + (B * q)
  BY Split
<1> HIDE DEF q, r
<1>2. x + (B * k) = r + (B * (q + k)) /\ q + k \in Int
  BY <1>1
<1>3. (r + (B * (q + k))) % B = r /\ (r + (B * (q + k))) \div B = q + k
  BY <1>1, <1>2, Unique
<1> QED
  BY <1>2, <1>3 DEF q, r

\* Numbers with the same remainder differ by a multiple.
LEMMA SameRemainder ==
    ASSUME NEW B \in Nat \ {0}, NEW x \in Int, NEW y \in Int, x % B = y % B
    PROVE  \E k \in Int : x = y + (B * k)
<1>1. /\ x \div B \in Int /\ y \div B \in Int /\ y % B \in Int
      /\ x = (x % B) + (B * (x \div B)) /\ y = (y % B) + (B * (y \div B))
  BY Split
<1> DEFINE p == x \div B
           q == y \div B
           r == y % B
<1>2. p \in Int /\ q \in Int /\ r \in Int /\ x = r + (B * p) /\ y = r + (B * q)
  BY <1>1
<1> HIDE DEF p, q, r
<1>3. x = y + (B * (p - q)) /\ p - q \in Int
  BY <1>2
<1> QED
  BY <1>3

\* The lower digits of a number, from the lowest and those above it.
LEMMA Digits ==
    ASSUME NEW B \in Nat \ {0}, NEW C \in Nat \ {0}, NEW x \in Nat
    PROVE  (x % B) + (B * ((x \div B) % C)) = x % (B * C)
<1> DEFINE r == x % B
           q == x \div B
           t == q \div C
           u == q % C
<1>1. q \in Nat /\ r \in 0 .. B - 1 /\ x = r + (B * q)
  OBVIOUS
<1> HIDE DEF q, r
<1>2. t \in Nat /\ u \in 0 .. C - 1 /\ q = u + (C * t)
  BY <1>1
<1> HIDE DEF t, u
<1>3. B * C \in Nat \ {0} /\ B * u \in Nat
  BY <1>2
<1>4. x = (r + (B * u)) + ((B * C) * t)
  BY <1>1, <1>2
<1>5. B * u <= B * (C - 1)
  BY <1>2
<1>6. B * (C - 1) = (B * C) - B
  OBVIOUS
<1>7. r + (B * u) \in 0 .. (B * C) - 1
  BY <1>1, <1>3, <1>5, <1>6
<1>8. ((r + (B * u)) + ((B * C) * t)) % (B * C) = r + (B * u)
  <2> DEFINE D == B * C
             l == r + (B * u)
  <2>1. D \in Nat \ {0} /\ l \in 0 .. D - 1 /\ t \in Int
    BY <1>2, <1>3, <1>7
  <2> HIDE DEF D, l
  <2>2. (l + (D * t)) % D = l
    BY <2>1, Unique
  <2> QED
    BY <2>2 DEF D, l
<1> QED
  BY <1>4, <1>8 DEF r, u, q

\* A remainder by a product has the remainder by a factor.
LEMMA Nested ==
    ASSUME NEW B \in Nat \ {0}, NEW C \in Nat \ {0}, NEW x \in Int
    PROVE  (x % (B * C)) % B = x % B
<1> DEFINE q == x \div (B * C)
           r == x % (B * C)
<1>1. B * C \in Nat \ {0}
  OBVIOUS
<1>2. q \in Int /\ r \in Int /\ x = r + ((B * C) * q)
  <2> DEFINE D == B * C
  <2>1. D \in Nat \ {0}
    BY <1>1
  <2> HIDE DEF D
  <2>2. x \div D \in Int /\ x % D \in Int /\ x = (x % D) + (D * (x \div D))
    BY <2>1, Split
  <2> QED
    BY <2>2 DEF D
<1> HIDE DEF q, r
<1>3. x = r + (B * (C * q)) /\ C * q \in Int
  BY <1>2
<1>4. (r + (B * (C * q))) % B = r % B
  BY <1>2, <1>3, AddedMultiple
<1> QED
  BY <1>3, <1>4 DEF r
=============================================================================
