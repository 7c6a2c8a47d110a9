------------------------ MODULE BootProtocolCrcProofs ------------------------
(***************************************************************************)
(* The CRC is the remainder of a division of polynomials over GF(2), for   *)
(* every sequence of bytes.                                                *)
(***************************************************************************)
EXTENDS BootProtocolCrc, SequenceTheorems, WellFoundedInduction, TLAPS

-----------------------------------------------------------------------------
(* Polynomials over GF(2): the sets of the exponents of their terms.       *)

Bounded(p) == \E k \in Nat : p \subseteq 0 .. k

\* The generator times q.
Multiple(q) == Xor(Xor(Shifted(q, 16), Shifted(q, 12)), Xor(Shifted(q, 5), q))

Congruent(p, r) == \E q \in SUBSET Nat : Bounded(q) /\ Xor(p, r) = Multiple(q)

LEMMA XorAlgebra ==
    /\ \A p, q : Xor(p, q) = Xor(q, p)
    /\ \A p, q, r : Xor(Xor(p, q), r) = Xor(p, Xor(q, r))
    /\ \A p : Xor(p, p) = {} /\ Xor(p, {}) = p
    /\ \A p, q, x : x \in Xor(p, q) <=> (x \in p /\ x \notin q) \/ (x \notin p /\ x \in q)
    /\ \A p, q, r : Xor(p, q) = r => p = Xor(q, r)
    /\ \A p, q \in SUBSET Nat : Xor(p, q) \in SUBSET Nat
BY DEF Xor

LEMMA ShiftedBits ==
    ASSUME NEW p \in SUBSET Nat, NEW n \in Nat
    PROVE  /\ Shifted(p, n) \in SUBSET Nat
           /\ \A x \in Nat : x \in Shifted(p, n) <=> x >= n /\ x - n \in p
BY DEF Shifted

LEMMA ShiftedXor ==
    ASSUME NEW p \in SUBSET Nat, NEW q \in SUBSET Nat, NEW n \in Nat
    PROVE  Shifted(Xor(p, q), n) = Xor(Shifted(p, n), Shifted(q, n))
<1>1. /\ Shifted(Xor(p, q), n) \in SUBSET Nat
      /\ Xor(Shifted(p, n), Shifted(q, n)) \in SUBSET Nat
  BY XorAlgebra, ShiftedBits
<1>2. ASSUME NEW x \in Nat
      PROVE  x \in Shifted(Xor(p, q), n) <=> x \in Xor(Shifted(p, n), Shifted(q, n))
  <2>1. x \in Shifted(Xor(p, q), n) <=> x >= n /\ x - n \in Xor(p, q)
    BY XorAlgebra, ShiftedBits
  <2>2. x \in Shifted(p, n) <=> x >= n /\ x - n \in p
    BY ShiftedBits
  <2>3. x \in Shifted(q, n) <=> x >= n /\ x - n \in q
    BY ShiftedBits
  <2> QED
    BY <2>1, <2>2, <2>3, XorAlgebra
<1> QED
  BY <1>1, <1>2

LEMMA ShiftedTwice ==
    ASSUME NEW p \in SUBSET Nat, NEW n \in Nat, NEW m \in Nat
    PROVE  Shifted(Shifted(p, n), m) = Shifted(p, n + m) /\ Shifted(p, 0) = p
<1>1. \A x \in Nat : x \in Shifted(Shifted(p, n), m) <=> x \in Shifted(p, n + m)
  BY ShiftedBits
<1>2. \A x \in Nat : x \in Shifted(p, 0) <=> x \in p
  BY ShiftedBits
<1> QED
  BY <1>1, <1>2, ShiftedBits

LEMMA MultipleXor ==
    ASSUME NEW p \in SUBSET Nat, NEW q \in SUBSET Nat
    PROVE  Multiple(Xor(p, q)) = Xor(Multiple(p), Multiple(q))
<1> DEFINE A(n) == Shifted(p, n)
           B(n) == Shifted(q, n)
<1>1. \A n \in Nat : Shifted(Xor(p, q), n) = Xor(A(n), B(n))
  BY ShiftedXor
<1>2. Multiple(Xor(p, q)) = Xor(Xor(Xor(A(16), B(16)), Xor(A(12), B(12))),
                                Xor(Xor(A(5), B(5)), Xor(p, q)))
  BY <1>1 DEF Multiple
<1>3. Multiple(p) = Xor(Xor(A(16), A(12)), Xor(A(5), p))
  BY DEF Multiple
<1>4. Multiple(q) = Xor(Xor(B(16), B(12)), Xor(B(5), q))
  BY DEF Multiple
<1>5. \A a, b, c, d, e, f, g, h :
        Xor(Xor(Xor(a, b), Xor(c, d)), Xor(Xor(e, f), Xor(g, h)))
          = Xor(Xor(Xor(a, c), Xor(e, g)), Xor(Xor(b, d), Xor(f, h)))
  BY DEF Xor
<1> HIDE DEF A, B
<1> QED
  BY <1>2, <1>3, <1>4, <1>5

LEMMA MultipleShifted ==
    ASSUME NEW q \in SUBSET Nat, NEW n \in Nat
    PROVE  Multiple(Shifted(q, n)) = Shifted(Multiple(q), n) /\ Multiple(q) \in SUBSET Nat
<1>1. \A m \in Nat : Shifted(Shifted(q, n), m) = Shifted(Shifted(q, m), n)
  <2> TAKE m \in Nat
  <2>1. n + m = m + n
    OBVIOUS
  <2> QED
    BY <2>1, ShiftedTwice
<1>2. \A m \in Nat : Shifted(q, m) \in SUBSET Nat
  BY ShiftedBits
<1>3. Multiple(Shifted(q, n)) = Xor(Xor(Shifted(Shifted(q, 16), n), Shifted(Shifted(q, 12), n)),
                                    Xor(Shifted(Shifted(q, 5), n), Shifted(q, n)))
  BY <1>1 DEF Multiple
<1>4. Xor(Shifted(q, 16), Shifted(q, 12)) \in SUBSET Nat /\ Xor(Shifted(q, 5), q) \in SUBSET Nat
  BY <1>2, XorAlgebra
<1>5. /\ Xor(Shifted(Shifted(q, 16), n), Shifted(Shifted(q, 12), n))
           = Shifted(Xor(Shifted(q, 16), Shifted(q, 12)), n)
      /\ Xor(Shifted(Shifted(q, 5), n), Shifted(q, n)) = Shifted(Xor(Shifted(q, 5), q), n)
  BY <1>2, ShiftedXor
<1>6. Xor(Shifted(Xor(Shifted(q, 16), Shifted(q, 12)), n), Shifted(Xor(Shifted(q, 5), q), n))
        = Shifted(Xor(Xor(Shifted(q, 16), Shifted(q, 12)), Xor(Shifted(q, 5), q)), n)
  BY <1>4, ShiftedXor
<1> QED
  BY <1>3, <1>4, <1>5, <1>6, XorAlgebra DEF Multiple

\* The multiples of the generator are a congruence.
LEMMA CongruentPolynomials ==
    /\ \A p \in SUBSET Nat : Congruent(p, p)
    /\ \A p, r \in SUBSET Nat : Congruent(p, r) => Congruent(r, p)
    /\ \A p, r, s \in SUBSET Nat : Congruent(p, r) /\ Congruent(r, s) => Congruent(p, s)
    /\ \A p, r, s \in SUBSET Nat : Congruent(p, r) => Congruent(Xor(p, s), Xor(r, s))
    /\ \A p, r \in SUBSET Nat, n \in Nat :
          Congruent(p, r) => Congruent(Shifted(p, n), Shifted(r, n))
    /\ \A p \in SUBSET Nat, n \in Nat : Congruent(Xor(p, Shifted(Generator, n)), p)
<1>1. ASSUME NEW p \in SUBSET Nat PROVE Congruent(p, p)
  <2>1. Bounded({}) /\ {} \in SUBSET Nat
    BY DEF Bounded
  <2>2. Multiple({}) = {}
    BY DEF Multiple, Shifted, Xor
  <2> QED
    BY <2>1, <2>2, XorAlgebra DEF Congruent
<1>2. ASSUME NEW p \in SUBSET Nat, NEW r \in SUBSET Nat, Congruent(p, r) PROVE Congruent(r, p)
  BY <1>2, XorAlgebra DEF Congruent
<1>3. ASSUME NEW p \in SUBSET Nat, NEW r \in SUBSET Nat, NEW s \in SUBSET Nat,
             Congruent(p, r), Congruent(r, s)
      PROVE  Congruent(p, s)
  <2>1. PICK q \in SUBSET Nat : Bounded(q) /\ Xor(p, r) = Multiple(q)
    BY <1>3 DEF Congruent
  <2>2. PICK t \in SUBSET Nat : Bounded(t) /\ Xor(r, s) = Multiple(t)
    BY <1>3 DEF Congruent
  <2>3. Xor(q, t) \in SUBSET Nat /\ Multiple(Xor(q, t)) = Xor(Multiple(q), Multiple(t))
    BY MultipleXor, XorAlgebra
  <2>4. Xor(Xor(p, r), Xor(r, s)) = Xor(p, s)
    BY DEF Xor
  <2>5. Bounded(Xor(q, t))
    <3>1. PICK k \in Nat : q \subseteq 0 .. k
      BY <2>1 DEF Bounded
    <3>2. PICK m \in Nat : t \subseteq 0 .. m
      BY <2>2 DEF Bounded
    <3>3. k + m \in Nat /\ Xor(q, t) \subseteq 0 .. k + m
      BY <3>1, <3>2 DEF Xor
    <3> QED
      BY <3>3 DEF Bounded
  <2> QED
    BY <2>1, <2>2, <2>3, <2>4, <2>5 DEF Congruent
<1>4. ASSUME NEW p \in SUBSET Nat, NEW r \in SUBSET Nat, NEW s \in SUBSET Nat, Congruent(p, r)
      PROVE  Congruent(Xor(p, s), Xor(r, s))
  <2>1. Xor(Xor(p, s), Xor(r, s)) = Xor(p, r)
    BY DEF Xor
  <2> QED
    BY <1>4, <2>1 DEF Congruent
<1>5. ASSUME NEW p \in SUBSET Nat, NEW r \in SUBSET Nat, NEW n \in Nat, Congruent(p, r)
      PROVE  Congruent(Shifted(p, n), Shifted(r, n))
  <2>1. PICK q \in SUBSET Nat : Bounded(q) /\ Xor(p, r) = Multiple(q)
    BY <1>5 DEF Congruent
  <2>2. Xor(Shifted(p, n), Shifted(r, n)) = Shifted(Multiple(q), n)
    BY <2>1, ShiftedXor
  <2>3. Multiple(Shifted(q, n)) = Shifted(Multiple(q), n) /\ Shifted(q, n) \in SUBSET Nat
    BY MultipleShifted, ShiftedBits
  <2>4. Bounded(Shifted(q, n))
    <3>1. PICK k \in Nat : q \subseteq 0 .. k
      BY <2>1 DEF Bounded
    <3>2. k + n \in Nat /\ Shifted(q, n) \subseteq 0 .. k + n
      BY <3>1 DEF Shifted
    <3> QED
      BY <3>2 DEF Bounded
  <2> QED
    BY <2>2, <2>3, <2>4 DEF Congruent
<1>6. ASSUME NEW p \in SUBSET Nat, NEW n \in Nat
      PROVE  Congruent(Xor(p, Shifted(Generator, n)), p)
  <2>1. Xor(Xor(p, Shifted(Generator, n)), p) = Shifted(Generator, n)
    BY DEF Xor
  <2>2. Generator \in SUBSET Nat /\ {0} \in SUBSET Nat
    BY DEF Generator
  <2>3. Generator = Multiple({0})
    <3>1. \A m \in Nat : Shifted({0}, m) = {m}
      BY DEF Shifted
    <3>2. Multiple({0}) = Xor(Xor({16}, {12}), Xor({5}, {0}))
      BY <3>1 DEF Multiple
    <3> QED
      BY <3>2 DEF Generator, Xor
  <2>4. Shifted(Generator, n) = Multiple(Shifted({0}, n)) /\ Shifted({0}, n) \in SUBSET Nat
    BY <2>2, <2>3, MultipleShifted, ShiftedBits
  <2>5. Bounded(Shifted({0}, n))
    BY DEF Bounded, Shifted
  <2> QED
    BY <2>1, <2>4, <2>5 DEF Congruent
<1> QED
  BY <1>1, <1>2, <1>3, <1>4, <1>5, <1>6

\* A set of natural numbers that is not empty has a least element: the
\* induction of the proofs below.
LEMMA LeastNumber ==
    ASSUME NEW T \in SUBSET Nat, T # {}
    PROVE  \E x \in T : \A y \in T : x <= y
<1> DEFINE R == OpToRel(<, Nat)
<1>1. IsWellFoundedOn(R, Nat)
  BY NatLessThanWellFounded
<1>2. \A x, y \in Nat : y < x => <<y, x>> \in R
  BY DEF OpToRel
<1> HIDE DEF R
<1>3. PICK x \in T : \A y \in T : ~(<<y, x>> \in R)
  BY <1>1, WFMin
<1>4. \A y \in T : ~(y < x)
  BY <1>2, <1>3
<1> QED
  BY <1>4

LEMMA GreatestNumber ==
    ASSUME NEW q \in SUBSET Nat, Bounded(q), q # {}
    PROVE  \E d \in q : \A x \in q : x <= d
<1>1. PICK k \in Nat : q \subseteq 0 .. k
  BY DEF Bounded
<1> DEFINE T == {k - x : x \in q}
<1>2. \A x \in q : x \in Nat /\ k - x \in Nat
  BY <1>1
<1>3. T \in SUBSET Nat /\ T # {}
  BY <1>2
<1>4. PICK t \in T : \A y \in T : t <= y
  BY <1>3, LeastNumber
<1>5. PICK d \in q : t = k - d
  OBVIOUS
<1>6. \A x \in q : k - d <= k - x
  BY <1>4, <1>5
<1> HIDE DEF T
<1>7. \A x \in q : x <= d
  BY <1>1, <1>2, <1>6
<1> QED
  BY <1>7

\* Two remainders that are congruent are the same: a multiple of the
\* generator has a degree of 16 at least.
LEMMA RemainderIsUnique ==
    ASSUME NEW r \in SUBSET (0 .. 15), NEW s \in SUBSET (0 .. 15), Congruent(r, s)
    PROVE  r = s
<1>1. PICK q \in SUBSET Nat : Bounded(q) /\ Xor(r, s) = Multiple(q)
  BY DEF Congruent
<1>3. q = {}
  <2> SUFFICES ASSUME q # {} PROVE FALSE
    OBVIOUS
  <2>1. PICK d \in q : \A x \in q : x <= d
    BY <1>1, GreatestNumber
  <2>2. d \in Nat /\ d + 16 \in Nat /\ \A x \in q : x \in Nat
    OBVIOUS
  <2>3. d + 16 \in Shifted(q, 16)
    BY DEF Shifted
  <2>4. d + 16 \notin Shifted(q, 12) /\ d + 16 \notin Shifted(q, 5) /\ d + 16 \notin q
    BY <2>1, <2>2 DEF Shifted
  <2>5. d + 16 \in Multiple(q)
    BY <2>3, <2>4 DEF Multiple, Xor
  <2>6. d + 16 \in 0 .. 15
    BY <1>1, <2>5 DEF Xor
  <2> QED
    BY <2>2, <2>6
<1>4. Multiple({}) = {}
  BY DEF Multiple, Shifted, Xor
<1>5. Xor(r, s) = {}
  BY <1>1, <1>3, <1>4
<1> QED
  BY <1>5 DEF Xor

-----------------------------------------------------------------------------
(* Functions that are defined by recursion.                                *)

\* Induction, with a set in the place of a predicate.
LEMMA Induction ==
    ASSUME NEW N \in Nat, NEW T \in SUBSET (0 .. N), 0 \in T,
           \A k \in 0 .. N : k < N /\ k \in T => k + 1 \in T
    PROVE  T = 0 .. N
<1> DEFINE U == (0 .. N) \ T
<1> SUFFICES ASSUME U # {} PROVE FALSE
  OBVIOUS
<1>1. U \in SUBSET Nat
  OBVIOUS
<1>2. PICK m \in U : \A y \in U : m <= y
  <2> HIDE DEF U
  <2> QED
    BY <1>1, LeastNumber
<1>3. m \in 0 .. N /\ m \notin T /\ m # 0
  OBVIOUS
<1>4. m - 1 \in 0 .. N /\ m - 1 < N /\ m - 1 + 1 = m
  BY <1>3
<1>5. m - 1 \notin U
  BY <1>2, <1>3, <1>4
<1>6. m - 1 \in T
  BY <1>4, <1>5
<1>7. m - 1 + 1 \in T
  BY <1>4, <1>6
<1> QED
  BY <1>3, <1>4, <1>7

Run(g, a, F, m) == g[0] = a /\ \A n \in 1 .. m : g[n] = F[<<g[n - 1], n>>]

\* A function that begins with a and takes step n to n: it exists, and what a
\* definition by recursion chooses is one.
LEMMA RecursionIsDefined ==
    ASSUME NEW S, NEW a \in S, NEW N \in Nat, NEW F \in [S \X (1 .. N) -> S]
    PROVE  \E g \in [0 .. N -> S] : Run(g, a, F, N)
<1> DEFINE T == {m \in 0 .. N : \E g \in [0 .. m -> S] : Run(g, a, F, m)}
<1>1. 0 \in T
  <2> DEFINE h == [n \in 0 .. 0 |-> a]
  <2>1. h \in [0 .. 0 -> S] /\ h[0] = a /\ \A n \in 1 .. 0 : FALSE
    OBVIOUS
  <2>2. Run(h, a, F, 0)
    BY <2>1 DEF Run
  <2> QED
    BY <2>1, <2>2
<1>2. ASSUME NEW m \in 0 .. N, m < N, m \in T PROVE m + 1 \in T
  <2>1. PICK g \in [0 .. m -> S] : Run(g, a, F, m)
    BY <1>2
  <2>2. m + 1 \in 1 .. N /\ m \in 0 .. m /\ m + 1 \in 0 .. N
    BY <1>2
  <2>3. F[<<g[m], m + 1>>] \in S
    BY <2>2
  <2> DEFINE h == [n \in 0 .. m + 1 |-> IF n = m + 1 THEN F[<<g[m], m + 1>>] ELSE g[n]]
  <2>4. h \in [0 .. m + 1 -> S]
    BY <2>2, <2>3
  <2>5. h[0] = a
    BY <2>1, <2>2 DEF Run
  <2>6. ASSUME NEW n \in 1 .. m + 1 PROVE h[n] = F[<<h[n - 1], n>>]
    <3>1. CASE n = m + 1
      <4>1. h[n] = F[<<g[m], m + 1>>] /\ h[n - 1] = g[m]
        BY <2>2, <3>1
      <4> QED
        BY <3>1, <4>1
    <3>2. CASE n # m + 1
      <4>1. n \in 1 .. m /\ n - 1 \in 0 .. m
        BY <3>2
      <4>2. h[n] = g[n] /\ h[n - 1] = g[n - 1]
        BY <2>2, <4>1
      <4>3. g[n] = F[<<g[n - 1], n>>]
        BY <2>1, <4>1 DEF Run
      <4> QED
        BY <4>2, <4>3
    <3> QED
      BY <3>1, <3>2
  <2>7. Run(h, a, F, m + 1)
    <3> HIDE DEF h
    <3> QED
      BY <2>5, <2>6 DEF Run
  <2> HIDE DEF h
  <2> QED
    BY <2>2, <2>4, <2>7
<1>3. T \in SUBSET (0 .. N)
  OBVIOUS
<1>4. T = 0 .. N
  <2> HIDE DEF T
  <2> QED
    BY <1>1, <1>2, <1>3, Induction
<1>5. N \in T
  <2> HIDE DEF T
  <2> QED
    BY <1>4
<1> QED
  BY <1>5

-----------------------------------------------------------------------------
(* The CRC of one byte.                                                    *)

Input(byte, n) == Shifted(byte \cup {8}, n)

Turns(c, byte) ==
    CHOOSE turn : turn = [n \in 0 .. 16 |->
                             IF n = 0 THEN c ELSE Turn(turn[n - 1], Input(byte, n))]

LEMMA TurnsAreDefined ==
    ASSUME NEW c \in SUBSET Nat, NEW byte \in BitsOfByte
    PROVE  /\ Turns(c, byte)[0] = c
           /\ \A n \in 1 .. 16 :
                 /\ Turns(c, byte)[n] = Turn(Turns(c, byte)[n - 1], Input(byte, n))
                 /\ Turns(c, byte)[n] \in SUBSET Nat
<1> DEFINE S == SUBSET Nat
           F == [p \in S \X (1 .. 16) |-> Turn(p[1], Input(byte, p[2]))]
<1>1. \A w \in S, n \in 1 .. 16 : Turn(w, Input(byte, n)) \in S
  BY DEF Turn, Xor, Shifted, Carry, Polynomial
<1>2. F \in [S \X (1 .. 16) -> S] /\ 16 \in Nat /\ c \in S
  <2>1. c \in S
    OBVIOUS
  <2> HIDE DEF S
  <2> QED
    BY <1>1, <2>1
<1>3. \A w \in S, n \in 1 .. 16 : F[<<w, n>>] = Turn(w, Input(byte, n))
  OBVIOUS
<1> HIDE DEF F
<1>4. PICK g \in [0 .. 16 -> S] : Run(g, c, F, 16)
  <2> HIDE DEF S
  <2> QED
    BY <1>2, RecursionIsDefined
<1>5. \A n \in 0 .. 16 : g[n] = IF n = 0 THEN c ELSE Turn(g[n - 1], Input(byte, n))
  <2> \A n \in 0 .. 16 : n # 0 => n \in 1 .. 16 /\ n - 1 \in 0 .. 16
    OBVIOUS
  <2> QED
    BY <1>3, <1>4 DEF Run
<1>7. g = [n \in 0 .. 16 |-> IF n = 0 THEN c ELSE Turn(g[n - 1], Input(byte, n))]
  BY <1>5
<1> DEFINE t == Turns(c, byte)
<1>8. t = [n \in 0 .. 16 |-> IF n = 0 THEN c ELSE Turn(t[n - 1], Input(byte, n))]
  BY <1>7 DEF Turns
<1> HIDE DEF t
<1>9. t[0] = c /\ \A n \in 1 .. 16 : t[n] = Turn(t[n - 1], Input(byte, n))
  BY <1>8
<1>10. \A n \in 0 .. 16 : t[n] \in S
  <2> DEFINE P == {n \in 0 .. 16 : t[n] \in S}
  <2>1. t[0] \in S
    BY <1>2, <1>9
  <2>2. 0 \in P
    BY <2>1
  <2>3. \A n \in 0 .. 16 : n < 16 /\ n \in P => n + 1 \in P
    <3> \A n \in 0 .. 16 : n < 16 => n + 1 \in 1 .. 16 /\ n + 1 - 1 = n
      OBVIOUS
    <3> QED
      BY <1>1, <1>9
  <2> P \in SUBSET (0 .. 16)
    OBVIOUS
  <2> HIDE DEF P
  <2>4. P = 0 .. 16
    BY <2>2, <2>3, Induction
  <2> QED
    BY <2>4 DEF P
<1> QED
  BY <1>9, <1>10 DEF t

LEMMA CrcUpdateIs ==
    ASSUME NEW c \in SUBSET (0 .. 15), NEW byte \in BitsOfByte
    PROVE  crc_update(c, byte) = Turns(c, byte)[8] \cap (0 .. 15)
<1> DEFINE last == CHOOSE n \in 1 .. 16 :
                      Ended(Input(byte, n)) /\ \A m \in 1 .. n - 1 : ~Ended(Input(byte, m))
<1>1. \A n \in 1 .. 8 : Ended(Input(byte, n)) <=> n = 8
  <2> \A n \in 1 .. 8, b \in byte \cup {8} : b + n = 16 => n = 8
    BY DEF BitsOfByte
  <2> QED
    BY DEF Ended, Input, Shifted, BitsOfByte
<1>2. \A n \in 1 .. 16 :
        (Ended(Input(byte, n)) /\ \A m \in 1 .. n - 1 : ~Ended(Input(byte, m))) <=> n = 8
  <2> TAKE n \in 1 .. 16
  <2>1. CASE n \in 1 .. 8
    BY <1>1, <2>1
  <2>2. CASE n > 8
    <3> 8 \in 1 .. n - 1
      BY <2>2
    <3> QED
      BY <1>1, <2>2
  <2> QED
    BY <2>1, <2>2
<1>3. last = 8
  BY <1>2
<1>4. crc_update(c, byte) = Turns(c, byte)[last] \cap (0 .. 15)
  BY DEF crc_update, Turns, Input
<1> QED
  BY <1>3, <1>4

\* One turn, on the word's 16 bits: shifted, the carry added, and reduced.
LEMMA TurnIsReduction ==
    ASSUME NEW w \in SUBSET Nat, NEW input \in SUBSET Nat
    PROVE  Congruent(Turn(w, input) \cap (0 .. 15),
                     Xor(Shifted(w \cap (0 .. 15), 1), Carry(input)))
<1> DEFINE v == w \cap (0 .. 15)
           s == Xor(Shifted(v, 1), Carry(input))
           r == Turn(w, input) \cap (0 .. 15)
<1>1. Carry(input) \in SUBSET {0}
  BY DEF Carry
<1>2. \A x \in Nat : x \in s <=> (x \in 1 .. 16 /\ x - 1 \in w) \/ (x = 0 /\ 0 \in Carry(input))
  BY <1>1 DEF Shifted, Xor
<1>3. \A x \in Nat : x \in Shifted(w, 1) \cup Carry(input)
                       <=> (x >= 1 /\ x - 1 \in w) \/ (x = 0 /\ 0 \in Carry(input))
  BY <1>1 DEF Shifted
<1>4. s \in SUBSET Nat /\ r \in SUBSET Nat
  BY <1>1 DEF Shifted, Xor
<1> HIDE DEF s
<1>5. CASE 16 \in s
  <2>1. 16 \in Shifted(w, 1) \cup Carry(input)
    BY <1>2, <1>3, <1>5
  <2>2. Turn(w, input) = Xor(Shifted(w, 1) \cup Carry(input), Polynomial)
    BY <2>1 DEF Turn
  <2>3. \A x \in Nat : x \in r <=> x \in Xor(s, Generator)
    <3> TAKE x \in Nat
    <3>1. CASE x \in 0 .. 15
      <4>1. x \in Polynomial <=> x \in Generator
        BY <3>1 DEF Polynomial, Generator
      <4>2. x \in s <=> x \in Shifted(w, 1) \cup Carry(input)
        BY <1>2, <1>3, <3>1
      <4> QED
        BY <2>2, <3>1, <4>1, <4>2, XorAlgebra
    <3>2. CASE x = 16
      BY <1>5, <3>2 DEF Generator, Xor
    <3>3. CASE x > 16
      BY <1>2, <3>3 DEF Generator, Xor
    <3> QED
      BY <3>1, <3>2, <3>3
  <2>4. Generator \in SUBSET Nat /\ Shifted(Generator, 0) = Generator
    BY DEF Generator, Shifted
  <2>5. r = Xor(s, Shifted(Generator, 0))
    <3>1. Xor(s, Generator) \in SUBSET Nat
      BY <1>4, <2>4 DEF Xor
    <3> HIDE DEF r
    <3> QED
      BY <1>4, <2>3, <2>4, <3>1
  <2> HIDE DEF r
  <2>6. Congruent(r, s)
    BY <1>4, <2>5, CongruentPolynomials
  <2> QED
    BY <2>6 DEF r, s
<1>6. CASE 16 \notin s
  <2>1. 16 \notin Shifted(w, 1) \cup Carry(input)
    BY <1>2, <1>3, <1>6
  <2>2. Turn(w, input) = Shifted(w, 1) \cup Carry(input)
    BY <2>1 DEF Turn
  <2>3. \A x \in Nat : x \in r <=> x \in s
    <3> TAKE x \in Nat
    <3>1. CASE x \in 0 .. 15
      BY <1>2, <1>3, <2>2, <3>1
    <3>2. CASE x > 15
      BY <1>2, <1>6, <3>2
    <3> QED
      BY <3>1, <3>2
  <2> HIDE DEF r
  <2>4. r = s
    BY <1>4, <2>3
  <2>5. Congruent(r, s)
    BY <1>4, <2>4, CongruentPolynomials
  <2> QED
    BY <2>5 DEF r, s
<1> QED
  BY <1>5, <1>6

\* The bits of the byte that n turns have taken in.
TakenIn(byte, n) == {x \in 0 .. 7 : x + 8 - n \in byte}

LEMMA OneMoreBit ==
    ASSUME NEW byte \in BitsOfByte, NEW n \in 0 .. 7
    PROVE  TakenIn(byte, n + 1) = Xor(Shifted(TakenIn(byte, n), 1), Carry(Input(byte, n + 1)))
<1>1. 8 \in Input(byte, n + 1) <=> 7 - n \in byte
  <2>1. 8 \in Input(byte, n + 1) <=> \E b \in byte \cup {8} : b + (n + 1) = 8
    BY DEF Input, Shifted
  <2>2. \A b \in byte \cup {8} : b + (n + 1) = 8 <=> b = 7 - n
    BY DEF BitsOfByte
  <2> QED
    BY <2>1, <2>2
<1>2. Carry(Input(byte, n + 1)) \in SUBSET {0}
  BY DEF Carry
<1>3. 0 \in Carry(Input(byte, n + 1)) <=> 7 - n \in byte
  BY <1>1 DEF Carry
<1> DEFINE K == Carry(Input(byte, n + 1))
           H == Shifted(TakenIn(byte, n), 1)
<1>4. \A x \in Nat : x \in H <=> x \in 1 .. 7 /\ x + 7 - n \in byte
  <2> TAKE x \in Nat
  <2>1. TakenIn(byte, n) \in SUBSET Nat
    BY DEF TakenIn
  <2>2. x \in H <=> x >= 1 /\ x - 1 \in TakenIn(byte, n)
    BY <2>1, ShiftedBits
  <2>3. x >= 1 => (x - 1 \in TakenIn(byte, n) <=> x - 1 \in 0 .. 7 /\ x + 7 - n \in byte)
    <3>1. x - 1 + 8 - n = x + 7 - n
      OBVIOUS
    <3> QED
      BY <3>1 DEF TakenIn
  <2>4. x - 1 \in 0 .. 7 /\ x + 7 - n \in byte => x \in 1 .. 7
    BY DEF BitsOfByte
  <2>5. x \in 1 .. 7 => x - 1 \in 0 .. 7 /\ x >= 1
    OBVIOUS
  <2> QED
    BY <2>2, <2>3, <2>4, <2>5
<1>5. H \in SUBSET Nat
  BY DEF Shifted, TakenIn
<1> HIDE DEF H, K
<1>6. \A x \in Nat : x \in TakenIn(byte, n + 1) <=> x \in 0 .. 7 /\ x + 7 - n \in byte
  <2> TAKE x \in Nat
  <2>1. x + 8 - (n + 1) = x + 7 - n
    OBVIOUS
  <2> QED
    BY <2>1 DEF TakenIn
<1>7. \A x \in Nat : x \in TakenIn(byte, n + 1) <=> x \in Xor(H, K)
  <2> TAKE x \in Nat
  <2>1. CASE x = 0
    <3>1. 0 + 7 - n = 7 - n
      OBVIOUS
    <3> QED
      BY <1>3, <1>4, <1>6, <2>1, <3>1, XorAlgebra DEF K
  <2>2. CASE x # 0
    <3>1. x \notin K
      BY <1>2, <2>2 DEF K
    <3> QED
      BY <1>4, <1>6, <2>2, <3>1, XorAlgebra
  <2> QED
    BY <2>1, <2>2
<1>8. TakenIn(byte, n + 1) \in SUBSET Nat /\ Xor(H, K) \in SUBSET Nat
  <2>1. K \in SUBSET Nat
    BY <1>2 DEF K
  <2>2. TakenIn(byte, n + 1) \in SUBSET Nat
    BY DEF TakenIn
  <2> QED
    BY <1>5, <2>1, <2>2, XorAlgebra
<1>9. TakenIn(byte, n + 1) = Xor(H, K)
  BY <1>7, <1>8
<1> QED
  BY <1>9 DEF H, K

\* The word's 16 bits after n turns, and what they stand for.
Low(turns, n) == turns[n] \cap (0 .. 15)
TakenTo(c, byte, n) == Xor(Shifted(c, n), TakenIn(byte, n))

LEMMA TypesOfTaken ==
    ASSUME NEW c \in SUBSET Nat, NEW byte \in BitsOfByte, NEW n \in Nat
    PROVE  /\ TakenIn(byte, n) \in SUBSET Nat
           /\ TakenTo(c, byte, n) \in SUBSET Nat
           /\ Carry(Input(byte, n)) \in SUBSET Nat
           /\ Input(byte, n) \in SUBSET Nat
<1>1. TakenIn(byte, n) \in SUBSET Nat
  BY DEF TakenIn
<1>2. Shifted(c, n) \in SUBSET Nat
  BY ShiftedBits
<1>3. Input(byte, n) \in SUBSET Nat
  <2>1. byte \cup {8} \in SUBSET Nat
    BY DEF BitsOfByte
  <2> QED
    BY <2>1, ShiftedBits DEF Input
<1>4. Carry(Input(byte, n)) \in SUBSET Nat
  BY DEF Carry
<1> QED
  BY <1>1, <1>2, <1>3, <1>4, XorAlgebra DEF TakenTo

LEMMA TakenToNext ==
    ASSUME NEW c \in SUBSET Nat, NEW byte \in BitsOfByte, NEW n \in 0 .. 7
    PROVE  Xor(Shifted(TakenTo(c, byte, n), 1), Carry(Input(byte, n + 1)))
              = TakenTo(c, byte, n + 1)
<1> n \in Nat /\ 1 \in Nat
  OBVIOUS
<1>1. TakenIn(byte, n) \in SUBSET Nat /\ Shifted(c, n) \in SUBSET Nat
  BY TypesOfTaken, ShiftedBits
<1>2. Shifted(TakenTo(c, byte, n), 1) = Xor(Shifted(Shifted(c, n), 1), Shifted(TakenIn(byte, n), 1))
  BY <1>1, ShiftedXor DEF TakenTo
<1>3. Shifted(Shifted(c, n), 1) = Shifted(c, n + 1)
  BY ShiftedTwice
<1>4. TakenIn(byte, n + 1) = Xor(Shifted(TakenIn(byte, n), 1), Carry(Input(byte, n + 1)))
  BY OneMoreBit
<1> QED
  BY <1>2, <1>3, <1>4, XorAlgebra DEF TakenTo

LEMMA CrcOfByte ==
    ASSUME NEW c \in SUBSET (0 .. 15), NEW byte \in BitsOfByte
    PROVE  /\ crc_update(c, byte) \in SUBSET (0 .. 15)
           /\ Congruent(crc_update(c, byte), Xor(Shifted(c, 8), byte))
<1> DEFINE t == Turns(c, byte)
           P == {n \in 0 .. 8 : Congruent(Low(t, n), TakenTo(c, byte, n))}
<1> c \in SUBSET Nat
  OBVIOUS
<1>1. /\ t[0] = c
      /\ \A n \in 1 .. 16 : t[n] = Turn(t[n - 1], Input(byte, n)) /\ t[n] \in SUBSET Nat
  BY TurnsAreDefined
<1> HIDE DEF t
<1>2. \A n \in 0 .. 16 : t[n] \in SUBSET Nat
  <2> \A n \in 0 .. 16 : n = 0 \/ n \in 1 .. 16
    OBVIOUS
  <2> QED
    BY <1>1
<1>3. 0 \in P
  <2>1. TakenIn(byte, 0) = {}
    BY DEF TakenIn, BitsOfByte
  <2>2. Shifted(c, 0) = c
    BY ShiftedTwice
  <2>3. Low(t, 0) = c /\ TakenTo(c, byte, 0) = c
    BY <1>1, <2>1, <2>2, XorAlgebra DEF Low, TakenTo
  <2>4. Congruent(Low(t, 0), TakenTo(c, byte, 0))
    BY <2>3, CongruentPolynomials
  <2> QED
    BY <2>4
<1>4. ASSUME NEW n \in 0 .. 8, n < 8, n \in P PROVE n + 1 \in P
  <2> DEFINE K == Carry(Input(byte, n + 1))
             L == Low(t, n)
             L_1 == Low(t, n + 1)
             M == TakenTo(c, byte, n)
             M_1 == TakenTo(c, byte, n + 1)
  <2>1. n \in 0 .. 16 /\ n + 1 \in 1 .. 16 /\ n + 1 - 1 = n /\ n \in 0 .. 7 /\ n + 1 \in 0 .. 8
        /\ n + 1 \in 0 .. 16 /\ n \in Nat /\ n + 1 \in Nat
    BY <1>4
  <2>2. /\ L \in SUBSET Nat /\ L_1 \in SUBSET Nat
        /\ M \in SUBSET Nat /\ M_1 \in SUBSET Nat
        /\ K \in SUBSET Nat /\ Input(byte, n + 1) \in SUBSET Nat
    BY <1>2, <2>1, TypesOfTaken DEF Low
  <2>3. Congruent(L_1, Xor(Shifted(L, 1), K))
    <3>1. t[n + 1] = Turn(t[n], Input(byte, n + 1)) /\ t[n] \in SUBSET Nat
      BY <1>1, <1>2, <2>1
    <3> QED
      BY <2>2, <3>1, TurnIsReduction DEF Low
  <2>4. Congruent(L, M)
    BY <1>4
  <2>5. Xor(Shifted(M, 1), K) = M_1
    BY <2>1, TakenToNext
  <2> HIDE DEF K, L, L_1, M, M_1, P
  <2>6. Shifted(L, 1) \in SUBSET Nat /\ Shifted(M, 1) \in SUBSET Nat
    BY <2>2, ShiftedBits
  <2>7. Xor(Shifted(L, 1), K) \in SUBSET Nat
    BY <2>2, <2>6, XorAlgebra
  <2>8. Congruent(Shifted(L, 1), Shifted(M, 1))
    BY <2>2, <2>4, CongruentPolynomials
  <2>9. Congruent(Xor(Shifted(L, 1), K), M_1)
    BY <2>2, <2>5, <2>6, <2>8, CongruentPolynomials
  <2>10. Congruent(L_1, M_1)
    BY <2>2, <2>3, <2>7, <2>9, CongruentPolynomials
  <2> QED
    BY <2>1, <2>10 DEF P, L_1, M_1
<1>5. Congruent(Low(t, 8), TakenTo(c, byte, 8))
  <2>1. P \in SUBSET (0 .. 8)
    OBVIOUS
  <2> HIDE DEF P
  <2>2. P = 0 .. 8
    BY <1>3, <1>4, <2>1, Induction
  <2>3. 8 \in P
    BY <2>2
  <2> QED
    BY <2>3 DEF P
<1>6. TakenIn(byte, 8) = byte
  <2>1. \A x \in 0 .. 7 : x + 8 - 8 = x
    OBVIOUS
  <2> QED
    BY <2>1 DEF TakenIn, BitsOfByte
<1>7. crc_update(c, byte) = Low(t, 8)
  BY CrcUpdateIs DEF t, Low
<1> QED
  BY <1>5, <1>6, <1>7 DEF Low, TakenTo

-----------------------------------------------------------------------------
(* The remainder of a division, and the polynomial of a message.           *)

Divided(p, n) ==
    CHOOSE left : left = [k \in 0 .. n |-> IF k = 0 THEN p ELSE Cancelled(left[k - 1], n - k)]

LEMMA DivisionIsDefined ==
    ASSUME NEW p \in SUBSET Nat, NEW N \in Nat
    PROVE  /\ Divided(p, N)[0] = p
           /\ \A k \in 1 .. N : Divided(p, N)[k] = Cancelled(Divided(p, N)[k - 1], N - k)
<1> DEFINE S == SUBSET Nat
           F == [w \in S \X (1 .. N) |-> Cancelled(w[1], N - w[2])]
<1>1. \A q \in S, k \in 1 .. N : Cancelled(q, N - k) \in S
  <2> TAKE q \in S, k \in 1 .. N
  <2>1. N - k \in Nat /\ Generator \in SUBSET Nat
    BY DEF Generator
  <2>2. Shifted(Generator, N - k) \in SUBSET Nat
    BY <2>1, ShiftedBits
  <2> QED
    BY <2>2, XorAlgebra DEF Cancelled
<1>2. F \in [S \X (1 .. N) -> S] /\ p \in S
  <2>1. p \in S
    OBVIOUS
  <2> HIDE DEF S
  <2> QED
    BY <1>1, <2>1
<1>3. \A q \in S, k \in 1 .. N : F[<<q, k>>] = Cancelled(q, N - k)
  OBVIOUS
<1> HIDE DEF F
<1>4. PICK g \in [0 .. N -> S] : Run(g, p, F, N)
  <2> HIDE DEF S
  <2> QED
    BY <1>2, RecursionIsDefined
<1>5. \A k \in 0 .. N : g[k] = IF k = 0 THEN p ELSE Cancelled(g[k - 1], N - k)
  <2> \A k \in 0 .. N : k # 0 => k \in 1 .. N /\ k - 1 \in 0 .. N
    OBVIOUS
  <2> QED
    BY <1>3, <1>4 DEF Run
<1>6. g = [k \in 0 .. N |-> IF k = 0 THEN p ELSE Cancelled(g[k - 1], N - k)]
  BY <1>5
<1> DEFINE t == Divided(p, N)
<1>7. t = [k \in 0 .. N |-> IF k = 0 THEN p ELSE Cancelled(t[k - 1], N - k)]
  BY <1>6 DEF Divided
<1> HIDE DEF t
<1>8. t[0] = p /\ \A k \in 1 .. N : t[k] = Cancelled(t[k - 1], N - k)
  BY <1>7
<1> QED
  BY <1>8 DEF t

\* One step of the division: the term of the highest degree goes.
LEMMA TermIsCancelled ==
    ASSUME NEW d \in Nat, NEW q \in SUBSET (0 .. d + 16)
    PROVE  Cancelled(q, d) \in SUBSET (0 .. d + 15) /\ Congruent(Cancelled(q, d), q)
<1>1. CASE d + 16 \in q
  <2>1. Shifted(Generator, d) = {d + 16, d + 12, d + 5, d}
    BY DEF Shifted, Generator
  <2>2. \A x \in Xor(q, Shifted(Generator, d)) : x \in 0 .. d + 15
    BY <1>1, <2>1 DEF Xor
  <2>3. Congruent(Xor(q, Shifted(Generator, d)), q)
    BY CongruentPolynomials
  <2> QED
    BY <1>1, <2>2, <2>3 DEF Cancelled
<1>2. CASE d + 16 \notin q
  <2>1. Congruent(q, q)
    BY CongruentPolynomials
  <2> QED
    BY <1>2, <2>1 DEF Cancelled
<1> QED
  BY <1>1, <1>2

LEMMA RemainderIsCongruent ==
    ASSUME NEW N \in Nat, NEW p \in SUBSET (0 .. N + 15)
    PROVE  Remainder(p, N) \in SUBSET (0 .. 15) /\ Congruent(Remainder(p, N), p)
<1> DEFINE t == Divided(p, N)
           P == {k \in 0 .. N : t[k] \in SUBSET (0 .. N - k + 15) /\ Congruent(t[k], p)}
<1> p \in SUBSET Nat
  OBVIOUS
<1>1. t[0] = p /\ \A k \in 1 .. N : t[k] = Cancelled(t[k - 1], N - k)
  BY DivisionIsDefined
<1> HIDE DEF t
<1>2. 0 \in P
  <2>1. t[0] = p /\ N - 0 + 15 = N + 15 /\ Congruent(p, p)
    BY <1>1, CongruentPolynomials
  <2>2. 0 \in 0 .. N /\ t[0] \in SUBSET (0 .. N - 0 + 15) /\ Congruent(t[0], p)
    BY <2>1
  <2> QED
    BY <2>2
<1>3. ASSUME NEW k \in 0 .. N, k < N, k \in P PROVE k + 1 \in P
  <2> DEFINE d == N - (k + 1)
             q == t[k]
             r == t[k + 1]
  <2>1. k + 1 \in 1 .. N /\ k + 1 - 1 = k /\ k + 1 \in 0 .. N
    BY <1>3
  <2>2. d \in Nat /\ N - k + 15 = d + 16 /\ N - (k + 1) + 15 = d + 15
    BY <1>3
  <2>3. q \in SUBSET (0 .. d + 16) /\ Congruent(q, p)
    BY <1>3, <2>2
  <2>4. r = Cancelled(q, d)
    BY <1>1, <2>1
  <2> HIDE DEF q, r, d
  <2>5. r \in SUBSET (0 .. d + 15) /\ Congruent(r, q)
    BY <2>2, <2>3, <2>4, TermIsCancelled
  <2>6. q \in SUBSET Nat /\ r \in SUBSET Nat
    BY <2>2, <2>3, <2>5
  <2>7. Congruent(r, p)
    BY <2>3, <2>5, <2>6, CongruentPolynomials
  <2> QED
    BY <2>1, <2>2, <2>5, <2>7 DEF r
<1>4. P = 0 .. N
  <2>1. P \in SUBSET (0 .. N)
    OBVIOUS
  <2> HIDE DEF P
  <2> QED
    BY <1>2, <1>3, <2>1, Induction
<1>5. N \in P
  <2> HIDE DEF P
  <2> QED
    BY <1>4
<1>6. t[N] \in SUBSET (0 .. 15) /\ Congruent(t[N], p)
  BY <1>5
<1>7. Remainder(p, N) = t[N]
  BY DEF Remainder, Divided, t
<1> QED
  BY <1>6, <1>7

\* What a word of 16 bits is congruent to and is left of a division is the
\* word itself.
LEMMA TheRemainder ==
    ASSUME NEW N \in Nat, NEW p \in SUBSET (0 .. N + 15),
           NEW r \in SUBSET (0 .. 15), Congruent(r, p)
    PROVE  r = Remainder(p, N)
<1> DEFINE s == Remainder(p, N)
<1>1. s \in SUBSET (0 .. 15) /\ Congruent(s, p)
  BY RemainderIsCongruent
<1> HIDE DEF s
<1>2. p \in SUBSET Nat /\ r \in SUBSET Nat /\ s \in SUBSET Nat
  BY <1>1
<1>3. Congruent(r, s)
  BY <1>1, <1>2, CongruentPolynomials
<1>4. r = s
  BY <1>1, <1>3, RemainderIsUnique
<1> QED
  BY <1>4 DEF s

LEMMA MessageBits ==
    ASSUME NEW data \in Seq(BitsOfByte)
    PROVE  MessagePolynomial(data) \in SUBSET Nat
           /\ \A x \in MessagePolynomial(data) : x < 8 * Len(data)
<1>1. ASSUME NEW x \in MessagePolynomial(data) PROVE x \in Nat /\ x < 8 * Len(data)
  <2>1. PICK i \in 1 .. Len(data) : x \in Shifted(data[i], 8 * (Len(data) - i))
    BY DEF MessagePolynomial
  <2>2. PICK b \in data[i] : x = b + 8 * (Len(data) - i)
    BY <2>1 DEF Shifted
  <2>3. b \in 0 .. 7
    BY DEF BitsOfByte
  <2> QED
    BY <2>2, <2>3
<1> QED
  BY <1>1

LEMMA MessageOfOneMore ==
    ASSUME NEW data \in Seq(BitsOfByte), NEW byte \in BitsOfByte
    PROVE  MessagePolynomial(Append(data, byte)) = Xor(Shifted(MessagePolynomial(data), 8), byte)
<1> DEFINE longer == Append(data, byte)
<1>1. Len(longer) = Len(data) + 1 /\ DOMAIN longer = 1 .. Len(data) + 1
  OBVIOUS
<1>2. longer[Len(data) + 1] = byte /\ \A i \in 1 .. Len(data) : longer[i] = data[i]
  OBVIOUS
<1> HIDE DEF longer
<1>3. MessagePolynomial(longer)
        = UNION {Shifted(longer[i], 8 * (Len(data) + 1 - i)) : i \in 1 .. Len(data) + 1}
  BY <1>1 DEF MessagePolynomial
<1>4. byte \in SUBSET Nat /\ Shifted(byte, 0) = byte
  <2>1. byte \in SUBSET Nat
    BY DEF BitsOfByte
  <2> QED
    BY <2>1, ShiftedTwice
<1>5. \A x : x \in MessagePolynomial(longer)
               <=> x \in byte \/ \E i \in 1 .. Len(data) :
                                    x \in Shifted(data[i], 8 * (Len(data) + 1 - i))
  <2>1. \A i : i \in 1 .. Len(data) + 1 <=> i \in 1 .. Len(data) \/ i = Len(data) + 1
    OBVIOUS
  <2>2. 8 * (Len(data) + 1 - (Len(data) + 1)) = 0
    OBVIOUS
  <2> QED
    BY <1>2, <1>3, <1>4, <2>1, <2>2
<1>6. \A i \in 1 .. Len(data) :
        Shifted(data[i], 8 * (Len(data) + 1 - i)) = Shifted(Shifted(data[i], 8 * (Len(data) - i)), 8)
  <2> TAKE i \in 1 .. Len(data)
  <2>1. data[i] \in SUBSET Nat
    BY DEF BitsOfByte
  <2>2. 8 * (Len(data) - i) \in Nat /\ 8 * (Len(data) - i) + 8 = 8 * (Len(data) + 1 - i)
    OBVIOUS
  <2> DEFINE n == 8 * (Len(data) - i)
  <2> HIDE DEF n
  <2>3. Shifted(Shifted(data[i], n), 8) = Shifted(data[i], n + 8)
    BY <2>1, <2>2, ShiftedTwice DEF n
  <2> QED
    BY <2>2, <2>3 DEF n
<1>7. \A x : x \in Shifted(MessagePolynomial(data), 8)
               <=> \E i \in 1 .. Len(data) : x \in Shifted(Shifted(data[i], 8 * (Len(data) - i)), 8)
  <2> DEFINE Term(i) == Shifted(data[i], 8 * (Len(data) - i))
  <2>1. \A b : b \in MessagePolynomial(data) <=> \E i \in 1 .. Len(data) : b \in Term(i)
    <3>1. DOMAIN data = 1 .. Len(data)
      OBVIOUS
    <3>2. MessagePolynomial(data) = UNION {Term(i) : i \in 1 .. Len(data)}
      BY <3>1 DEF MessagePolynomial
    <3> HIDE DEF Term
    <3> QED
      BY <3>2
  <2> HIDE DEF Term
  <2>2. \A p, x : x \in Shifted(p, 8) <=> \E b \in p : x = b + 8
    BY DEF Shifted
  <2>3. \A x : x \in Shifted(MessagePolynomial(data), 8)
                 <=> \E i \in 1 .. Len(data) : x \in Shifted(Term(i), 8)
    BY <2>1, <2>2
  <2> QED
    BY <2>3 DEF Term
<1>8. \A x \in byte : x \notin Shifted(MessagePolynomial(data), 8)
  <2>1. \A y \in MessagePolynomial(data) : y \in Nat
    BY MessageBits
  <2> QED
    BY <2>1 DEF Shifted, BitsOfByte
<1>9. \A x : x \in MessagePolynomial(longer)
               <=> x \in byte \/ x \in Shifted(MessagePolynomial(data), 8)
  BY <1>5, <1>6, <1>7
<1>10. MessagePolynomial(longer) = byte \cup Shifted(MessagePolynomial(data), 8)
  BY <1>9
<1> QED
  BY <1>8, <1>10 DEF longer, Xor

\* One byte more: what the CRC of a message is congruent to.
LEMMA CrcOfOneMore ==
    ASSUME NEW data \in Seq(BitsOfByte), NEW byte \in BitsOfByte,
           NEW c \in SUBSET (0 .. 15), Congruent(c, MessagePolynomial(data))
    PROVE  /\ crc_update(c, byte) \in SUBSET (0 .. 15)
           /\ Congruent(crc_update(c, byte), MessagePolynomial(Append(data, byte)))
<1> DEFINE m == MessagePolynomial(data)
           u == crc_update(c, byte)
           v == MessagePolynomial(Append(data, byte))
<1>1. m \in SUBSET Nat /\ c \in SUBSET Nat /\ byte \in SUBSET Nat
  BY MessageBits DEF BitsOfByte
<1>2. u \in SUBSET (0 .. 15) /\ Congruent(u, Xor(Shifted(c, 8), byte))
  BY CrcOfByte
<1>3. v = Xor(Shifted(m, 8), byte)
  BY MessageOfOneMore
<1>4. Congruent(c, m)
  OBVIOUS
<1> HIDE DEF m, u, v
<1>5. Shifted(c, 8) \in SUBSET Nat /\ Shifted(m, 8) \in SUBSET Nat
  BY <1>1, ShiftedBits
<1>6. Congruent(Shifted(c, 8), Shifted(m, 8))
  BY <1>1, <1>4, CongruentPolynomials
<1>7. Congruent(Xor(Shifted(c, 8), byte), v)
  BY <1>1, <1>3, <1>5, <1>6, CongruentPolynomials
<1>8. u \in SUBSET Nat /\ v \in SUBSET Nat /\ Xor(Shifted(c, 8), byte) \in SUBSET Nat
  BY <1>1, <1>2, <1>3, <1>5, XorAlgebra
<1>9. Congruent(u, v)
  BY <1>2, <1>7, <1>8, CongruentPolynomials
<1> QED
  BY <1>2, <1>9 DEF u, v

\* The two bytes of zeros at the end turn what is congruent to the message
\* into the remainder of the message shifted by 16.
LEMMA AugmentedIsRemainder ==
    ASSUME NEW data \in Seq(BitsOfByte),
           NEW c \in SUBSET (0 .. 15), Congruent(c, MessagePolynomial(data))
    PROVE  Augmented(c) = Remainder(Shifted(MessagePolynomial(data), 16), 8 * Len(data))
<1> DEFINE m == MessagePolynomial(data)
           d == crc_update(c, {})
           e == crc_update(d, {})
           p == Shifted(m, 16)
<1>1. {} \in BitsOfByte /\ \A q : Xor(q, {}) = q
  BY XorAlgebra DEF BitsOfByte
<1>2. d \in SUBSET (0 .. 15) /\ Congruent(d, Shifted(c, 8))
  BY <1>1, CrcOfByte
<1>3. e \in SUBSET (0 .. 15) /\ Congruent(e, Shifted(d, 8))
  <2> HIDE DEF d
  <2> QED
    BY <1>1, <1>2, CrcOfByte
<1>4. m \in SUBSET Nat /\ \A x \in m : x < 8 * Len(data)
  BY MessageBits
<1>5. Congruent(c, m)
  OBVIOUS
<1>6. Augmented(c) = e
  BY DEF Augmented
<1>7. 8 * Len(data) \in Nat
  OBVIOUS
<1> DEFINE N == 8 * Len(data)
<1> HIDE DEF m, d, e, N
<1>8. c \in SUBSET Nat /\ d \in SUBSET Nat /\ e \in SUBSET Nat
  BY <1>2, <1>3
<1>9. /\ Shifted(c, 8) \in SUBSET Nat /\ Shifted(m, 8) \in SUBSET Nat
      /\ Shifted(d, 8) \in SUBSET Nat /\ p \in SUBSET Nat
  BY <1>4, <1>8, ShiftedBits
<1>10. Congruent(d, Shifted(m, 8))
  <2>1. Congruent(Shifted(c, 8), Shifted(m, 8))
    BY <1>4, <1>5, <1>8, CongruentPolynomials
  <2> QED
    BY <1>2, <1>8, <1>9, <2>1, CongruentPolynomials
<1>11. Shifted(Shifted(m, 8), 8) = p
  <2>1. 8 \in Nat /\ 8 + 8 = 16
    OBVIOUS
  <2>2. Shifted(Shifted(m, 8), 8) = Shifted(m, 8 + 8)
    BY <1>4, <2>1, ShiftedTwice, Zenon
  <2>3. Shifted(m, 8 + 8) = Shifted(m, 16)
    BY <2>1, Zenon
  <2> QED
    BY <2>2, <2>3, Zenon
<1>12. Congruent(e, p)
  <2>1. Congruent(Shifted(d, 8), p)
    BY <1>8, <1>9, <1>10, <1>11, CongruentPolynomials
  <2> QED
    BY <1>3, <1>8, <1>9, <2>1, CongruentPolynomials
<1>13. N \in Nat /\ p \in SUBSET (0 .. N + 15)
  <2>1. \A x \in m : x \in Nat /\ x < N
    BY <1>4 DEF N
  <2>2. N \in Nat
    BY <1>7 DEF N
  <2> QED
    BY <2>1, <2>2 DEF Shifted
<1>14. e = Remainder(p, N)
  <2> HIDE DEF p
  <2> QED
    BY <1>3, <1>12, <1>13, TheRemainder
<1> QED
  BY <1>6, <1>14 DEF m, N

-----------------------------------------------------------------------------
(* The theorems.                                                           *)

CrcInv ==
    /\ payload \in Seq(BitsOfByte)
    /\ index \in 0 .. Len(payload)
    /\ crc \in SUBSET (0 .. 15)
    /\ Congruent(crc, MessagePolynomial(SubSeq(payload, 1, index)))

LEMMA NothingIsCongruent ==
    ASSUME NEW data \in Seq(BitsOfByte)
    PROVE  Congruent({}, MessagePolynomial(SubSeq(data, 1, 0)))
<1>1. SubSeq(data, 1, 0) \in Seq(BitsOfByte) /\ Len(SubSeq(data, 1, 0)) = 0
  OBVIOUS
<1>2. DOMAIN SubSeq(data, 1, 0) = {}
  BY <1>1
<1>3. MessagePolynomial(SubSeq(data, 1, 0)) = {}
  BY <1>2 DEF MessagePolynomial
<1>4. Congruent({}, {})
  BY CongruentPolynomials
<1> QED
  BY <1>3, <1>4

LEMMA PrefixGrows ==
    ASSUME NEW data \in Seq(BitsOfByte), NEW i \in 0 .. Len(data) - 1
    PROVE  /\ SubSeq(data, 1, i) \in Seq(BitsOfByte)
           /\ data[i + 1] \in BitsOfByte
           /\ SubSeq(data, 1, i + 1) = Append(SubSeq(data, 1, i), data[i + 1])
<1>1. i \in Nat /\ i + 1 \in 1 .. Len(data) /\ \A k \in 1 .. i : k \in 1 .. Len(data)
  OBVIOUS
<1>2. /\ SubSeq(data, 1, i) = [k \in 1 .. i |-> data[k]]
      /\ SubSeq(data, 1, i + 1) = [k \in 1 .. i + 1 |-> data[k]]
  BY <1>1
<1>3. SubSeq(data, 1, i) \in Seq(BitsOfByte) /\ Len(SubSeq(data, 1, i)) = i
  BY <1>1
<1>4. data[i + 1] \in BitsOfByte
  BY <1>1
<1>5. Append(SubSeq(data, 1, i), data[i + 1]) = [k \in 1 .. i + 1 |-> data[k]]
  BY <1>1, <1>2, <1>3
<1> QED
  BY <1>2, <1>3, <1>4, <1>5

\* The computation of the CRC, byte by byte, keeps crc congruent to the bytes
\* that went through it.
THEOREM CrcInvariant == CrcSpec => []CrcInv
<1>1. CrcInit => CrcInv
  <2> SUFFICES ASSUME CrcInit PROVE CrcInv
    OBVIOUS
  <2>1. payload \in Seq(BitsOfByte) /\ index = 0 /\ crc = {}
    BY CrcAssumption DEF CrcInit
  <2>2. index \in 0 .. Len(payload)
    BY <2>1
  <2> QED
    BY <2>1, <2>2, NothingIsCongruent DEF CrcInv
<1>2. CrcInv /\ [CrcNext]_crc_vars => CrcInv'
  <2> SUFFICES ASSUME CrcInv, [CrcNext]_crc_vars PROVE CrcInv'
    OBVIOUS
  <2> USE DEF CrcInv
  <2>1. CASE UpdateCrc
    <3>1. index \in 0 .. Len(payload) - 1 /\ index' = index + 1 /\ payload' = payload
      BY <2>1 DEF UpdateCrc
    <3> DEFINE done == SubSeq(payload, 1, index)
               byte == payload[index + 1]
    <3>2. /\ done \in Seq(BitsOfByte) /\ byte \in BitsOfByte
          /\ SubSeq(payload, 1, index + 1) = Append(done, byte)
      BY <3>1, PrefixGrows
    <3>3. crc' = crc_update(crc, byte)
      BY <2>1 DEF UpdateCrc
    <3> HIDE DEF done, byte
    <3>4. Congruent(crc, MessagePolynomial(done))
      BY DEF done
    <3>5. crc' \in SUBSET (0 .. 15) /\ Congruent(crc', MessagePolynomial(Append(done, byte)))
      BY <3>2, <3>3, <3>4, CrcOfOneMore
    <3>6. SubSeq(payload', 1, index') = Append(done, byte)
      BY <3>1, <3>2
    <3>7. payload' \in Seq(BitsOfByte) /\ index' \in 0 .. Len(payload')
      BY <3>1
    <3> QED
      BY <3>5, <3>6, <3>7
  <2>2. CASE SendFrame
    BY <2>2 DEF SendFrame
  <2>3. CASE NextFrame
    <3>1. index' = 0 /\ crc' = {} /\ payload' = payload
      BY <2>3 DEF NextFrame
    <3>2. Congruent(crc', MessagePolynomial(SubSeq(payload', 1, index')))
      BY <3>1, NothingIsCongruent
    <3> QED
      BY <3>1, <3>2
  <2>4. CASE UNCHANGED crc_vars
    BY <2>4 DEF crc_vars
  <2> QED
    BY <2>1, <2>2, <2>3, <2>4 DEF CrcNext
<1> QED
  BY <1>1, <1>2, PTL DEF CrcSpec

\* For every payload, however long, and after each of its bytes: the two
\* bytes of zeros make of crc the remainder of the message behind which 16
\* zeros were put (boot_protocol_crc.c, crc_update and its callers).
THEOREM CrcIsAlwaysTheRemainder == CrcSpec => []CrcIsTheRemainder
<1>1. CrcInv => CrcIsTheRemainder
  <2> SUFFICES ASSUME CrcInv PROVE CrcIsTheRemainder
    OBVIOUS
  <2> DEFINE done == SubSeq(payload, 1, index)
  <2>1. done \in Seq(BitsOfByte) /\ Len(done) = index
    BY DEF CrcInv
  <2>2. crc \in SUBSET (0 .. 15) /\ Congruent(crc, MessagePolynomial(done))
    BY DEF CrcInv
  <2> HIDE DEF done
  <2>3. Augmented(crc) = Remainder(Shifted(MessagePolynomial(done), 16), 8 * Len(done))
    BY <2>1, <2>2, AugmentedIsRemainder
  <2> QED
    BY <2>1, <2>3 DEF CrcIsTheRemainder, done
<1> QED
  BY <1>1, CrcInvariant, PTL

\* The same for the loop over a whole message, in BootProtocolCrcCalculate.
CrcAfter(data) ==
    CHOOSE after : after = [i \in 0 .. Len(data) |->
                               IF i = 0 THEN {} ELSE crc_update(after[i - 1], data[i])]

LEMMA CrcAfterIsDefined ==
    ASSUME NEW data \in Seq(BitsOfByte)
    PROVE  /\ CrcAfter(data)[0] = {}
           /\ \A i \in 1 .. Len(data) :
                 CrcAfter(data)[i] = crc_update(CrcAfter(data)[i - 1], data[i])
<1> DEFINE S == SUBSET (0 .. 15)
           N == Len(data)
           F == [w \in S \X (1 .. N) |-> crc_update(w[1], data[w[2]])]
<1> N \in Nat /\ \A i \in 1 .. N : data[i] \in BitsOfByte
  OBVIOUS
<1>1. \A c \in S, i \in 1 .. N : crc_update(c, data[i]) \in S
  BY CrcOfByte
<1>2. F \in [S \X (1 .. N) -> S] /\ {} \in S
  <2>1. {} \in S
    OBVIOUS
  <2> HIDE DEF S, N
  <2> QED
    BY <1>1, <2>1
<1>3. \A c \in S, i \in 1 .. N : F[<<c, i>>] = crc_update(c, data[i])
  OBVIOUS
<1> HIDE DEF F, N
<1>4. PICK g \in [0 .. N -> S] : Run(g, {}, F, N)
  <2> HIDE DEF S
  <2> QED
    BY <1>2, RecursionIsDefined
<1>5. \A i \in 0 .. N : g[i] = IF i = 0 THEN {} ELSE crc_update(g[i - 1], data[i])
  <2> \A i \in 0 .. N : i # 0 => i \in 1 .. N /\ i - 1 \in 0 .. N
    OBVIOUS
  <2> QED
    BY <1>3, <1>4 DEF Run
<1>6. g = [i \in 0 .. N |-> IF i = 0 THEN {} ELSE crc_update(g[i - 1], data[i])]
  BY <1>5
<1> DEFINE t == CrcAfter(data)
<1>7. t = [i \in 0 .. N |-> IF i = 0 THEN {} ELSE crc_update(t[i - 1], data[i])]
  BY <1>6 DEF CrcAfter, N
<1> HIDE DEF t
<1>8. \A i \in 0 .. N : t[i] = IF i = 0 THEN {} ELSE crc_update(t[i - 1], data[i])
  BY <1>7
<1>9. t[0] = {} /\ \A i \in 1 .. N : t[i] = crc_update(t[i - 1], data[i])
  <2> 0 \in 0 .. N /\ \A i \in 1 .. N : i \in 0 .. N /\ i # 0
    OBVIOUS
  <2> QED
    BY <1>8
<1> QED
  BY <1>9 DEF t, N

LEMMA CrcAfterAll ==
    ASSUME NEW data \in Seq(BitsOfByte)
    PROVE  /\ CrcAfter(data)[Len(data)] \in SUBSET (0 .. 15)
           /\ Congruent(CrcAfter(data)[Len(data)], MessagePolynomial(data))
<1> DEFINE t == CrcAfter(data)
           N == Len(data)
           done(i) == SubSeq(data, 1, i)
           P == {i \in 0 .. N : /\ t[i] \in SUBSET (0 .. 15)
                                /\ Congruent(t[i], MessagePolynomial(done(i)))}
<1> N \in Nat
  OBVIOUS
<1>1. t[0] = {} /\ \A i \in 1 .. N : t[i] = crc_update(t[i - 1], data[i])
  BY CrcAfterIsDefined
<1> HIDE DEF t, done
<1>2. 0 \in P
  <2>1. Congruent({}, MessagePolynomial(done(0)))
    BY NothingIsCongruent DEF done
  <2>2. t[0] \in SUBSET (0 .. 15) /\ 0 \in 0 .. N
    BY <1>1
  <2> QED
    BY <1>1, <2>1, <2>2
<1>3. ASSUME NEW i \in 0 .. N, i < N, i \in P PROVE i + 1 \in P
  <2>1. i + 1 \in 1 .. N /\ i + 1 - 1 = i /\ i + 1 \in 0 .. N /\ i \in 0 .. N - 1
    BY <1>3
  <2>2. /\ done(i) \in Seq(BitsOfByte) /\ data[i + 1] \in BitsOfByte
        /\ done(i + 1) = Append(done(i), data[i + 1])
    BY <2>1, PrefixGrows DEF done
  <2>3. t[i] \in SUBSET (0 .. 15) /\ Congruent(t[i], MessagePolynomial(done(i)))
    BY <1>3
  <2>4. t[i + 1] = crc_update(t[i], data[i + 1])
    BY <1>1, <2>1
  <2>5. /\ t[i + 1] \in SUBSET (0 .. 15)
        /\ Congruent(t[i + 1], MessagePolynomial(done(i + 1)))
    BY <2>2, <2>3, <2>4, CrcOfOneMore
  <2> QED
    BY <2>1, <2>5
<1>4. P = 0 .. N
  <2>1. P \in SUBSET (0 .. N)
    OBVIOUS
  <2> HIDE DEF P, N
  <2> QED
    BY <1>2, <1>3, <2>1, Induction
<1>5. N \in P
  <2> HIDE DEF P, N
  <2> QED
    BY <1>4
<1>6. done(N) = data
  BY SubSeqFull DEF done
<1> QED
  BY <1>5, <1>6 DEF t

\* What BootProtocolCrcCalculate returns for a message of any length.
THEOREM CalculateIsADivision ==
    ASSUME NEW data \in Seq(BitsOfByte)
    PROVE  BootProtocolCrcCalculate(data)
              = Remainder(Shifted(MessagePolynomial(data), 16), 8 * Len(data))
<1> DEFINE c == CrcAfter(data)[Len(data)]
<1>1. c \in SUBSET (0 .. 15) /\ Congruent(c, MessagePolynomial(data))
  BY CrcAfterAll
<1>2. BootProtocolCrcCalculate(data) = Augmented(c)
  BY DEF BootProtocolCrcCalculate, CrcAfter
<1> HIDE DEF c
<1> QED
  BY <1>1, <1>2, AugmentedIsRemainder

LEMMA CalculateType ==
    ASSUME NEW data \in Seq(BitsOfByte)
    PROVE  /\ BootProtocolCrcCalculate(data) \in SUBSET (0 .. 15)
           /\ Congruent(BootProtocolCrcCalculate(data), Shifted(MessagePolynomial(data), 16))
<1> DEFINE p == Shifted(MessagePolynomial(data), 16)
           N == 8 * Len(data)
<1>1. BootProtocolCrcCalculate(data) = Remainder(p, N)
  BY CalculateIsADivision
<1>2. N \in Nat /\ p \in SUBSET (0 .. N + 15)
  <2>1. N \in Nat /\ \A x \in MessagePolynomial(data) : x \in Nat /\ x < N
    BY MessageBits
  <2> HIDE DEF N
  <2> QED
    BY <2>1 DEF Shifted
<1> HIDE DEF p, N
<1>3. Remainder(p, N) \in SUBSET (0 .. 15) /\ Congruent(Remainder(p, N), p)
  BY <1>2, RemainderIsCongruent
<1> QED
  BY <1>1, <1>3 DEF p

LEMMA RemaindersAgree ==
    ASSUME NEW p \in SUBSET Nat, NEW r \in SUBSET (0 .. 15), NEW s \in SUBSET (0 .. 15),
           Congruent(r, p), Congruent(s, p)
    PROVE  r = s
<1>1. r \in SUBSET Nat /\ s \in SUBSET Nat
  OBVIOUS
<1>2. Congruent(r, s)
  BY <1>1, CongruentPolynomials
<1> QED
  BY <1>2, RemainderIsUnique

-----------------------------------------------------------------------------
(* Disturbed frames.  Bit k of the wire carries one bit of one byte.       *)

WireError(bits, i) == {b \in 0 .. 7 : 8 * (i - 1) + 7 - b \in bits}

\* The disturbance of the payload and of the CRC, as seen by the receiver.
MessageError(bits, n) == [i \in 1 .. n |-> WireError(bits, i)]
CrcError(bits, n) == WireError(bits, n + 1) \cup Shifted(WireError(bits, n + 2), 8)

LEMMA MessageBit ==
    ASSUME NEW data \in Seq(BitsOfByte), NEW i \in 1 .. Len(data), NEW b \in 0 .. 7
    PROVE  b + 8 * (Len(data) - i) \in MessagePolynomial(data) <=> b \in data[i]
<1> DEFINE N == Len(data)
           Term(j) == Shifted(data[j], 8 * (N - j))
<1>1. N \in Nat /\ DOMAIN data = 1 .. N /\ \A j \in 1 .. N : data[j] \in SUBSET (0 .. 7)
  BY DEF BitsOfByte
<1>2. MessagePolynomial(data) = UNION {Term(j) : j \in 1 .. N}
  BY <1>1 DEF MessagePolynomial
<1>3. \A j, x : x \in Term(j) <=> \E a \in data[j] : x = a + 8 * (N - j)
  BY DEF Shifted
<1> HIDE DEF Term, N
<1>4. i \in 1 .. N
  BY DEF N
<1>5. \A x : x \in MessagePolynomial(data) <=> \E j \in 1 .. N : \E a \in data[j] : x = a + 8 * (N - j)
  BY <1>2, <1>3
<1>6. \A j \in 1 .. N, a \in 0 .. 7 : b + 8 * (N - i) = a + 8 * (N - j) => a = b /\ j = i
  BY <1>1, <1>4
<1>7. b + 8 * (N - i) \in MessagePolynomial(data) <=> b \in data[i]
  BY <1>1, <1>4, <1>5, <1>6
<1> QED
  BY <1>7 DEF N

\* Every degree below 8 * n is that of one bit of one byte.
LEMMA DegreeIsABit ==
    ASSUME NEW n \in Nat, NEW x \in Nat, x < 8 * n
    PROVE  \E i \in 1 .. n, b \in 0 .. 7 : x = b + 8 * (n - i)
<1>1. x = 8 * (x \div 8) + (x % 8) /\ x \div 8 \in Nat /\ x % 8 \in 0 .. 7
  OBVIOUS
<1> DEFINE k == x \div 8
           b == x % 8
<1> HIDE DEF k, b
<1>2. x = 8 * k + b /\ k \in Nat /\ b \in 0 .. 7
  BY <1>1 DEF k, b
<1>3. n - k \in 1 .. n /\ x = b + 8 * (n - (n - k))
  BY <1>2
<1> QED
  BY <1>2, <1>3

LEMMA MessageXor ==
    ASSUME NEW v \in Seq(BitsOfByte), NEW w \in Seq(BitsOfByte), NEW u \in Seq(BitsOfByte),
           Len(w) = Len(v), Len(u) = Len(v), \A i \in 1 .. Len(v) : u[i] = Xor(v[i], w[i])
    PROVE  MessagePolynomial(u) = Xor(MessagePolynomial(v), MessagePolynomial(w))
<1> DEFINE n == Len(v)
           U == MessagePolynomial(u)
           V == MessagePolynomial(v)
           W == MessagePolynomial(w)
<1> n \in Nat
  OBVIOUS
<1>1. /\ U \in SUBSET Nat /\ \A x \in U : x < 8 * n
      /\ V \in SUBSET Nat /\ \A x \in V : x < 8 * n
      /\ W \in SUBSET Nat /\ \A x \in W : x < 8 * n
  BY MessageBits
<1>2. \A i \in 1 .. n, b \in 0 .. 7 :
        /\ b + 8 * (n - i) \in U <=> b \in u[i]
        /\ b + 8 * (n - i) \in V <=> b \in v[i]
        /\ b + 8 * (n - i) \in W <=> b \in w[i]
  BY MessageBit
<1>3. \A i \in 1 .. n : u[i] = Xor(v[i], w[i])
  OBVIOUS
<1> HIDE DEF n, U, V, W
<1>4. ASSUME NEW x \in Nat PROVE x \in U <=> x \in Xor(V, W)
  <2>1. CASE x < 8 * n
    <3>1. PICK i \in 1 .. n, b \in 0 .. 7 : x = b + 8 * (n - i)
      BY <2>1, DegreeIsABit
    <3>2. b \in u[i] <=> b \in Xor(v[i], w[i])
      BY <1>3
    <3>3. (x \in U <=> b \in u[i]) /\ (x \in V <=> b \in v[i]) /\ (x \in W <=> b \in w[i])
      BY <1>2, <3>1
    <3> QED
      BY <3>2, <3>3 DEF Xor
  <2>2. CASE ~(x < 8 * n)
    BY <1>1, <2>2, XorAlgebra
  <2> QED
    BY <2>1, <2>2
<1>5. Xor(V, W) \in SUBSET Nat
  BY <1>1, XorAlgebra
<1>6. U = Xor(V, W)
  BY <1>1, <1>4, <1>5
<1> QED
  BY <1>6 DEF U, V, W

LEMMA MessageErrorBits ==
    ASSUME NEW n \in Nat, NEW bits \in SUBSET Nat
    PROVE  /\ MessageError(bits, n) \in Seq(BitsOfByte) /\ Len(MessageError(bits, n)) = n
           /\ \A x \in Nat : x \in MessagePolynomial(MessageError(bits, n))
                               <=> x < 8 * n /\ 8 * n - 1 - x \in bits
<1> DEFINE e == MessageError(bits, n)
<1>1. e \in Seq(BitsOfByte) /\ Len(e) = n /\ \A i \in 1 .. n : e[i] = WireError(bits, i)
  BY DEF MessageError, WireError, BitsOfByte
<1> HIDE DEF e
<1>2. ASSUME NEW x \in Nat
      PROVE  x \in MessagePolynomial(e) <=> x < 8 * n /\ 8 * n - 1 - x \in bits
  <2>1. CASE x < 8 * n
    <3>1. PICK i \in 1 .. n, b \in 0 .. 7 : x = b + 8 * (n - i)
      BY <2>1, DegreeIsABit
    <3>2. x \in MessagePolynomial(e) <=> b \in e[i]
      BY <1>1, <3>1, MessageBit
    <3>3. 8 * n - 1 - x = 8 * (i - 1) + 7 - b
      BY <3>1
    <3>4. b \in e[i] <=> 8 * (i - 1) + 7 - b \in bits
      BY <1>1 DEF WireError
    <3> QED
      BY <2>1, <3>2, <3>3, <3>4
  <2>2. CASE ~(x < 8 * n)
    BY <1>1, <2>2, MessageBits
  <2> QED
    BY <2>1, <2>2
<1> QED
  BY <1>1, <1>2 DEF e

LEMMA CrcErrorBits ==
    ASSUME NEW n \in Nat, NEW bits \in SUBSET Nat
    PROVE  /\ CrcError(bits, n) \in SUBSET (0 .. 15)
           /\ \A y \in 0 .. 7 : y \in CrcError(bits, n) <=> 8 * n + 7 - y \in bits
           /\ \A y \in 8 .. 15 : y \in CrcError(bits, n) <=> 8 * n + 23 - y \in bits
<1> DEFINE l == WireError(bits, n + 1)
           h == WireError(bits, n + 2)
<1>1. l \in SUBSET (0 .. 7) /\ h \in SUBSET (0 .. 7)
  BY DEF WireError
<1>2. \A b \in 0 .. 7 : b \in l <=> 8 * n + 7 - b \in bits
  <2>1. \A b \in 0 .. 7 : 8 * (n + 1 - 1) + 7 - b = 8 * n + 7 - b
    OBVIOUS
  <2> QED
    BY <2>1 DEF WireError
<1>3. \A b \in 0 .. 7 : b \in h <=> 8 * n + 15 - b \in bits
  <2>1. \A b \in 0 .. 7 : 8 * (n + 2 - 1) + 7 - b = 8 * n + 15 - b
    OBVIOUS
  <2> QED
    BY <2>1 DEF WireError
<1> HIDE DEF l, h
<1>4. h \in SUBSET Nat
  BY <1>1
<1>5. \A y \in Nat : y \in Shifted(h, 8) <=> y >= 8 /\ y - 8 \in h
  BY <1>4, ShiftedBits
<1>6. Shifted(h, 8) \in SUBSET (8 .. 15)
  BY <1>1 DEF Shifted
<1>7. \A y \in 8 .. 15 : y \in Shifted(h, 8) <=> 8 * n + 23 - y \in bits
  <2> TAKE y \in 8 .. 15
  <2>1. y - 8 \in 0 .. 7 /\ 8 * n + 15 - (y - 8) = 8 * n + 23 - y /\ y \in Nat
    OBVIOUS
  <2> QED
    BY <1>3, <1>5, <2>1
<1>8. CrcError(bits, n) = l \cup Shifted(h, 8)
  BY DEF CrcError, l, h
<1> HIDE DEF CrcError
<1>9. CrcError(bits, n) \in SUBSET (0 .. 15)
  <2>1. (\A x \in l : x \in 0 .. 15) /\ (\A x \in Shifted(h, 8) : x \in 0 .. 15)
    BY <1>1, <1>6
  <2> QED
    BY <1>8, <2>1
<1>10. \A y \in 0 .. 7 : y \in CrcError(bits, n) <=> y \in l
  BY <1>6, <1>8
<1>11. \A y \in 8 .. 15 : y \in CrcError(bits, n) <=> y \in Shifted(h, 8)
  BY <1>1, <1>8
<1> QED
  BY <1>2, <1>7, <1>9, <1>10, <1>11

LEMMA MultipleBits ==
    ASSUME NEW q \in SUBSET Nat, NEW m \in q, NEW d \in q,
           \A x \in q : m <= x /\ x <= d
    PROVE  /\ d + 16 \in Multiple(q) /\ m \in Multiple(q)
           /\ d - m <= 3 => d + 5 \in Multiple(q) /\ d + 12 \in Multiple(q)
<1>1. m \in Nat /\ d \in Nat /\ \A x \in q : x \in Nat
  OBVIOUS
<1>2. \A y \in Nat, n \in Nat : y \in Shifted(q, n) <=> y >= n /\ y - n \in q
  BY ShiftedBits
<1>3. \A y \in Nat, n \in Nat : y - n > d \/ y - n < m => y \notin Shifted(q, n)
  BY <1>1, <1>2
<1>4. \A n \in Nat : m + n \in Shifted(q, n) /\ d + n \in Shifted(q, n)
  BY DEF Shifted
<1>5. d + 16 \in Multiple(q)
  <2>1. d + 16 \in Nat /\ d + 16 - 12 > d /\ d + 16 - 5 > d /\ ~(d + 16 <= d)
    BY <1>1
  <2>2. d + 16 \notin Shifted(q, 12) /\ d + 16 \notin Shifted(q, 5) /\ d + 16 \notin q
    BY <1>3, <2>1
  <2> QED
    BY <1>4, <2>2 DEF Multiple, Xor
<1>6. m \in Multiple(q)
  <2>1. m - 16 < m /\ m - 12 < m /\ m - 5 < m
    BY <1>1
  <2>2. m \notin Shifted(q, 16) /\ m \notin Shifted(q, 12) /\ m \notin Shifted(q, 5)
    BY <1>1, <1>3, <2>1
  <2> QED
    BY <2>2 DEF Multiple, Xor
<1>7. ASSUME d - m <= 3 PROVE d + 5 \in Multiple(q) /\ d + 12 \in Multiple(q)
  <2>1. /\ d + 5 \in Nat /\ d + 5 - 16 < m /\ d + 5 - 12 < m /\ ~(d + 5 <= d)
        /\ d + 12 \in Nat /\ d + 12 - 16 < m /\ d + 12 - 5 > d /\ ~(d + 12 <= d)
    BY <1>1, <1>7
  <2>2. d + 5 \notin Shifted(q, 16) /\ d + 5 \notin Shifted(q, 12) /\ d + 5 \notin q
    BY <1>3, <2>1
  <2>3. d + 12 \notin Shifted(q, 16) /\ d + 12 \notin Shifted(q, 5) /\ d + 12 \notin q
    BY <1>3, <2>1
  <2>4. d + 5 \in Shifted(q, 5) /\ d + 12 \in Shifted(q, 12)
    BY <1>4
  <2> QED
    BY <2>2, <2>3, <2>4 DEF Multiple, Xor
<1> QED
  BY <1>5, <1>6, <1>7

\* A disturbance within 12 successive bits of the wire is no multiple of the
\* generator, although the CRC's two bytes are swapped on the wire: of a
\* multiple q of so short an extent the terms d + 12 and d + 5, for the
\* highest d of q, cannot both be where the disturbance reaches.
LEMMA BurstIsNoMultiple ==
    ASSUME NEW n \in Nat, NEW first \in Nat,
           NEW bits \in SUBSET (first .. first + 11), first \in bits,
           \A k \in bits : k < 8 * n + 16
    PROVE  ~Congruent(Shifted(MessagePolynomial(MessageError(bits, n)), 16), CrcError(bits, n))
<1> DEFINE e == MessagePolynomial(MessageError(bits, n))
           f == Shifted(e, 16)
           g == CrcError(bits, n)
           w == Xor(f, g)
<1> SUFFICES ASSUME Congruent(f, g) PROVE FALSE
  OBVIOUS
<1>1. bits \in SUBSET Nat /\ first < 8 * n + 16
  OBVIOUS
<1>2. e \in SUBSET Nat /\ \A x \in Nat : x \in e <=> x < 8 * n /\ 8 * n - 1 - x \in bits
  BY <1>1, MessageErrorBits, MessageBits
<1>3. /\ g \in SUBSET (0 .. 15)
      /\ \A y \in 0 .. 7 : y \in g <=> 8 * n + 7 - y \in bits
      /\ \A y \in 8 .. 15 : y \in g <=> 8 * n + 23 - y \in bits
  BY <1>1, CrcErrorBits
<1>4. PICK q \in SUBSET Nat : Bounded(q) /\ w = Multiple(q)
  BY DEF Congruent
<1> HIDE DEF e, g
<1>5. \A y \in Nat : y \in f <=> y >= 16 /\ y - 16 \in e
  BY <1>2, ShiftedBits
<1> HIDE DEF f
<1>6. \A y \in 0 .. 15 : y \in w <=> y \in g
  <2> \A y \in 0 .. 15 : y \in Nat /\ ~(y >= 16)
    OBVIOUS
  <2> QED
    BY <1>5, XorAlgebra
<1>7. \A y \in Nat : y >= 16 => (y \in w <=> 8 * n + 15 - y \in bits /\ y < 8 * n + 16)
  <2> TAKE y \in Nat
  <2> HAVE y >= 16
  <2>1. y \notin g /\ y - 16 \in Nat /\ 8 * n - 1 - (y - 16) = 8 * n + 15 - y
    BY <1>3
  <2>2. y - 16 < 8 * n <=> y < 8 * n + 16
    OBVIOUS
  <2> QED
    BY <1>2, <1>5, <2>1, <2>2, XorAlgebra
<1> HIDE DEF w
<1>8. q # {}
  <2>1. \E y \in Nat : y \in w
    <3>1. CASE first < 8 * n
      <4>1. 8 * n + 15 - first \in Nat /\ 8 * n + 15 - first >= 16
            /\ 8 * n + 15 - (8 * n + 15 - first) = first /\ 8 * n + 15 - first < 8 * n + 16
        BY <3>1
      <4> QED
        BY <1>7, <4>1
    <3>2. CASE first >= 8 * n /\ first < 8 * n + 8
      <4>1. 8 * n + 7 - first \in 0 .. 7 /\ 8 * n + 7 - (8 * n + 7 - first) = first
            /\ 8 * n + 7 - first \in 0 .. 15
        BY <3>2
      <4> QED
        BY <1>3, <1>6, <4>1
    <3>3. CASE first >= 8 * n + 8
      <4>1. 8 * n + 23 - first \in 8 .. 15 /\ 8 * n + 23 - (8 * n + 23 - first) = first
            /\ 8 * n + 23 - first \in 0 .. 15
        BY <1>1, <3>3
      <4> QED
        BY <1>3, <1>6, <4>1
    <3> QED
      BY <3>1, <3>2, <3>3
  <2>2. Multiple({}) = {}
    BY DEF Multiple, Shifted, Xor
  <2> QED
    BY <1>4, <2>1, <2>2
<1>9. PICK d \in q : \A x \in q : x <= d
  BY <1>4, <1>8, GreatestNumber
<1>10. PICK m \in q : \A x \in q : m <= x
  BY <1>8, LeastNumber
<1>11. m \in Nat /\ d \in Nat /\ m <= d
  BY <1>9, <1>10
<1>12. /\ d + 16 \in w /\ m \in w
       /\ d - m <= 3 => d + 5 \in w /\ d + 12 \in w
  BY <1>4, <1>9, <1>10, MultipleBits
<1>13. \A k, l \in bits : k - l <= 11
  OBVIOUS
\* The bit of the highest degree, in the payload.
<1>14. 8 * n - 1 - d \in bits
  <2>1. d + 16 \in Nat /\ d + 16 >= 16 /\ 8 * n + 15 - (d + 16) = 8 * n - 1 - d
    BY <1>11
  <2> QED
    BY <1>7, <1>12, <2>1
\* The lowest one is in the CRC's first byte, and close.
<1>15. m \in 0 .. 7 /\ d - m <= 3
  <2>1. ~(m >= 16)
    <3> SUFFICES ASSUME m >= 16 PROVE FALSE
      OBVIOUS
    <3>1. 8 * n + 15 - m \in bits
      BY <1>7, <1>11, <1>12
    <3>2. 8 * n + 15 - m - (8 * n - 1 - d) <= 11
      BY <1>13, <1>14, <3>1
    <3> QED
      BY <1>11, <3>2
  <2>2. m \notin 8 .. 15
    <3> SUFFICES ASSUME m \in 8 .. 15 PROVE FALSE
      OBVIOUS
    <3>1. 8 * n + 23 - m \in bits
      BY <1>3, <1>6, <1>12
    <3>2. 8 * n + 23 - m - (8 * n - 1 - d) <= 11
      BY <1>13, <1>14, <3>1
    <3> QED
      BY <1>11, <3>2
  <2>3. m \in 0 .. 7
    BY <1>11, <2>1, <2>2
  <2>4. 8 * n + 7 - m \in bits
    BY <1>3, <1>6, <1>12, <2>3
  <2>5. 8 * n + 7 - m - (8 * n - 1 - d) <= 11
    BY <1>13, <1>14, <2>4
  <2> QED
    BY <1>11, <2>3, <2>5
<1>16. d + 5 \in w /\ d + 12 \in w
  BY <1>12, <1>15
<1>17. d >= 4
  <2> SUFFICES ASSUME d \in 0 .. 3 PROVE FALSE
    BY <1>11
  <2>1. d + 12 \in 8 .. 15 /\ d + 12 \in 0 .. 15 /\ 8 * n + 23 - (d + 12) = 8 * n + 11 - d
    OBVIOUS
  <2>2. 8 * n + 11 - d \in bits
    BY <1>3, <1>6, <1>16, <2>1
  <2>3. 8 * n + 11 - d - (8 * n - 1 - d) <= 11
    BY <1>13, <1>14, <2>2
  <2> QED
    BY <1>11, <2>3
<1>18. d <= 10
  BY <1>11, <1>15
<1>19. d + 5 \in 8 .. 15 /\ d + 5 \in 0 .. 15 /\ 8 * n + 23 - (d + 5) = 8 * n + 18 - d
  BY <1>11, <1>17, <1>18
<1>20. 8 * n + 18 - d \in bits
  BY <1>3, <1>6, <1>16, <1>19
<1>21. 8 * n + 18 - d - (8 * n - 1 - d) <= 11
  BY <1>13, <1>14, <1>20
<1> QED
  BY <1>11, <1>21

LowByte(word) == word \cap (0 .. 7)
HighByte(word) == {b - 8 : b \in word \ (0 .. 7)}

LEMMA SentBytes ==
    ASSUME NEW data \in Seq(BitsOfByte), NEW c \in SUBSET (0 .. 15)
    PROVE  /\ data \o CrcBytes(c) \in Seq(BitsOfByte)
           /\ Len(data \o CrcBytes(c)) = Len(data) + 2
           /\ \A i \in 1 .. Len(data) : (data \o CrcBytes(c))[i] = data[i]
           /\ (data \o CrcBytes(c))[Len(data) + 1] = LowByte(c)
           /\ (data \o CrcBytes(c))[Len(data) + 2] = HighByte(c)
<1> DEFINE l == LowByte(c)
           h == HighByte(c)
           two == CrcBytes(c)
           sent == data \o two
<1>1. l \in BitsOfByte /\ h \in BitsOfByte
  BY DEF BitsOfByte, LowByte, HighByte
<1>2. two = <<l, h>>
  BY DEF CrcBytes, LowByte, HighByte
<1> HIDE DEF l, h, two
<1>3. two \in Seq(BitsOfByte) /\ Len(two) = 2 /\ two[1] = l /\ two[2] = h
  BY <1>1, <1>2
<1>4. /\ sent \in Seq(BitsOfByte) /\ Len(sent) = Len(data) + Len(two)
      /\ \A i \in 1 .. Len(data) + Len(two) :
            sent[i] = IF i <= Len(data) THEN data[i] ELSE two[i - Len(data)]
  BY <1>3, ConcatProperties
<1> HIDE DEF sent
<1>5. \A i \in 1 .. Len(data) : sent[i] = data[i]
  BY <1>3, <1>4
<1>6. sent[Len(data) + 1] = two[1] /\ sent[Len(data) + 2] = two[2]
  <2>1. Len(data) \in Nat
    OBVIOUS
  <2> QED
    BY <1>3, <1>4, <2>1
<1> QED
  BY <1>3, <1>4, <1>5, <1>6 DEF sent, l, h, two

LEMMA ArrivedBytes ==
    ASSUME NEW sent \in Seq(BitsOfByte), NEW bits \in SUBSET Nat
    PROVE  /\ Flipped(sent, bits) \in Seq(BitsOfByte)
           /\ Len(Flipped(sent, bits)) = Len(sent)
           /\ \A i \in 1 .. Len(sent) : Flipped(sent, bits)[i] = Xor(sent[i], WireError(bits, i))
<1> DEFINE n == Len(sent)
           f == Flipped(sent, bits)
<1>1. DOMAIN sent = 1 .. n /\ n \in Nat
  OBVIOUS
<1>2. f = [i \in 1 .. n |-> Xor(sent[i], WireError(bits, i))]
  BY <1>1 DEF Flipped, WireError
<1>3. \A i \in 1 .. n : Xor(sent[i], WireError(bits, i)) \in BitsOfByte
  <2> TAKE i \in 1 .. n
  <2>1. sent[i] \in SUBSET (0 .. 7) /\ WireError(bits, i) \in SUBSET (0 .. 7)
    BY DEF BitsOfByte, WireError
  <2> QED
    BY <2>1 DEF Xor, BitsOfByte
<1> HIDE DEF n, f
<1>4. f \in Seq(BitsOfByte) /\ Len(f) = n
  BY <1>1, <1>2, <1>3
<1>5. \A i \in 1 .. n : f[i] = Xor(sent[i], WireError(bits, i))
  BY <1>2
<1> QED
  BY <1>4, <1>5 DEF n, f

\* What a word's two bytes and their disturbance say of the words.
LEMMA WordOfBytes ==
    ASSUME NEW r \in SUBSET (0 .. 15), NEW c \in SUBSET (0 .. 15),
           NEW l \in SUBSET (0 .. 7), NEW h \in SUBSET (0 .. 7),
           LowByte(r) = Xor(LowByte(c), l), HighByte(r) = Xor(HighByte(c), h)
    PROVE  Xor(r, c) = l \cup Shifted(h, 8)
<1>1. \A x \in 0 .. 7 : x \in Xor(r, c) <=> x \in l
  <2> \A x \in 0 .. 7 : (x \in r <=> x \in LowByte(r)) /\ (x \in c <=> x \in LowByte(c))
    BY DEF LowByte
  <2> QED
    BY DEF Xor
<1>2. \A x \in 8 .. 15 : x \in Xor(r, c) <=> x - 8 \in h
  <2> TAKE x \in 8 .. 15
  <2>1. x \in r <=> x - 8 \in HighByte(r)
    BY DEF HighByte
  <2>2. x \in c <=> x - 8 \in HighByte(c)
    BY DEF HighByte
  <2> QED
    BY <2>1, <2>2 DEF Xor
<1>3. h \in SUBSET Nat
  OBVIOUS
<1>4. \A x \in Nat : x \in Shifted(h, 8) <=> x >= 8 /\ x - 8 \in h
  BY <1>3, ShiftedBits
<1>5. Shifted(h, 8) \in SUBSET (8 .. 15)
  BY DEF Shifted
<1>6. Xor(r, c) \in SUBSET (0 .. 15)
  BY DEF Xor
<1>7. ASSUME NEW x \in 0 .. 15 PROVE x \in Xor(r, c) <=> x \in l \cup Shifted(h, 8)
  <2>1. CASE x \in 0 .. 7
    <3>1. x \notin Shifted(h, 8)
      BY <1>5, <2>1
    <3> QED
      BY <1>1, <2>1, <3>1
  <2>2. CASE x \in 8 .. 15
    <3>1. x \notin l /\ x \in Nat /\ x >= 8
      BY <2>2
    <3> QED
      BY <1>2, <1>4, <2>2, <3>1
  <2> QED
    BY <2>1, <2>2
<1>8. \A x \in l \cup Shifted(h, 8) : x \in 0 .. 15
  BY <1>5
<1> QED
  BY <1>6, <1>7, <1>8

\* The wire carries the payload and its CRC, disturbed nowhere or within
\* BurstBits successive bits.
WireInv ==
    wire # <<>> =>
        /\ index = Len(payload)
        /\ \E bits \in SUBSET Nat :
              /\ \A k \in bits : k < 8 * Len(payload) + 16
              /\ \/ bits = {}
                 \/ \E first \in bits : bits \subseteq first .. first + BurstBits - 1
              /\ wire = Flipped(payload \o CrcBytes(Augmented(crc)), bits)

LEMMA AugmentedType ==
    ASSUME CrcInv
    PROVE  /\ Augmented(crc) \in SUBSET (0 .. 15)
           /\ index = Len(payload) =>
                 Congruent(Augmented(crc), Shifted(MessagePolynomial(payload), 16))
<1> DEFINE done == SubSeq(payload, 1, index)
           p == Shifted(MessagePolynomial(done), 16)
           N == 8 * Len(done)
<1>1. done \in Seq(BitsOfByte) /\ (index = Len(payload) => done = payload)
  BY SubSeqFull DEF CrcInv
<1>2. crc \in SUBSET (0 .. 15) /\ Congruent(crc, MessagePolynomial(done))
  BY DEF CrcInv
<1> HIDE DEF done
<1>3. Augmented(crc) = Remainder(p, N)
  BY <1>1, <1>2, AugmentedIsRemainder
<1>4. N \in Nat /\ p \in SUBSET (0 .. N + 15)
  <2>1. N \in Nat /\ \A x \in MessagePolynomial(done) : x \in Nat /\ x < N
    BY <1>1, MessageBits
  <2> HIDE DEF N
  <2> QED
    BY <2>1 DEF Shifted
<1>5. Remainder(p, N) \in SUBSET (0 .. 15) /\ Congruent(Remainder(p, N), p)
  <2> HIDE DEF p, N
  <2> QED
    BY <1>4, RemainderIsCongruent
<1> QED
  BY <1>1, <1>3, <1>5

LEMMA WirePreserved ==
    ASSUME CrcInv, WireInv, [CrcNext]_crc_vars
    PROVE  WireInv'
<1>1. CASE UpdateCrc
  <2>1. wire = <<>>
    BY <1>1 DEF UpdateCrc, WireInv, CrcInv
  <2> QED
    BY <1>1, <2>1 DEF UpdateCrc, WireInv
<1>2. CASE SendFrame
  <2> DEFINE sent == payload \o CrcBytes(Augmented(crc))
  <2>1. payload \in Seq(BitsOfByte) /\ Len(sent) = Len(payload) + 2
    BY AugmentedType, SentBytes DEF CrcInv
  <2>2. index = Len(payload) /\ UNCHANGED <<payload, index, crc>>
    BY <1>2 DEF SendFrame
  <2> HIDE DEF sent
  <2>3. \E bits \in SUBSET Nat :
           /\ \A k \in bits : k < 8 * Len(sent)
           /\ bits = {} \/ \E first \in bits : bits \subseteq first .. first + BurstBits - 1
           /\ wire' = Flipped(sent, bits)
    <3>1. CASE Arrives({})
      <4>1. wire' = Flipped(sent, {})
        BY <3>1 DEF Arrives, sent
      <4> QED
        BY <4>1
    <3>2. CASE \E first \in 0 .. 8 * Len(payload) + 15, others \in SUBSET (1 .. BurstBits - 1) :
                  Arrives({first} \cup Shifted(others, first))
      <4>1. PICK first \in 0 .. 8 * Len(payload) + 15, others \in SUBSET (1 .. BurstBits - 1) :
               Arrives({first} \cup Shifted(others, first))
        BY <3>2
      <4> DEFINE bits == {first} \cup Shifted(others, first)
      <4>2. wire' = Flipped(sent, bits) /\ \A k \in bits : k < 8 * Len(sent)
        BY <4>1 DEF Arrives, sent
      <4>3. first \in Nat /\ first \in bits
        BY <2>1
      <4>4. \A k \in bits : k \in Nat /\ k \in first .. first + BurstBits - 1
        BY <4>3, CrcAssumption DEF Shifted
      <4> HIDE DEF bits
      <4> QED
        BY <4>2, <4>3, <4>4
    <3> QED
      BY <1>2, <3>1, <3>2 DEF SendFrame
  <2>4. PICK bits \in SUBSET Nat :
           /\ \A k \in bits : k < 8 * Len(sent)
           /\ bits = {} \/ \E first \in bits : bits \subseteq first .. first + BurstBits - 1
           /\ wire' = Flipped(sent, bits)
    BY <2>3
  <2>5. \A k \in bits : k < 8 * Len(payload) + 16
    BY <2>1, <2>4
  <2>6. wire' = Flipped(payload' \o CrcBytes(Augmented(crc')), bits)
    BY <2>2, <2>4 DEF sent
  <2>7. index' = Len(payload') /\ Len(payload') = Len(payload)
    BY <2>2
  <2> QED
    BY <2>4, <2>5, <2>6, <2>7 DEF WireInv
<1>3. CASE NextFrame
  BY <1>3 DEF NextFrame, WireInv
<1>4. CASE UNCHANGED crc_vars
  BY <1>4 DEF crc_vars, WireInv
<1> QED
  BY <1>1, <1>2, <1>3, <1>4 DEF CrcNext

\* A message that arrives with its CRC, disturbed within 12 successive bits,
\* is not accepted; undisturbed, it is.
LEMMA DisturbedMessage ==
    ASSUME NEW data \in Seq(BitsOfByte), NEW c \in SUBSET (0 .. 15),
           Congruent(c, Shifted(MessagePolynomial(data), 16)),
           NEW bits \in SUBSET Nat, \A k \in bits : k < 8 * Len(data) + 16,
           NEW first \in bits, bits \subseteq first .. first + 11,
           NEW r \in SUBSET (0 .. 15), NEW seen \in Seq(BitsOfByte), Len(seen) = Len(data),
           \A i \in 1 .. Len(data) : seen[i] = Xor(data[i], WireError(bits, i)),
           Congruent(r, Shifted(MessagePolynomial(seen), 16)),
           Xor(r, c) = CrcError(bits, Len(data))
    PROVE  FALSE
<1> DEFINE n == Len(data)
           e == MessageError(bits, n)
           p == MessagePolynomial(data)
           t == MessagePolynomial(e)
           u == MessagePolynomial(seen)
           g == CrcError(bits, n)
<1>1. n \in Nat /\ first \in Nat /\ bits \in SUBSET (first .. first + 11)
  OBVIOUS
<1>2. e \in Seq(BitsOfByte) /\ Len(e) = n /\ \A i \in 1 .. n : e[i] = WireError(bits, i)
  BY <1>1, MessageErrorBits DEF MessageError
<1>3. u = Xor(p, t)
  <2> HIDE DEF e
  <2> QED
    BY <1>2, MessageXor
<1>4. ~Congruent(Shifted(t, 16), g)
  BY <1>1, BurstIsNoMultiple
<1>5. p \in SUBSET Nat /\ t \in SUBSET Nat /\ u \in SUBSET Nat
  BY <1>2, MessageBits
<1>6. r \in SUBSET Nat /\ c \in SUBSET Nat
  OBVIOUS
<1>7. Congruent(c, Shifted(p, 16)) /\ Congruent(r, Shifted(u, 16)) /\ Xor(r, c) = g
  OBVIOUS
<1> HIDE DEF p, t, u, g
<1> DEFINE P == Shifted(p, 16)
           F == Shifted(t, 16)
<1>8. P \in SUBSET Nat /\ F \in SUBSET Nat /\ Shifted(u, 16) = Xor(P, F)
  <2>1. P \in SUBSET Nat /\ F \in SUBSET Nat
    <3>1. \A q \in SUBSET Nat : Shifted(q, 16) \in SUBSET Nat
      BY ShiftedBits
    <3> QED
      BY <1>5, <3>1
  <2>2. Shifted(Xor(p, t), 16) = Xor(P, F)
    BY <1>5, ShiftedXor
  <2> QED
    BY <1>3, <2>1, <2>2
<1>9. Congruent(r, Xor(P, F)) /\ Congruent(c, P)
  BY <1>7, <1>8
<1> HIDE DEF P, F
<1>10. /\ Xor(P, F) \in SUBSET Nat /\ Xor(c, r) \in SUBSET Nat /\ Xor(P, r) \in SUBSET Nat
       /\ Xor(Xor(P, F), P) \in SUBSET Nat /\ Xor(r, P) \in SUBSET Nat
  BY <1>6, <1>8, XorAlgebra
<1>11. Congruent(Xor(c, r), Xor(P, r))
  BY <1>6, <1>8, <1>9, CongruentPolynomials
<1>12. Congruent(Xor(r, P), Xor(Xor(P, F), P))
  BY <1>6, <1>8, <1>9, <1>10, CongruentPolynomials
<1>13. Xor(Xor(P, F), P) = F /\ Xor(P, r) = Xor(r, P) /\ Xor(c, r) = g
  <2>1. Xor(Xor(P, F), P) = F /\ Xor(P, r) = Xor(r, P) /\ Xor(c, r) = Xor(r, c)
    BY DEF Xor
  <2> QED
    BY <1>7, <2>1
<1>14. Congruent(g, F)
  <2>1. Congruent(g, Xor(r, P)) /\ Congruent(Xor(r, P), F) /\ g \in SUBSET Nat
    BY <1>10, <1>11, <1>12, <1>13
  <2> QED
    BY <1>8, <1>10, <2>1, CongruentPolynomials
<1>15. Congruent(F, g)
  BY <1>8, <1>10, <1>13, <1>14, CongruentPolynomials
<1> QED
  BY <1>4, <1>15 DEF F

LEMMA AcceptedOrDisturbed ==
    ASSUME CrcInv, WireInv, BurstBits <= 12
    PROVE  BurstIsSeen
<1> SUFFICES ASSUME wire # <<>>
             PROVE  FrameAccepted <=> wire = payload \o CrcBytes(Augmented(crc))
  BY DEF BurstIsSeen
<1> DEFINE n == Len(payload)
           c == Augmented(crc)
           sent == payload \o CrcBytes(c)
           seen == SubSeq(wire, 1, n)
           r == BootProtocolCrcCalculate(seen)
<1>1. payload \in Seq(BitsOfByte) /\ n \in Nat /\ index = n
  BY DEF CrcInv, WireInv
<1>2. c \in SUBSET (0 .. 15) /\ Congruent(c, Shifted(MessagePolynomial(payload), 16))
  BY <1>1, AugmentedType
<1>3. PICK bits \in SUBSET Nat :
         /\ \A k \in bits : k < 8 * Len(payload) + 16
         /\ bits = {} \/ \E first \in bits : bits \subseteq first .. first + BurstBits - 1
         /\ wire = Flipped(payload \o CrcBytes(Augmented(crc)), bits)
  BY DEF WireInv
<1> HIDE DEF c
<1>4. /\ sent \in Seq(BitsOfByte) /\ Len(sent) = n + 2
      /\ \A i \in 1 .. n : sent[i] = payload[i]
      /\ sent[n + 1] = LowByte(c) /\ sent[n + 2] = HighByte(c)
  BY <1>1, <1>2, SentBytes
<1>5. wire = Flipped(sent, bits)
  BY <1>3 DEF c
<1> HIDE DEF sent
<1>6. /\ wire \in Seq(BitsOfByte) /\ Len(wire) = n + 2
      /\ \A i \in 1 .. n + 2 : wire[i] = Xor(sent[i], WireError(bits, i))
  BY <1>4, <1>5, ArrivedBytes
<1> HIDE DEF n
<1>7. /\ seen \in Seq(BitsOfByte) /\ Len(seen) = n /\ \A i \in 1 .. n : seen[i] = wire[i]
  BY <1>1, <1>6
<1>8. n + 1 \in 1 .. n + 2 /\ n + 2 \in 1 .. n + 2 /\ \A i \in 1 .. n : i \in 1 .. n + 2
  BY <1>1
<1>9. \A i \in 1 .. n : seen[i] = Xor(payload[i], WireError(bits, i))
  BY <1>4, <1>6, <1>7, <1>8
<1> HIDE DEF seen
<1>10. r \in SUBSET (0 .. 15) /\ Congruent(r, Shifted(MessagePolynomial(seen), 16))
  BY <1>7, CalculateType
<1> HIDE DEF r
<1>11. FrameAccepted <=> LowByte(r) = wire[n + 1] /\ HighByte(r) = wire[n + 2]
  <2> DEFINE two == SubSeq(wire, n + 1, n + 2)
  <2>1. Len(wire) - 2 = n
    BY <1>1, <1>6
  <2>2. two \in Seq(BitsOfByte) /\ Len(two) = 2 /\ two[1] = wire[n + 1] /\ two[2] = wire[n + 2]
    BY <1>1, <1>6
  <2>3. FrameAccepted <=> CrcBytes(r) = two
    BY <2>1 DEF FrameAccepted, r, seen
  <2> HIDE DEF two
  <2>4. two = <<wire[n + 1], wire[n + 2]>>
    BY <2>2
  <2>5. CrcBytes(r) = <<LowByte(r), HighByte(r)>>
    BY DEF CrcBytes, LowByte, HighByte
  <2> QED
    BY <2>3, <2>4, <2>5
<1>12. CASE bits = {}
  <2>1. \A i, w : Xor(w, WireError(bits, i)) = w
    <3>1. \A i : WireError(bits, i) = {}
      BY <1>12 DEF WireError
    <3>2. \A w : Xor(w, {}) = w
      BY XorAlgebra
    <3> QED
      BY <3>1, <3>2, Zenon
  <2>2. \A i \in 1 .. n + 2 : wire[i] = sent[i]
    BY <1>6, <2>1
  <2>3. wire = sent
    BY <1>1, <1>4, <1>6, <2>2
  <2>4. seen = payload
    <3>1. \A i \in 1 .. n : seen[i] = payload[i]
      BY <1>9, <2>1
    <3> QED
      BY <1>1, <1>7, <3>1 DEF n
  <2>5. r = c
    <3>1. Shifted(MessagePolynomial(payload), 16) \in SUBSET Nat
      BY <1>1, MessageBits, ShiftedBits
    <3> QED
      BY <1>2, <1>10, <2>4, <3>1, RemaindersAgree
  <2>6. FrameAccepted
    BY <1>4, <1>8, <1>11, <2>2, <2>5
  <2> QED
    BY <2>3, <2>6 DEF sent, c
<1>13. CASE bits # {}
  <2>1. PICK first \in bits : bits \subseteq first .. first + BurstBits - 1
    BY <1>3, <1>13
  <2>2. bits \subseteq first .. first + 11
    BY <2>1, CrcAssumption
  <2>3. ~FrameAccepted
    <3> SUFFICES ASSUME FrameAccepted PROVE FALSE
      OBVIOUS
    <3>1. /\ LowByte(r) = Xor(LowByte(c), WireError(bits, n + 1))
          /\ HighByte(r) = Xor(HighByte(c), WireError(bits, n + 2))
      BY <1>4, <1>6, <1>8, <1>11
    <3>2. WireError(bits, n + 1) \in SUBSET (0 .. 7) /\ WireError(bits, n + 2) \in SUBSET (0 .. 7)
      BY DEF WireError
    <3>3. Xor(r, c) = CrcError(bits, n)
      BY <1>2, <1>10, <3>1, <3>2, WordOfBytes DEF CrcError
    <3> QED
      BY <1>1, <1>2, <1>3, <1>7, <1>9, <1>10, <2>1, <2>2, <3>3, DisturbedMessage DEF n
  <2>4. wire # sent
    <3>1. PICK i \in 1 .. n + 2, b \in 0 .. 7 : 8 * (i - 1) + 7 - b = first
      <4> DEFINE m == n + 2
      <4>1. first \in Nat /\ first < 8 * m /\ m \in Nat
        BY <1>1, <1>3 DEF n
      <4> HIDE DEF m
      <4>2. PICK j \in 1 .. m, a \in 0 .. 7 : first = a + 8 * (m - j)
        BY <4>1, DegreeIsABit
      <4>3. \E i \in 1 .. m, b \in 0 .. 7 : 8 * (i - 1) + 7 - b = first
        <5> DEFINE i == m + 1 - j
                   b == 7 - a
        <5>1. i \in 1 .. m /\ b \in 0 .. 7 /\ 8 * (i - 1) + 7 - b = first
          BY <4>1, <4>2
        <5> HIDE DEF i, b
        <5> QED
          BY <5>1
      <4> QED
        BY <4>3 DEF m
    <3>2. b \in WireError(bits, i)
      BY <3>1 DEF WireError
    <3>3. wire[i] # sent[i]
      BY <1>6, <3>2 DEF Xor
    <3> QED
      BY <3>3
  <2> QED
    BY <2>3, <2>4 DEF sent, c
<1> QED
  BY <1>12, <1>13

\* For every payload, however long: a frame is accepted exactly when it
\* arrives as it was sent, whatever disturbs 12 successive bits of it or
\* fewer (BootProtocolCrcCalculate and the receiver's comparison).  With 13
\* bits a disturbance may be taken for the frame.
THEOREM BurstIsAlwaysSeen ==
    ASSUME BurstBits <= 12
    PROVE  CrcSpec => []BurstIsSeen
<1>1. CrcInit => WireInv
  BY DEF CrcInit, WireInv
<1>2. CrcInv /\ WireInv /\ [CrcNext]_crc_vars => WireInv'
  BY WirePreserved
<1>3. CrcInv /\ WireInv => BurstIsSeen
  BY AcceptedOrDisturbed
<1> QED
  BY <1>1, <1>2, <1>3, CrcInvariant, PTL DEF CrcSpec

=============================================================================
