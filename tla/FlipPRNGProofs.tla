--------------------------- MODULE FlipPRNGProofs ----------------------------
(***************************************************************************)
(* Proofs about FlipPRNG, for bytes and blocks of any length, any number   *)
(* of blocks, and numbers and shuffles of any size.                        *)
(***************************************************************************)
EXTENDS FlipPRNG, FiniteSetTheorems, WellFoundedInduction, TLAPS

(* A set of natural numbers has a least element.                           *)
LEMMA LeastNumber ==
  ASSUME NEW B \in SUBSET Nat, B # {}
  PROVE  \E n \in B : \A m \in B : n <= m
  <1> DEFINE R == OpToRel(<, Nat)
  <1>1. IsWellFoundedOn(R, Nat)
    BY NatLessThanWellFounded
  <1>2. \A m, n \in Nat : <<m, n>> \in R <=> m < n
    BY DEF OpToRel
  <1> HIDE DEF R
  <1>3. PICK n \in B : \A m \in B : ~ (<<m, n>> \in R)
    BY <1>1, WFMin
  <1>4. \A m \in B : n <= m
    <2> TAKE m \in B
    <2>1. m \in Nat /\ n \in Nat /\ ~(m < n)
      BY <1>2, <1>3
    <2> QED BY <2>1
  <1> QED BY <1>4

-----------------------------------------------------------------------------
(* Powers of two: the prover knows them from the subsets of a set.         *)

LEMMA PowerIsSubsets ==
  ASSUME NEW b \in Nat
  PROVE  /\ IsFiniteSet(SUBSET (1..b)) /\ Cardinality(SUBSET (1..b)) = 2^b
         /\ 2^b \in Nat \ {0}
  <1>1. IsFiniteSet(1..b) /\ Cardinality(1..b) = b
    BY FS_Interval
  <1>2. IsFiniteSet(SUBSET (1..b)) /\ Cardinality(SUBSET (1..b)) = 2^b
    BY <1>1, FS_SUBSET
  <1>3. Cardinality(SUBSET (1..b)) \in Nat
    BY <1>2, FS_CardinalityType
  <1>4. Cardinality(SUBSET (1..b)) # 0
    <2>1. {} \in SUBSET (1..b)
      OBVIOUS
    <2> QED BY <1>2, <2>1, FS_EmptySet
  <1> QED BY <1>2, <1>3, <1>4

LEMMA PowerZero == 2^0 = 1
  OBVIOUS

(* Half of the subsets of 1..(b + 1) have b + 1.                           *)
LEMMA PowerDoubles ==
  ASSUME NEW b \in Nat
  PROVE  2^(b + 1) = 2 * 2^b
  <1> DEFINE c == b + 1
             A == SUBSET (1..b)
             B == {s \in SUBSET (1..c) : c \in s}
  <1>0. c \in Nat /\ c \notin 1..b /\ 1..c = (1..b) \cup {c}
    OBVIOUS
  <1>1. SUBSET (1..c) = A \cup B /\ A \cap B = {}
    <2> HIDE DEF c
    <2> QED BY <1>0
  <1>2. IsFiniteSet(A) /\ Cardinality(A) = 2^b /\ 2^b \in Nat
    BY PowerIsSubsets
  <1>3. IsFiniteSet(B) /\ Cardinality(B) = Cardinality(A)
    <2> DEFINE f == [s \in A |-> s \cup {c}]
    <2>1. f \in [A -> B]
      <3> HIDE DEF c
      <3> QED BY <1>0
    <2>2. \A s, t \in A : f[s] = f[t] => s = t
      <3> HIDE DEF c
      <3>1. \A s \in A : c \notin s
        BY <1>0
      <3>2. \A s \in A : f[s] \ {c} = s
        BY <3>1
      <3> QED BY <3>2
    <2>3. \A t \in B : \E s \in A : f[s] = t
      <3> HIDE DEF c
      <3> TAKE t \in B
      <3>1. t \ {c} \in A /\ (t \ {c}) \cup {c} = t
        BY <1>0
      <3>2. f[t \ {c}] = t
        BY <3>1
      <3> QED BY <3>1, <3>2
    <2> HIDE DEF A, B, f
    <2>4. f \in Bijection(A, B)
      BY <2>1, <2>2, <2>3 DEF Bijection, Injection, Surjection, IsInjective
    <2>5. ExistsBijection(A, B)
      BY <2>4 DEF ExistsBijection
    <2> QED BY <1>2, <2>5, FS_Bijection
  <1>4. Cardinality(A \cup B) = Cardinality(A) + Cardinality(B) - Cardinality(A \cap B)
    <2> HIDE DEF A, B
    <2> QED BY <1>2, <1>3, FS_Union
  <1>5. Cardinality(SUBSET (1..c)) = 2^c
    BY <1>0, PowerIsSubsets
  <1>6. Cardinality(A \cap B) = 0
    <2> HIDE DEF A, B
    <2> QED BY <1>1, FS_EmptySet
  <1> HIDE DEF A, B
  <1>7. 2^c = 2^b + 2^b
    <2> HIDE DEF c
    <2>1. Cardinality(A \cup B) = 2^c
      BY <1>1, <1>5
    <2> DEFINE k == Cardinality(A)
               l == Cardinality(B)
    <2>2. k = 2^b /\ l = k /\ k \in Nat
      BY <1>2, <1>3
    <2>3. Cardinality(A \cup B) = k + l - 0
      BY <1>4, <1>6
    <2> HIDE DEF k, l
    <2>4. k + l - 0 = k + k
      BY <2>2
    <2> QED BY <2>1, <2>2, <2>3, <2>4
  <1> DEFINE q == 2^b
  <1> HIDE DEF q
  <1>8. q + q = 2 * q
    BY <1>2 DEF q
  <1> QED BY <1>7, <1>8 DEF q

LEMMA PowerOfSum ==
  ASSUME NEW a \in Nat
  PROVE  \A b \in Nat : 2^(a + b) = 2^a * 2^b
  <1> DEFINE B == {b \in Nat : 2^(a + b) # 2^a * 2^b}
  <1> SUFFICES ASSUME B # {} PROVE FALSE
    OBVIOUS
  <1>1. PICK b \in B : \A m \in B : b <= m
    <2>1. B \in SUBSET Nat
      OBVIOUS
    <2> HIDE DEF B
    <2> QED BY <2>1, LeastNumber
  <1>2. b \in Nat /\ 2^a \in Nat /\ 2^(a + b) # 2^a * 2^b
    BY PowerIsSubsets
  <1>3. b # 0
    <2> DEFINE u == 2^a
    <2> HIDE DEF u
    <2>1. a + 0 = a /\ u * 1 = u
      BY <1>2 DEF u
    <2> QED BY <1>2, <2>1, PowerZero DEF u
  <1> DEFINE c == b - 1
  <1>4. c \in Nat /\ b = c + 1 /\ a + c \in Nat /\ a + b = (a + c) + 1 /\ ~(b <= c)
    BY <1>2, <1>3
  <1> HIDE DEF c
  <1>5. 2^(a + c) = 2^a * 2^c
    BY <1>1, <1>4
  <1>6. 2^(a + b) = 2 * 2^(a + c) /\ 2^b = 2 * 2^c
    BY <1>4, PowerDoubles
  <1>7. \A u, v \in Nat : 2 * (u * v) = u * (2 * v)
    OBVIOUS
  <1>8. 2^c \in Nat
    BY <1>4, PowerIsSubsets
  <1> QED BY <1>2, <1>5, <1>6, <1>7, <1>8

LEMMA BelowPower == \A n \in Nat : n < 2^n
  <1> DEFINE B == {n \in Nat : ~(n < 2^n)}
  <1> SUFFICES ASSUME B # {} PROVE FALSE
    OBVIOUS
  <1>1. PICK n \in B : \A m \in B : n <= m
    <2>1. B \in SUBSET Nat
      OBVIOUS
    <2> HIDE DEF B
    <2> QED BY <2>1, LeastNumber
  <1>2. n # 0
    <2>1. 0 < 2^0
      BY PowerZero
    <2> QED BY <1>1, <2>1
  <1> DEFINE c == n - 1
  <1>3. c \in Nat /\ n = c + 1 /\ ~(n <= c)
    BY <1>2
  <1> HIDE DEF c
  <1>4. c < 2^c /\ 2^n = 2 * 2^c /\ 2^c \in Nat
    BY <1>1, <1>3, PowerDoubles, PowerIsSubsets
  <1> QED BY <1>1, <1>3, <1>4

LEMMA BitLenOK ==
  ASSUME NEW n \in Nat
  PROVE  BitLen(n) \in Nat /\ n < 2^BitLen(n)
  <1> DEFINE B == {b \in Nat : n < 2^b}
  <1>1. PICK b \in B : \A m \in B : b <= m
    <2>1. B \in SUBSET Nat /\ n \in B
      BY BelowPower
    <2> HIDE DEF B
    <2> QED BY <2>1, LeastNumber
  <1>2. b \in 0..n /\ n < 2^b
    BY <1>1, BelowPower
  <1>3. b = 0 \/ n >= 2^(b - 1)
    <2> SUFFICES ASSUME b # 0 PROVE n >= 2^(b - 1)
      OBVIOUS
    <2> DEFINE c == b - 1
    <2>1. c \in Nat /\ ~(b <= c)
      OBVIOUS
    <2> HIDE DEF c
    <2>2. 2^c \in Nat /\ ~(n < 2^c)
      BY <1>1, <2>1, PowerIsSubsets
    <2>3. n >= 2^c
      BY <2>2
    <2> QED BY <2>3 DEF c
  <1> DEFINE P(k) == n < 2^k /\ (k = 0 \/ n >= 2^(k - 1))
  <1>4. BitLen(n) = CHOOSE k \in 0..n : P(k)
    BY DEF BitLen
  <1>5. \E k \in 0..n : P(k)
    BY <1>2, <1>3
  <1>6. BitLen(n) \in 0..n /\ P(BitLen(n))
    <2> HIDE DEF P
    <2> QED BY <1>4, <1>5
  <1> QED BY <1>6

(* What a candidate is: less than a power of two that n does not exceed.   *)
LEMMA CandidateOK ==
  ASSUME NEW n \in Nat \ {0}
  PROVE  /\ BitLen(n - 1) \in Nat /\ 2^BitLen(n - 1) \in Nat \ {0} /\ n <= 2^BitLen(n - 1)
         /\ \A y \in Nat : Candidate(y, n) \in 0..(2^BitLen(n - 1) - 1)
  <1> DEFINE b == BitLen(n - 1)
  <1>1. b \in Nat /\ n - 1 \in Nat /\ n - 1 < 2^b
    BY BitLenOK
  <1>2. 2^b \in Nat \ {0}
    BY <1>1, PowerIsSubsets
  <1> DEFINE p == 2^b
  <1> HIDE DEF p
  <1>3. p \in Nat \ {0} /\ n <= p
    BY <1>1, <1>2 DEF p
  <1>4. \A y \in Nat : y % p \in 0..(p - 1)
    BY <1>3
  <1> QED BY <1>1, <1>3, <1>4 DEF p, Candidate

-----------------------------------------------------------------------------
(* The inductive invariant.                                                *)

Reading ==
  /\ cipher \in [1..MaxBlocks -> Block]
  /\ i \in Nat \ {0}
  /\ buf \in Seq(Byte) /\ used \in Seq(Byte)
  /\ x \in Nat

(* The array that Permutation works on is a permutation at every turn.     *)
Calling ==
  \/ call.kind \in {"nothing", "bool"}
  \/ call.kind = "int" /\ call.modulus \in Int \ {0}
  \/ /\ call.kind = "shuffle"
     /\ \E n \in Nat : call.pos \in 1..(n - 1) /\ call.ret \in Perms(n)

Drawn ==
  \/ drawn.kind \in {"nothing", "bool"}
  \/ /\ drawn.kind = "int" /\ drawn.modulus \in Int
     /\ IF drawn.modulus = 0 THEN drawn.value = 0
        ELSE drawn.value * Sign(drawn.modulus) \in 0..(Abs(drawn.modulus) - 1)
  \/ drawn.kind = "shuffle" /\ \E n \in Nat : drawn.value \in Perms(n)

Inv == Reading /\ Calling /\ Drawn /\ NoByteTwice

-----------------------------------------------------------------------------
(* The bytes.                                                              *)

LEMMA ByteType == Byte \subseteq Nat /\ 2^W \in Nat
  <1>1. 2^W \in Nat
    BY PowerIsSubsets, WidthAssumption
  <1> DEFINE q == 2^W
  <1> HIDE DEF q
  <1>2. 0..(q - 1) \subseteq Nat
    BY <1>1 DEF q
  <1> QED BY <1>1, <1>2 DEF Byte, q

(* A byte goes from the buffer to those used.                              *)
LEMMA ReadKeepsBytes ==
  ASSUME NEW S, NEW u \in Seq(S), NEW v \in Seq(S), v # <<>>
  PROVE  /\ Head(v) \in S /\ Tail(v) \in Seq(S) /\ Append(u, Head(v)) \in Seq(S)
         /\ Append(u, Head(v)) \o Tail(v) = u \o v
  <1> DEFINE l == Append(u, Head(v)) \o Tail(v)
             r == u \o v
  <1>1. Head(v) = v[1] /\ v[1] \in S /\ Len(v) \in Nat \ {0} /\ Len(u) \in Nat
    OBVIOUS
  <1>2. /\ Tail(v) \in Seq(S) /\ Len(Tail(v)) = Len(v) - 1
        /\ \A k \in 1..(Len(v) - 1) : Tail(v)[k] = v[k + 1]
    OBVIOUS
  <1>3. /\ Append(u, v[1]) \in Seq(S) /\ Len(Append(u, v[1])) = Len(u) + 1
        /\ \A k \in 1..Len(u) : Append(u, v[1])[k] = u[k]
        /\ Append(u, v[1])[Len(u) + 1] = v[1]
    BY <1>1
  <1>4. l \in Seq(S) /\ r \in Seq(S) /\ Len(l) = Len(u) + Len(v) /\ Len(r) = Len(l)
    BY <1>1, <1>2, <1>3
  <1>5. ASSUME NEW k \in 1..Len(l) PROVE l[k] = r[k]
    <2>1. CASE k <= Len(u)
      BY <1>1, <1>2, <1>3, <1>4, <2>1
    <2>2. CASE k = Len(u) + 1
      BY <1>1, <1>2, <1>3, <1>4, <2>2
    <2>3. CASE k > Len(u) + 1
      <3>1. l[k] = Tail(v)[k - (Len(u) + 1)]
        BY <1>1, <1>2, <1>3, <1>4, <2>3
      <3>2. k - (Len(u) + 1) \in 1..(Len(v) - 1) /\ (k - (Len(u) + 1)) + 1 = k - Len(u)
        BY <1>1, <1>4, <2>3
      <3>3. r[k] = v[k - Len(u)]
        BY <1>1, <1>4, <2>3
      <3> QED BY <1>2, <3>1, <3>2, <3>3
    <2> QED BY <1>1, <1>4, <2>1, <2>2, <2>3
  <1> HIDE DEF l, r
  <1>6. l = r
    BY <1>4, <1>5
  <1> QED BY <1>1, <1>2, <1>3, <1>6 DEF l, r

(* Where byte j of block b is.                                             *)
LEMMA Places ==
  ASSUME NEW L \in Nat \ {0}, NEW n \in Nat, NEW b \in 1..n, NEW j \in 1..L
  PROVE  (b - 1) * L \in Nat /\ n * L \in Nat /\ (b - 1) * L + j \in 1..(n * L)
  <1>1. b \in Nat /\ b - 1 \in Nat /\ n - b \in Nat /\ n = (b - 1) + 1 + (n - b)
    OBVIOUS
  <1> DEFINE d == b - 1
             e == n - b
  <1> HIDE DEF d, e
  <1>2. d \in Nat /\ e \in Nat /\ n = d + 1 + e
    BY <1>1 DEF d, e
  <1>3. d * L \in Nat /\ e * L \in Nat /\ (d + 1 + e) * L = d * L + L + e * L
    BY <1>2
  <1>4. n * L = d * L + L + e * L
    BY <1>2, <1>3
  <1>5. d * L + j \in 1..(n * L) /\ n * L \in Nat
    BY <1>3, <1>4
  <1> QED BY <1>3, <1>5 DEF d

LEMMA ReplenishInv == Inv /\ replenish => Inv'
  <1> SUFFICES ASSUME Inv, replenish PROVE Inv'
    OBVIOUS
  <1>1. /\ i <= MaxBlocks /\ buf = <<>> /\ buf' = cipher[i] /\ i' = i + 1
        /\ UNCHANGED <<cipher, used, left, x, call, drawn>>
    BY DEF replenish
  <1> DEFINE L == BlockLen
  <1>2. L \in Nat \ {0} /\ i \in Nat \ {0} /\ i \in 1..MaxBlocks /\ used \in Seq(Byte)
    BY <1>1, WidthAssumption DEF Inv, Reading
  <1>3. cipher[i] \in [1..L -> Byte] /\ cipher[i] \in Seq(Byte) /\ Len(cipher[i]) = L
    <2>1. cipher[i] \in [1..L -> Byte]
      BY <1>2 DEF Inv, Reading, Block
    <2> QED BY <1>2, <2>1
  <1>4. Reading'
    BY <1>1, <1>2, <1>3 DEF Inv, Reading
  <1>5. Calling' /\ Drawn'
    BY <1>1 DEF Inv, Calling, Drawn
  <1>6. NoByteTwice'
    <2>1. /\ Len(used) = (i - 1) * L
          /\ \A b \in 1..(i - 1), j \in 1..L : used[(b - 1) * L + j] = cipher[b][j]
      <3>1. used \o buf = used
        BY <1>1, <1>2
      <3> QED BY <3>1 DEF Inv, NoByteTwice
    <2> DEFINE t == used \o cipher[i]
               n == i - 1
    <2>2. /\ t \in Seq(Byte) /\ Len(used) \in Nat /\ Len(t) = Len(used) + L
          /\ \A k \in 1..Len(used) : t[k] = used[k]
          /\ \A j \in 1..L : t[Len(used) + j] = cipher[i][j]
      BY <1>2, <1>3
    <2>3. n \in Nat /\ i = n + 1 /\ i' - 1 = i
      BY <1>1, <1>2
    <2> HIDE DEF t, n, L
    <2>4. (n + 1) * L = n * L + L
      BY <1>2, <2>3
    <2>5. Len(t) = i * L
      BY <2>1, <2>2, <2>3, <2>4 DEF n
    <2>6. ASSUME NEW b \in 1..i, NEW j \in 1..L PROVE t[(b - 1) * L + j] = cipher[b][j]
      <3>1. CASE b = i
        BY <2>1, <2>2, <3>1
      <3>2. CASE b # i
        <4>1. b \in 1..n
          BY <1>2, <2>3, <3>2
        <4>2. (b - 1) * L + j \in 1..Len(used)
          BY <1>2, <2>1, <2>3, <4>1, Places DEF n
        <4> QED BY <2>1, <2>2, <4>1, <4>2 DEF n
      <3> QED BY <3>1, <3>2
    <2>7. used' \o buf' = t
      BY <1>1 DEF t
    <2> QED BY <1>1, <2>3, <2>5, <2>6, <2>7 DEF NoByteTwice, L
  <1> QED BY <1>4, <1>5, <1>6 DEF Inv

LEMMA ReadInv == Inv /\ read => Inv'
  <1> SUFFICES ASSUME Inv, read PROVE Inv'
    OBVIOUS
  <1>1. /\ buf # <<>> /\ x' = x * 2^W + Head(buf) /\ buf' = Tail(buf)
        /\ used' = Append(used, Head(buf)) /\ UNCHANGED <<cipher, i, call, drawn>>
    BY DEF read
  <1>2. /\ Head(buf) \in Byte /\ buf' \in Seq(Byte) /\ used' \in Seq(Byte)
        /\ used' \o buf' = used \o buf
    <2>1. used \in Seq(Byte) /\ buf \in Seq(Byte)
      BY DEF Inv, Reading
    <2> QED BY <1>1, <2>1, ReadKeepsBytes
  <1>3. x' \in Nat
    <2> DEFINE q == 2^W
    <2>1. q \in Nat /\ Head(buf) \in Nat /\ x \in Nat /\ x' = x * q + Head(buf)
      BY <1>1, <1>2, ByteType DEF Inv, Reading
    <2> HIDE DEF q
    <2> QED BY <2>1
  <1>4. Reading'
    BY <1>1, <1>2, <1>3 DEF Inv, Reading
  <1>5. Calling' /\ Drawn'
    BY <1>1 DEF Inv, Calling, Drawn
  <1>6. NoByteTwice'
    <2>1. used' \o buf' = used \o buf /\ cipher' = cipher /\ i' = i
      BY <1>1, <1>2
    <2> QED BY <2>1 DEF Inv, NoByteTwice
  <1> QED BY <1>4, <1>5, <1>6 DEF Inv

-----------------------------------------------------------------------------
(* The calls.                                                              *)

LEMMA IdentityPermutes ==
  ASSUME NEW n \in Nat
  PROVE  [k \in 0..(n - 1) |-> k] \in Perms(n)
  BY DEF Perms

(* A swap brings f[j] to k, and the other way round, and no more.          *)
LEMMA SwapPermutes ==
  ASSUME NEW n \in Nat, NEW f \in Perms(n), NEW j \in 0..(n - 1), NEW k \in 0..(n - 1)
  PROVE  /\ Swap(f, j, k) \in Perms(n)
         /\ Swap(f, j, k)[k] = f[j]
         /\ \A p \in 0..(n - 1) : p # j /\ p # k => Swap(f, j, k)[p] = f[p]
  <1> DEFINE D == 0..(n - 1)
             g == Swap(f, j, k)
  <1>1. f \in [D -> D] /\ \A y \in D : \E p \in D : f[p] = y
    BY DEF Perms
  <1> HIDE DEF D
  <1>2. /\ g \in [D -> D] /\ g[k] = f[j] /\ g[j] = f[k]
        /\ \A p \in D : p # j /\ p # k => g[p] = f[p]
    BY <1>1 DEF Swap, D
  <1> HIDE DEF g
  <1>3. ASSUME NEW y \in D PROVE \E p \in D : g[p] = y
    <2>1. PICK p \in D : f[p] = y
      BY <1>1
    <2>2. j \in D /\ k \in D
      BY DEF D
    <2> QED BY <1>2, <2>1, <2>2
  <1>4. {g[p] : p \in D} = D
    BY <1>2, <1>3
  <1>5. g \in Perms(n)
    BY <1>2, <1>4 DEF Perms, D
  <1> QED BY <1>2, <1>5 DEF D, g

(* The bytes and the blocks are left alone.                                *)
LEMMA ReadingKept ==
  ASSUME Inv, UNCHANGED <<cipher, i, buf, used>>, x' \in Nat, Calling', Drawn'
  PROVE  Inv'
  <1>1. Reading'
    BY DEF Inv, Reading
  <1>2. NoByteTwice'
    BY DEF Inv, NoByteTwice
  <1> QED BY <1>1, <1>2 DEF Inv

LEMMA StartInv ==
  ASSUME Inv, NEW c, Start(c), NEW n, Read(n),
         \/ c.kind = "bool"
         \/ c.kind = "int" /\ c.modulus \in Int \ {0}
         \/ /\ c.kind = "shuffle"
            /\ \E k \in Nat : c.pos \in 1..(k - 1) /\ c.ret \in Perms(k)
  PROVE  Inv'
  <1>1. Calling'
    BY DEF Start, Calling
  <1>2. Drawn'
    BY DEF Start, Drawn, Nothing
  <1>3. UNCHANGED <<cipher, i, buf, used>> /\ x' \in Nat
    BY DEF Start, Read
  <1> QED BY <1>1, <1>2, <1>3, ReadingKept

LEMMA ReturnInv ==
  ASSUME Inv, NEW d, Return(d),
         \/ d.kind = "bool"
         \/ /\ d.kind = "int" /\ d.modulus \in Int
            /\ IF d.modulus = 0 THEN d.value = 0
               ELSE d.value * Sign(d.modulus) \in 0..(Abs(d.modulus) - 1)
         \/ d.kind = "shuffle" /\ \E n \in Nat : d.value \in Perms(n)
  PROVE  Inv'
  <1>1. Calling'
    BY DEF Return, Calling, Nothing
  <1>2. Drawn'
    BY DEF Return, Drawn
  <1>3. UNCHANGED <<cipher, i, buf, used>> /\ x' \in Nat
    BY DEF Return, Inv, Reading
  <1> QED BY <1>1, <1>2, <1>3, ReadingKept

LEMMA BoolInv == Inv /\ (Bool \/ BoolRead) => Inv'
  <1>1. ASSUME Inv, Bool PROVE Inv'
    <2> DEFINE c == [kind |-> "bool"]
    <2>1. c.kind = "bool" /\ Start(c) /\ Read(1)
      BY <1>1 DEF Bool
    <2> HIDE DEF c
    <2> QED BY <1>1, <2>1, StartInv
  <1>2. ASSUME Inv, BoolRead PROVE Inv'
    <2> DEFINE d == [kind |-> "bool", value |-> x % 2 = 1]
    <2>1. d.kind = "bool" /\ Return(d)
      BY <1>2 DEF BoolRead
    <2> HIDE DEF d
    <2> QED BY <1>2, <2>1, ReturnInv
  <1> QED BY <1>1, <1>2

LEMMA DrawIntInv ==
  ASSUME Inv, NEW m \in Moduli, DrawInt(m)
  PROVE  Inv'
  <1>0. m \in Int
    BY ModuliAssumption
  <1>1. CASE m = 0
    <2> DEFINE d == [kind |-> "int", modulus |-> m, value |-> 0]
    <2>1. d.kind = "int" /\ d.modulus \in Int /\ d.modulus = 0 /\ d.value = 0 /\ Return(d)
      BY <1>0, <1>1 DEF DrawInt
    <2> HIDE DEF d
    <2> QED BY <2>1, ReturnInv
  <1>2. CASE m # 0
    <2> DEFINE c == [kind |-> "int", modulus |-> m]
    <2>1. c.kind = "int" /\ c.modulus \in Int \ {0} /\ Start(c) /\ Read(NumBytes(Abs(m)))
      BY <1>0, <1>2 DEF DrawInt
    <2> HIDE DEF c
    <2> QED BY <2>1, StartInv
  <1> QED BY <1>1, <1>2

LEMMA PermutationInv ==
  ASSUME Inv, NEW n \in Sizes, Permutation(n)
  PROVE  Inv'
  <1> DEFINE id == [k \in 0..(n - 1) |-> k]
  <1>1. n \in Nat /\ id \in Perms(n)
    BY SizesAssumption, IdentityPermutes
  <1>2. CASE n <= 1
    <2> DEFINE d == [kind |-> "shuffle", value |-> id]
    <2>1. d.kind = "shuffle" /\ d.value = id /\ Return(d)
      BY <1>2 DEF Permutation
    <2> HIDE DEF d, id
    <2> QED BY <1>1, <2>1, ReturnInv
  <1>3. CASE ~(n <= 1)
    <2> DEFINE c == [kind |-> "shuffle", pos |-> n - 1, ret |-> id]
    <2>1. /\ c.kind = "shuffle" /\ c.pos = n - 1 /\ c.ret = id
          /\ Start(c) /\ Read(NumBytes(ShuffleModulus(n - 1)))
      BY <1>3 DEF Permutation
    <2>2. n - 1 \in 1..(n - 1)
      BY <1>1, <1>3
    <2> HIDE DEF c, id
    <2> QED BY <1>1, <2>1, <2>2, StartInv
  <1> QED BY <1>2, <1>3

(* What Big accepts is a number below the modulus.                         *)
LEMMA NumberOK ==
  ASSUME Inv, BigRead
  PROVE  /\ Modulus \in Nat \ {0} /\ Number \in Nat
         /\ Accept(Number, Modulus) => Number \in 0..(Modulus - 1)
         /\ call.kind = "int" => Modulus = Abs(call.modulus) /\ call.modulus \in Int \ {0}
         /\ call.kind = "shuffle" => Modulus = call.pos + 1
  <1>1. Modulus \in Nat \ {0}
    <2>1. CASE call.kind = "int"
      BY <2>1 DEF Inv, Calling, Modulus, Abs
    <2>2. CASE call.kind = "shuffle"
      BY <2>2 DEF Inv, Calling, Modulus, ShuffleModulus
    <2> QED BY <2>1, <2>2 DEF BigRead
  <1>2. Number \in Nat
    <2>1. x \in Nat
      BY DEF Inv, Reading
    <2> DEFINE n == Modulus
               p == 2^BitLen(n - 1)
    <2>2. p \in Nat /\ Candidate(x, n) \in 0..(p - 1)
      <3> HIDE DEF n
      <3> QED BY <1>1, <2>1, CandidateOK DEF n
    <2> HIDE DEF n, p
    <2>3. Candidate(x, n) \in Nat
      BY <2>2
    <2> QED BY <2>3 DEF Number, n
  <1> QED BY <1>1, <1>2 DEF Accept, Inv, Calling, Modulus, ShuffleModulus

LEMMA IntReadInv == Inv /\ IntRead => Inv'
  <1> SUFFICES ASSUME Inv, IntRead PROVE Inv'
    OBVIOUS
  <1> DEFINE m == call.modulus
             d == [kind |-> "int", modulus |-> m, value |-> Number * Sign(m)]
  <1>1. BigRead /\ Accept(Number, Modulus) /\ call.kind = "int" /\ Return(d)
    BY DEF IntRead
  <1>2. m \in Int \ {0} /\ Number \in 0..(Abs(m) - 1) /\ Number \in Nat
    BY <1>1, NumberOK
  <1> DEFINE y == Number
  <1> HIDE DEF m, y
  <1>3. (y * Sign(m)) * Sign(m) = y
    <2>1. CASE m < 0
      BY <1>2, <2>1 DEF Sign, y
    <2>2. CASE m > 0
      BY <1>2, <2>2 DEF Sign, y
    <2> QED BY <1>2, <2>1, <2>2
  <1>4. d.kind = "int" /\ d.modulus = m /\ d.value = y * Sign(m)
    BY DEF y
  <1> HIDE DEF d
  <1>5. d.value * Sign(d.modulus) \in 0..(Abs(d.modulus) - 1)
    BY <1>2, <1>3, <1>4 DEF y
  <1> QED BY <1>1, <1>2, <1>4, <1>5, ReturnInv

LEMMA SwapReadInv == Inv /\ SwapRead => Inv'
  <1> SUFFICES ASSUME Inv, SwapRead PROVE Inv'
    OBVIOUS
  <1> DEFINE ret == Swap(call.ret, Number, call.pos)
             pos == call.pos - 1
  <1>1. BigRead /\ Accept(Number, Modulus) /\ call.kind = "shuffle"
    BY DEF SwapRead
  <1>2. PICK n \in Nat : call.pos \in 1..(n - 1) /\ call.ret \in Perms(n)
    BY <1>1 DEF Inv, Calling
  <1>3. Number \in 0..(n - 1) /\ call.pos \in 0..(n - 1)
    BY <1>1, <1>2, NumberOK
  <1>4. ret \in Perms(n)
    BY <1>2, <1>3, SwapPermutes
  <1>5. CASE pos < 1
    <2> DEFINE d == [kind |-> "shuffle", value |-> ret]
    <2>1. d.kind = "shuffle" /\ d.value = ret /\ Return(d)
      BY <1>5 DEF SwapRead
    <2> HIDE DEF d, ret
    <2> QED BY <1>4, <2>1, ReturnInv
  <1>6. CASE ~(pos < 1)
    <2> DEFINE c == [kind |-> "shuffle", pos |-> pos, ret |-> ret]
    <2>1. /\ call' = c /\ x' = 0
          /\ UNCHANGED <<cipher, i, buf, used, drawn>>
      BY <1>6 DEF SwapRead, Read
    <2>2. pos \in 1..(n - 1)
      BY <1>2, <1>6
    <2>3. c.kind = "shuffle" /\ c.pos = pos /\ c.ret = ret
      OBVIOUS
    <2> HIDE DEF c, ret, pos
    <2>4. Calling'
      BY <1>4, <2>1, <2>2, <2>3 DEF Calling
    <2>5. Drawn'
      BY <2>1 DEF Inv, Drawn
    <2> QED BY <2>1, <2>4, <2>5, ReadingKept
  <1> QED BY <1>5, <1>6

LEMMA InvInit == Init => Inv
  <1> SUFFICES ASSUME Init PROVE Inv
    OBVIOUS
  <1>1. Reading
    BY DEF Init, Reading
  <1>2. Calling /\ Drawn
    BY DEF Init, Calling, Drawn, Nothing
  <1>3. NoByteTwice
    <2>1. used \o buf = <<>> /\ i - 1 = 0 /\ 0 * BlockLen = 0
      BY WidthAssumption DEF Init
    <2> QED BY <2>1 DEF NoByteTwice
  <1> QED BY <1>1, <1>2, <1>3 DEF Inv

LEMMA InvNext == Inv /\ [Next]_vars => Inv'
  <1> SUFFICES ASSUME Inv, [Next]_vars PROVE Inv'
    OBVIOUS
  <1>1. CASE Bool \/ BoolRead
    BY <1>1, BoolInv
  <1>2. ASSUME NEW m \in Moduli, DrawInt(m) PROVE Inv'
    BY <1>2, DrawIntInv
  <1>3. ASSUME NEW n \in Sizes, Permutation(n) PROVE Inv'
    BY <1>3, PermutationInv
  <1>4. CASE replenish
    BY <1>4, ReplenishInv
  <1>5. CASE read
    BY <1>5, ReadInv
  <1>6. CASE Reject
    <2>1. x' \in Nat /\ UNCHANGED <<cipher, i, buf, used, call, drawn>>
      BY <1>6 DEF Reject, Read
    <2>2. Calling' /\ Drawn'
      BY <2>1 DEF Inv, Calling, Drawn
    <2> QED BY <2>1, <2>2, ReadingKept
  <1>7. CASE IntRead
    BY <1>7, IntReadInv
  <1>8. CASE SwapRead
    BY <1>8, SwapReadInv
  <1>9. CASE UNCHANGED vars
    <2>1. Calling' /\ Drawn' /\ x' \in Nat
      BY <1>9 DEF vars, Inv, Calling, Drawn, Reading
    <2> QED BY <1>9, <2>1, ReadingKept DEF vars
  <1> QED BY <1>1, <1>2, <1>3, <1>4, <1>5, <1>6, <1>7, <1>8, <1>9 DEF Next

LEMMA Invariant == Spec => []Inv
  <1> QED BY InvInit, InvNext, PTL DEF Spec

-----------------------------------------------------------------------------
(* Big returns a number between zero and its modulus, on the modulus' side *)
(* of zero, and Permutation a permutation, for every modulus and size.     *)
THEOREM InRangeAlways == Spec => []InRange
  <1>1. Inv => InRange
    <2> SUFFICES ASSUME Drawn PROVE InRange
      BY DEF Inv
    <2>1. ASSUME drawn.kind = "shuffle"
          PROVE  {drawn.value[k] : k \in DOMAIN drawn.value} = DOMAIN drawn.value
      <3>1. PICK n \in Nat : drawn.value \in Perms(n)
        BY <2>1 DEF Drawn
      <3>2. DOMAIN drawn.value = 0..(n - 1)
        BY <3>1 DEF Perms
      <3> QED BY <3>1, <3>2 DEF Perms
    <2> QED BY <2>1 DEF Drawn, InRange
  <1> QED BY <1>1, Invariant, PTL

(* The bytes that Read has handed out and those in the buffer are the      *)
(* blocks of the cipher in their order, each once, for every block length. *)
THEOREM NoByteEverTwice == Spec => []NoByteTwice
  <1>1. Inv => NoByteTwice
    BY DEF Inv
  <1> QED BY <1>1, Invariant, PTL

-----------------------------------------------------------------------------
(* Fair numbers.                                                           *)

(* Of the numbers below p * q as many leave the remainder y as leave none. *)
LEMMA Remainders ==
  ASSUME NEW p \in Nat \ {0}, NEW q \in Nat \ {0}, NEW y \in 0..(p - 1)
  PROVE  LET R(k) == {s \in 0..(p * q - 1) : s % p = k} IN
         y \in R(y) /\ Cardinality(R(y)) = Cardinality(R(0))
  <1> DEFINE N == p * q
             R(k) == {s \in 0..(N - 1) : s % p = k}
  <1>0. N \in Nat /\ p <= N
    <2>1. q - 1 \in Nat /\ p * q = p * (q - 1) + p
      OBVIOUS
    <2>2. p * (q - 1) \in Nat
      BY <2>1
    <2> QED BY <2>1, <2>2
  <1>1. y \in R(y) /\ y \in Nat
    <2>1. y % p = y
      OBVIOUS
    <2> QED BY <1>0, <2>1
  <1>2. ASSUME NEW s \in R(0) PROVE s + y \in R(y)
    <2>1. s \in Nat /\ s < N /\ s % p = 0
      BY <1>0
    <2>2. PICK t \in Nat : s = p * t
      <3>1. s \div p \in Nat /\ s = p * (s \div p) + (s % p)
        BY <2>1
      <3> DEFINE t == s \div p
      <3>2. t \in Nat /\ p * t \in Nat /\ s = p * t + 0
        BY <2>1, <3>1
      <3> HIDE DEF t
      <3>3. s = p * t
        BY <3>2
      <3> QED BY <3>2, <3>3
    <2>3. t < q
      <3> SUFFICES ASSUME ~(t < q) PROVE FALSE
        OBVIOUS
      <3>1. t - q \in Nat /\ p * t = p * q + p * (t - q)
        BY <2>2
      <3>2. p * (t - q) \in Nat
        BY <3>1
      <3> QED BY <1>0, <2>1, <2>2, <3>1, <3>2
    <2>4. s + p <= N
      <3>1. q - t - 1 \in Nat /\ p * q = p * t + p + p * (q - t - 1)
        BY <2>2, <2>3
      <3>2. p * (q - t - 1) \in Nat
        BY <3>1
      <3> QED BY <1>0, <2>1, <2>2, <3>1, <3>2
    <2>5. s + y \in 0..(N - 1)
      BY <1>0, <2>1, <2>4
    <2>6. (s + y) % p = y
      <3>1. (p * t + y) % p = y
        BY <2>2
      <3> QED BY <2>2, <3>1
    <2> QED BY <2>5, <2>6
  <1>3. ASSUME NEW s \in R(y) PROVE s - y \in R(0)
    <2>1. s \in Nat /\ s < N /\ s % p = y
      BY <1>0
    <2>2. PICK t \in Nat : s = p * t + y
      <3>1. s \div p \in Nat /\ s = p * (s \div p) + (s % p)
        BY <2>1
      <3> QED BY <2>1, <3>1
    <2>3. p * t \in Nat /\ s - y = p * t
      BY <2>1, <2>2
    <2>4. (p * t) % p = 0
      BY <2>2
    <2> QED BY <1>0, <2>1, <2>3, <2>4
  <1> DEFINE f == [s \in R(0) |-> s + y]
  <1>4. R(0) \subseteq Nat /\ R(y) \subseteq Nat
    BY <1>0
  <1>5. IsFiniteSet(R(0))
    <2>1. IsFiniteSet(0..(N - 1)) /\ R(0) \in SUBSET (0..(N - 1))
      BY <1>0, FS_Interval
    <2> HIDE DEF R, N
    <2> QED BY <2>1, FS_Subset
  <1> DEFINE A == R(0)
             B == R(y)
  <1>6. /\ f \in [A -> B]
        /\ \A s \in B : s - y \in A
        /\ A \subseteq Nat /\ B \subseteq Nat /\ f = [s \in A |-> s + y]
    BY <1>2, <1>3, <1>4
  <1> HIDE DEF A, B, f
  <1>7. f \in Injection(A, B)
    <2>1. \A s, t \in A : s + y = t + y => s = t
      BY <1>1, <1>6
    <2> QED BY <1>6, <2>1 DEF Injection, IsInjective
  <1>8. f \in Surjection(A, B)
    <2>1. \A s \in B : (s - y) + y = s
      BY <1>1, <1>6
    <2>2. \A s \in B : f[s - y] = s
      BY <1>6, <2>1
    <2> QED BY <1>6, <2>2 DEF Surjection
  <1>9. ExistsBijection(A, B)
    BY <1>7, <1>8 DEF ExistsBijection, Bijection
  <1>10. Cardinality(A) = Cardinality(B)
    BY <1>5, <1>9, FS_Bijection DEF A
  <1> QED BY <1>1, <1>10 DEF A, B

LEMMA FairNumbers ==
  ASSUME NEW n \in Nat \ {0}, NEW y \in 0..(n - 1)
  PROVE  Spelt(n, y) # {} /\ Cardinality(Spelt(n, y)) = Cardinality(Spelt(n, 0))
  <1> DEFINE b == BitLen(n - 1)
             p == 2^b
             c == W * NumBytes(n) - b
             q == 2^c
  <1>1. b \in Nat /\ p \in Nat \ {0} /\ n <= p
    BY CandidateOK
  <1>2. c \in Nat /\ b + c = W * NumBytes(n)
    <2> DEFINE k == (b + W - 1) \div W
    <2>1. W \in Nat \ {0} /\ k = NumBytes(n)
      BY WidthAssumption DEF NumBytes
    <2> HIDE DEF b
    <2>2. k \in Nat /\ W * k >= b /\ W * k \in Nat
      BY <1>1, <2>1
    <2> HIDE DEF k
    <2> QED BY <1>1, <2>1, <2>2
  <1>3. q \in Nat \ {0} /\ 2^(W * NumBytes(n)) = p * q
    <2>1. q \in Nat \ {0}
      BY <1>2, PowerIsSubsets
    <2> HIDE DEF b, c
    <2>2. 2^(b + c) = 2^b * 2^c
      BY <1>1, <1>2, PowerOfSum
    <2> QED BY <1>2, <2>1, <2>2
  <1> HIDE DEF b, p, c, q
  <1> DEFINE R(k) == {s \in 0..(p * q - 1) : s % p = k}
  <1>4. ASSUME NEW k \in 0..(n - 1) PROVE Spelt(n, k) = R(k)
    <2>1. \A s : Candidate(s, n) = s % p
      BY DEF Candidate, p, b
    <2>2. \A s : Accept(Candidate(s, n), n) /\ Candidate(s, n) = k <=> s % p = k
      BY <2>1 DEF Accept
    <2> QED BY <1>3, <2>2 DEF Spelt
  <1>5. y \in 0..(p - 1) /\ 0 \in 0..(n - 1)
    BY <1>1
  <1>6. y \in R(y) /\ Cardinality(R(y)) = Cardinality(R(0))
    BY <1>1, <1>3, <1>5, Remainders
  <1>7. Spelt(n, y) = R(y) /\ Spelt(n, 0) = R(0)
    BY <1>4, <1>5
  <1> HIDE DEF R
  <1> QED BY <1>6, <1>7

(* For every modulus, Big returns each number below it for equally many of *)
(* the byte strings it may read, since the mask clears whole bits only.    *)
THEOREM NumbersAlwaysFair == Spec => []NumbersAreFair
  <1>1. Inv => NumbersAreFair
    <2> SUFFICES ASSUME Drawn, drawn.kind = "int", drawn.modulus # 0,
                        NEW y \in 0..(Abs(drawn.modulus) - 1)
                 PROVE  LET n == Abs(drawn.modulus) IN
                        /\ Spelt(n, y) # {}
                        /\ Cardinality(Spelt(n, y)) = Cardinality(Spelt(n, 0))
      BY DEF Inv, NumbersAreFair
    <2>1. Abs(drawn.modulus) \in Nat \ {0}
      BY DEF Drawn, Abs
    <2> QED BY <2>1, FairNumbers
  <1> QED BY <1>1, Invariant, PTL

-----------------------------------------------------------------------------
(* Fair shuffles.                                                          *)

LEMMA PermsAreInjective ==
  ASSUME NEW n \in Nat, NEW f \in Perms(n)
  PROVE  \A j, k \in 0..(n - 1) : f[j] = f[k] => j = k
  <1> DEFINE D == 0..(n - 1)
  <1>1. IsFiniteSet(D)
    BY FS_Interval
  <1>2. f \in [D -> D] /\ \A y \in D : \E p \in D : f[p] = y
    BY DEF Perms
  <1> HIDE DEF D
  <1>3. f \in Surjection(D, D)
    BY <1>2 DEF Surjection
  <1>4. f \in Injection(D, D)
    BY <1>1, <1>3, FS_SurjSameCardinalityImpliesInj
  <1>5. \A j, k \in D : f[j] = f[k] => j = k
    BY <1>2, <1>4 DEF Injection, IsInjective
  <1> QED BY <1>5 DEF D

(* g[m] is the array after m turns with the draws d, for m up to t.        *)
Run(g, n, d, t) ==
  /\ g \in [0..t -> Perms(n)]
  /\ g[0] = [k \in 0..(n - 1) |-> k]
  /\ \A m \in 1..t : g[m] = Swap(g[m - 1], d[m], n - m)

(* A turn: what is drawn, and where.                                       *)
LEMMA TurnOK ==
  ASSUME NEW n \in Nat, NEW m \in 1..Turns(n)
  PROVE  /\ n - m \in 1..(n - 1) /\ n - m \in 0..(n - 1) /\ m - 1 \in 0..Turns(n)
         /\ m \in 1..(n - 1)
         /\ \A d \in Draws(n) : d[m] \in 0..(n - m) /\ d[m] \in 0..(n - 1)
  <1>1. n # 0 /\ m \in 1..(n - 1)
    BY DEF Turns
  <1>2. \A d \in Draws(n) : d[m] \in 0..(n - 1) /\ d[m] < (n - m) + 1
    BY <1>1 DEF Draws, ShuffleModulus
  <1> QED BY <1>1, <1>2 DEF Turns

LEMMA TurnsType == ASSUME NEW n \in Nat PROVE Turns(n) \in Nat
  BY DEF Turns

LEMMA RunExists ==
  ASSUME NEW n \in Nat, NEW d \in Draws(n)
  PROVE  \A t \in 0..Turns(n) : \E g : Run(g, n, d, t)
  <1> DEFINE B == {t \in 0..Turns(n) : ~ \E g : Run(g, n, d, t)}
  <1> SUFFICES ASSUME B # {} PROVE FALSE
    OBVIOUS
  <1>1. PICK t \in B : \A m \in B : t <= m
    <2>1. B \in SUBSET Nat
      OBVIOUS
    <2> HIDE DEF B
    <2> QED BY <2>1, LeastNumber
  <1>2. t # 0
    <2> DEFINE g == [k \in 0..0 |-> [p \in 0..(n - 1) |-> p]]
    <2>1. Run(g, n, d, 0)
      BY IdentityPermutes DEF Run
    <2> QED BY <1>1, <2>1
  <1>3. t \in 1..Turns(n) /\ t - 1 \in 0..Turns(n) /\ t - 1 \notin B /\ t \in Nat
    BY <1>1, <1>2, TurnsType
  <1>4. PICK f : Run(f, n, d, t - 1)
    BY <1>3
  <1> DEFINE last == Swap(f[t - 1], d[t], n - t)
             g == [k \in 0..t |-> IF k = t THEN last ELSE f[k]]
  <1>5. last \in Perms(n)
    <2>1. f[t - 1] \in Perms(n)
      BY <1>3, <1>4 DEF Run
    <2> QED BY <1>3, <2>1, TurnOK, SwapPermutes
  <1>6. g \in [0..t -> Perms(n)]
    <2> HIDE DEF last
    <2> QED BY <1>3, <1>4, <1>5 DEF Run
  <1>7. g[0] = [k \in 0..(n - 1) |-> k]
    <2>1. 0 \in 0..t /\ 0 # t
      BY <1>3
    <2>2. g[0] = f[0]
      BY <2>1
    <2> QED BY <1>4, <2>2 DEF Run
  <1>8. \A m \in 1..t : g[m] = Swap(g[m - 1], d[m], n - m)
    <2> TAKE m \in 1..t
    <2>1. m \in 0..t /\ m - 1 \in 0..t /\ m - 1 # t
      BY <1>3
    <2>2. g[m - 1] = f[m - 1]
      BY <2>1
    <2>3. CASE m = t
      BY <2>1, <2>2, <2>3
    <2>4. CASE m # t
      <3>1. g[m] = f[m] /\ m \in 1..(t - 1)
        BY <1>3, <2>1, <2>4
      <3> QED BY <1>4, <2>2, <3>1 DEF Run
    <2> QED BY <2>3, <2>4
  <1>9. Run(g, n, d, t)
    BY <1>6, <1>7, <1>8 DEF Run
  <1> QED BY <1>1, <1>9

(* Shuffle is the last array of the run.                                   *)
LEMMA ShuffleIsRun ==
  ASSUME NEW n \in Nat, NEW d \in Draws(n)
  PROVE  \E g : Run(g, n, d, Turns(n)) /\ Shuffle(n, d) = g[Turns(n)]
  <1> DEFINE T == Turns(n)
             F(f) == [m \in 0..T |->
                        IF m = 0 THEN [k \in 0..(n - 1) |-> k]
                        ELSE Swap(f[m - 1], d[m], n - m)]
             ret == CHOOSE f : f = F(f)
  <1>1. Shuffle(n, d) = ret[T]
    BY DEF Shuffle
  <1>2. T \in Nat /\ T \in 0..T
    BY TurnsType
  <1>3. PICK g : Run(g, n, d, T)
    BY <1>2, RunExists
  <1> HIDE DEF T
  <1>4. g = F(g)
    <2>1. ASSUME NEW m \in 0..T PROVE g[m] = F(g)[m]
      <3>1. CASE m = 0
        BY <1>3, <3>1 DEF Run
      <3>2. CASE m # 0
        <4>1. g[m] = Swap(g[m - 1], d[m], n - m)
          BY <1>2, <1>3, <3>2 DEF Run
        <4> QED BY <3>2, <4>1
      <3> QED BY <3>1, <3>2
    <2>2. g = [m \in 0..T |-> g[m]]
      BY <1>3 DEF Run
    <2> QED BY <2>1, <2>2
  <1>5. ret = F(ret)
    <2> HIDE DEF F
    <2> QED BY <1>4
  <1> HIDE DEF ret
  <1>6. \A m \in 0..T : ret[m] = g[m]
    <2> DEFINE B == {m \in 0..T : ret[m] # g[m]}
    <2> SUFFICES ASSUME B # {} PROVE FALSE
      OBVIOUS
    <2>1. PICK m \in B : \A l \in B : m <= l
      <3>1. B \in SUBSET Nat
        BY <1>2
      <3> HIDE DEF B
      <3> QED BY <3>1, LeastNumber
    <2>2. ret[m] = F(ret)[m] /\ g[m] = F(g)[m]
      BY <1>4, <1>5
    <2>3. m # 0
      BY <2>1, <2>2
    <2>4. ret[m - 1] = g[m - 1]
      BY <1>2, <2>1, <2>3
    <2> QED BY <2>1, <2>2, <2>3, <2>4
  <1> QED BY <1>1, <1>2, <1>3, <1>6 DEF T

(* Runs with the same first draws have the same first arrays.              *)
LEMMA RunsAgree ==
  ASSUME NEW n \in Nat, NEW t \in Nat, NEW d, NEW e, NEW g, NEW h,
         Run(g, n, d, t), Run(h, n, e, t), NEW m \in Nat, m <= t,
         \A k \in 1..m : d[k] = e[k]
  PROVE  \A k \in 0..m : g[k] = h[k]
  <1> DEFINE B == {k \in 0..m : g[k] # h[k]}
  <1> SUFFICES ASSUME B # {} PROVE FALSE
    OBVIOUS
  <1>1. PICK k \in B : \A l \in B : k <= l
    <2>1. B \in SUBSET Nat
      OBVIOUS
    <2> HIDE DEF B
    <2> QED BY <2>1, LeastNumber
  <1>2. k # 0
    BY <1>1 DEF Run
  <1>3. k \in 1..m /\ k \in 1..t /\ k - 1 \in 0..m /\ ~(k <= k - 1)
    BY <1>1, <1>2
  <1>4. g[k - 1] = h[k - 1]
    BY <1>1, <1>3
  <1>5. g[k] = Swap(g[k - 1], d[k], n - k) /\ h[k] = Swap(h[k - 1], e[k], n - k)
    BY <1>3 DEF Run
  <1>6. g[k] = h[k]
    BY <1>3, <1>4, <1>5
  <1> QED BY <1>1, <1>6

(* After turn m the places from n - m on are done with.                    *)
LEMMA PlacesStay ==
  ASSUME NEW n \in Nat, NEW d \in Draws(n), NEW g, Run(g, n, d, Turns(n)),
         NEW m \in 0..Turns(n), NEW p \in (n - m)..(n - 1)
  PROVE  \A l \in m..Turns(n) : g[l][p] = g[m][p]
  <1> DEFINE B == {l \in m..Turns(n) : g[l][p] # g[m][p]}
  <1> SUFFICES ASSUME B # {} PROVE FALSE
    OBVIOUS
  <1>0. Turns(n) \in Nat /\ Turns(n) <= n
    BY DEF Turns
  <1>1. PICK l \in B : \A k \in B : l <= k
    <2>1. B \in SUBSET Nat
      BY <1>0
    <2> HIDE DEF B
    <2> QED BY <2>1, LeastNumber
  <1>2. l # m
    BY <1>1
  <1>3. /\ l \in 1..Turns(n) /\ l - 1 \in m..Turns(n) /\ l - 1 \in 0..Turns(n)
        /\ ~(l <= l - 1) /\ m < l
    BY <1>0, <1>1, <1>2
  <1>4. g[l - 1][p] = g[m][p]
    BY <1>1, <1>3
  <1>5. p \in 0..(n - 1) /\ p > n - l
    BY <1>0, <1>3
  <1>6. d[l] \in 0..(n - l) /\ d[l] \in 0..(n - 1) /\ n - l \in 0..(n - 1)
    BY <1>3, TurnOK
  <1>7. p # d[l] /\ p # n - l
    BY <1>3, <1>5, <1>6
  <1>8. g[l - 1] \in Perms(n) /\ g[l] = Swap(g[l - 1], d[l], n - l)
    BY <1>3 DEF Run
  <1> DEFINE f == g[l - 1]
             j == d[l]
             k == n - l
  <1> HIDE DEF f, j, k
  <1>9. g[l][p] = f[p]
    <2>1. /\ f \in Perms(n) /\ j \in 0..(n - 1) /\ k \in 0..(n - 1)
          /\ p # j /\ p # k /\ g[l] = Swap(f, j, k)
      BY <1>6, <1>7, <1>8 DEF f, j, k
    <2> QED BY <1>5, <2>1, SwapPermutes
  <1> QED BY <1>1, <1>4, <1>9 DEF f

(* Draws for f can be found turn by turn.                                  *)
LEMMA DrawsExist ==
  ASSUME NEW n \in Nat, NEW f \in Perms(n)
  PROVE  \A m \in 0..Turns(n) : \E d \in Draws(n) : \E g :
           Run(g, n, d, Turns(n)) /\ \A p \in (n - m)..(n - 1) : g[m][p] = f[p]
  <1> DEFINE T == Turns(n)
             Found(m, d, g) == /\ Run(g, n, d, T)
                               /\ \A p \in (n - m)..(n - 1) : g[m][p] = f[p]
             B == {m \in 0..T : ~ \E d \in Draws(n) : \E g : Found(m, d, g)}
  <1> SUFFICES ASSUME B # {} PROVE FALSE
    OBVIOUS
  <1>0. T \in Nat /\ T \in 0..T
    BY TurnsType
  <1>1. PICK m \in B : \A l \in B : m <= l
    <2>1. B \in SUBSET Nat
      BY <1>0
    <2> HIDE DEF B
    <2> QED BY <2>1, LeastNumber
  <1>2. m # 0
    <2> DEFINE d == [k \in 1..(n - 1) |-> 0]
    <2>1. d \in Draws(n)
      BY DEF Draws, ShuffleModulus
    <2>2. PICK g : Run(g, n, d, T)
      BY <1>0, <2>1, RunExists
    <2>3. Found(0, d, g)
      BY <2>2
    <2> QED BY <1>1, <2>1, <2>3
  <1>3. m \in 1..T /\ m - 1 \in 0..T /\ m - 1 \in Nat /\ m - 1 <= T /\ m - 1 \notin B
    BY <1>0, <1>1, <1>2
  <1>4a. PICK d \in Draws(n) : \E g : Found(m - 1, d, g)
    BY <1>3
  <1>4. PICK g : Found(m - 1, d, g)
    BY <1>4a
  <1>5. /\ n - m \in 1..(n - 1) /\ n - m \in 0..(n - 1) /\ m \in 1..(n - 1)
    BY <1>3, TurnOK
  <1> DEFINE a == g[m - 1]
             q == n - m
  <1>6. a \in Perms(n) /\ \A p \in (q + 1)..(n - 1) : a[p] = f[p]
    <2>1. n - (m - 1) = q + 1
      BY <1>5
    <2>2. a \in Perms(n)
      BY <1>3, <1>4 DEF Run
    <2> QED BY <1>4, <2>1, <2>2
  <1> HIDE DEF a
  <1>7. PICK j \in 0..(n - 1) : a[j] = f[q]
    <2>1. f[q] \in 0..(n - 1)
      BY <1>5 DEF Perms
    <2>2. \A y \in 0..(n - 1) : \E p \in 0..(n - 1) : a[p] = y
      BY <1>6 DEF Perms
    <2> QED BY <2>1, <2>2
  <1>8. j \in 0..q
    <2> SUFFICES ASSUME j \notin 0..q PROVE FALSE
      OBVIOUS
    <2>1. j \in (q + 1)..(n - 1) /\ j # q
      BY <1>5, <1>7
    <2>2. f[j] = f[q]
      BY <1>6, <1>7, <2>1
    <2> QED BY <1>5, <1>7, <2>1, <2>2, PermsAreInjective
  <1> DEFINE e == [d EXCEPT ![m] = j]
  <1>9. e \in Draws(n) /\ e[m] = j /\ \A k \in 1..(m - 1) : d[k] = e[k]
    <2>1. d \in [1..(n - 1) -> 0..(n - 1)] /\ \A k \in 1..(n - 1) : d[k] < (n - k) + 1
      BY DEF Draws, ShuffleModulus
    <2>2. e \in [1..(n - 1) -> 0..(n - 1)] /\ e[m] = j
      BY <1>5, <1>7, <2>1
    <2>3. \A k \in 1..(n - 1) : k # m => e[k] = d[k]
      BY <2>1
    <2> HIDE DEF e
    <2>4. \A k \in 1..(n - 1) : e[k] < (n - k) + 1
      <3> TAKE k \in 1..(n - 1)
      <3>1. CASE k = m
        BY <1>5, <1>8, <2>2, <3>1
      <3>2. CASE k # m
        BY <2>1, <2>3, <3>2
      <3> QED BY <3>1, <3>2
    <2>5. \A k \in 1..(m - 1) : k \in 1..(n - 1) /\ k # m
      BY <1>5
    <2> QED BY <2>2, <2>3, <2>4, <2>5 DEF Draws, ShuffleModulus
  <1> HIDE DEF e
  <1>10. PICK h : Run(h, n, e, T)
    BY <1>0, <1>9, RunExists
  <1>11. h[m - 1] = a
    <2>1. m - 1 \in 0..(m - 1)
      BY <1>3
    <2>2. \A k \in 0..(m - 1) : g[k] = h[k]
      <3> DEFINE c == m - 1
      <3>1. /\ c \in Nat /\ c <= T /\ T \in Nat /\ Run(g, n, d, T) /\ Run(h, n, e, T)
            /\ \A k \in 1..c : d[k] = e[k]
        BY <1>0, <1>3, <1>4, <1>9, <1>10
      <3> HIDE DEF T, c
      <3>2. \A k \in 0..c : g[k] = h[k]
        BY <3>1, RunsAgree
      <3> QED BY <3>2 DEF c
    <2> QED BY <2>1, <2>2 DEF a
  <1>12. h[m] = Swap(a, j, q)
    BY <1>3, <1>9, <1>10, <1>11 DEF Run
  <1> HIDE DEF q
  <1>13. ASSUME NEW p \in q..(n - 1) PROVE h[m][p] = f[p]
    <2>1. q \in 0..(n - 1) /\ p \in 0..(n - 1)
      BY <1>5 DEF q
    <2>2. /\ Swap(a, j, q)[q] = a[j]
          /\ \A k \in 0..(n - 1) : k # j /\ k # q => Swap(a, j, q)[k] = a[k]
      BY <1>6, <1>7, <2>1, SwapPermutes
    <2>3. CASE p = q
      BY <1>7, <1>12, <2>2, <2>3
    <2>4. CASE p # q
      <3>1. p \in (q + 1)..(n - 1) /\ p # j
        BY <1>8, <2>1, <2>4
      <3>2. h[m][p] = a[p]
        BY <1>12, <2>1, <2>2, <2>4, <3>1
      <3> QED BY <1>6, <3>1, <3>2
    <2> QED BY <2>3, <2>4
  <1>14. Found(m, e, h)
    BY <1>10, <1>13 DEF q
  <1> QED BY <1>1, <1>9, <1>14

LEMMA ShuffleOnto ==
  ASSUME NEW n \in Nat, NEW f \in Perms(n)
  PROVE  \E d \in Draws(n) : Shuffle(n, d) = f
  <1> DEFINE T == Turns(n)
  <1>0. T \in Nat /\ T \in 0..T
    BY TurnsType
  <1>1a. PICK d \in Draws(n) : \E g : /\ Run(g, n, d, T)
                                     /\ \A p \in (n - T)..(n - 1) : g[T][p] = f[p]
    BY <1>0, DrawsExist
  <1>1. PICK g : Run(g, n, d, T) /\ \A p \in (n - T)..(n - 1) : g[T][p] = f[p]
    BY <1>1a
  <1>2. Shuffle(n, d) = g[T]
    <2>1. PICK h : Run(h, n, d, T) /\ Shuffle(n, d) = h[T]
      BY ShuffleIsRun
    <2>2. \A k \in 0..T : g[k] = h[k]
      <3> HIDE DEF T
      <3> QED BY <1>0, <1>1, <2>1, RunsAgree
    <2> QED BY <1>0, <2>1, <2>2
  <1> DEFINE a == g[T]
  <1>3. a \in Perms(n) /\ \A p \in (n - T)..(n - 1) : a[p] = f[p]
    BY <1>0, <1>1 DEF Run
  <1> HIDE DEF a
  <1>4. ASSUME NEW p \in 0..(n - 1) PROVE a[p] = f[p]
    <2>1. CASE p # 0
      <3>1. p \in (n - T)..(n - 1)
        BY <2>1 DEF Turns
      <3> QED BY <1>3, <3>1
    <2>2. CASE p = 0
      <3>1. PICK k \in 0..(n - 1) : a[k] = f[0]
        <4>1. f[0] \in 0..(n - 1)
          BY <2>2 DEF Perms
        <4>2. \A y \in 0..(n - 1) : \E k \in 0..(n - 1) : a[k] = y
          BY <1>3 DEF Perms
        <4> QED BY <4>1, <4>2
      <3>2. k = 0
        <4> SUFFICES ASSUME k # 0 PROVE FALSE
          OBVIOUS
        <4>1. k \in (n - T)..(n - 1)
          BY <3>1 DEF Turns
        <4>2. f[k] = f[0]
          BY <1>3, <3>1, <4>1
        <4> QED BY <2>2, <3>1, <4>2, PermsAreInjective
      <3> QED BY <2>2, <3>1, <3>2
    <2> QED BY <2>1, <2>2
  <1>5. a = f
    <2>1. a \in [0..(n - 1) -> 0..(n - 1)] /\ f \in [0..(n - 1) -> 0..(n - 1)]
      BY <1>3 DEF Perms
    <2> QED BY <1>4, <2>1
  <1> QED BY <1>2, <1>5 DEF a

LEMMA ShuffleOneToOne ==
  ASSUME NEW n \in Nat, NEW d \in Draws(n), NEW e \in Draws(n),
         Shuffle(n, d) = Shuffle(n, e)
  PROVE  d = e
  <1> DEFINE T == Turns(n)
             B == {m \in 1..(n - 1) : d[m] # e[m]}
  <1>0. T \in Nat /\ T \in 0..T
    BY TurnsType
  <1>1. PICK g : Run(g, n, d, T) /\ Shuffle(n, d) = g[T]
    BY ShuffleIsRun
  <1>2. PICK h : Run(h, n, e, T) /\ Shuffle(n, e) = h[T]
    BY ShuffleIsRun
  <1>3. ASSUME B # {} PROVE FALSE
    <2>1. PICK m \in B : \A l \in B : m <= l
      <3>1. B \in SUBSET Nat
        OBVIOUS
      <3> HIDE DEF B
      <3> QED BY <1>3, <3>1, LeastNumber
    <2>2. m \in 1..T /\ m \in 0..T /\ m \in m..T /\ T \in m..T
      BY <2>1 DEF Turns
    <2>3. m - 1 \in Nat /\ m - 1 <= T /\ m - 1 \in 0..(m - 1) /\ m - 1 \in 0..T
      BY <1>0, <2>2
    <2>4. \A k \in 1..(m - 1) : d[k] = e[k]
      <3> TAKE k \in 1..(m - 1)
      <3>1. k \in 1..(n - 1) /\ ~(m <= k)
        BY <2>1
      <3> QED BY <2>1, <3>1
    <2>5. g[m - 1] = h[m - 1]
      <3>1. \A k \in 0..(m - 1) : g[k] = h[k]
        <4> HIDE DEF T
        <4> QED BY <1>0, <1>1, <1>2, <2>3, <2>4, RunsAgree
      <3> QED BY <2>3, <3>1
    <2> DEFINE a == g[m - 1]
               q == n - m
    <2>6. q \in 0..(n - 1) /\ d[m] \in 0..(n - 1) /\ e[m] \in 0..(n - 1)
      BY <2>2, TurnOK
    <2>7. a \in Perms(n) /\ g[m] = Swap(a, d[m], q) /\ h[m] = Swap(a, e[m], q)
      BY <1>1, <1>2, <2>2, <2>3, <2>5 DEF Run
    <2> HIDE DEF a
    <2>8. g[m][q] = a[d[m]] /\ h[m][q] = a[e[m]]
      <3> DEFINE j == d[m]
                 k == e[m]
      <3> HIDE DEF q, j, k
      <3>1. /\ q \in 0..(n - 1) /\ j \in 0..(n - 1) /\ k \in 0..(n - 1) /\ a \in Perms(n)
            /\ g[m] = Swap(a, j, q) /\ h[m] = Swap(a, k, q)
        BY <2>6, <2>7 DEF j, k
      <3>2. Swap(a, j, q)[q] = a[j] /\ Swap(a, k, q)[q] = a[k]
        BY <3>1, SwapPermutes
      <3> QED BY <3>1, <3>2 DEF j, k
    <2>9. g[T][q] = g[m][q] /\ h[T][q] = h[m][q]
      <3>1. q \in (n - m)..(n - 1)
        BY <2>6
      <3> QED BY <1>1, <1>2, <2>2, <3>1, PlacesStay
    <2>10. a[d[m]] = a[e[m]]
      BY <1>1, <1>2, <2>8, <2>9
    <2>11. d[m] = e[m]
      BY <2>6, <2>7, <2>10, PermsAreInjective
    <2> QED BY <2>1, <2>11
  <1>4. d \in [1..(n - 1) -> 0..(n - 1)] /\ e \in [1..(n - 1) -> 0..(n - 1)]
    BY DEF Draws
  <1>5. \A m \in 1..(n - 1) : d[m] = e[m]
    BY <1>3
  <1> HIDE DEF B
  <1> QED BY <1>4, <1>5

(* For every size, each permutation comes from exactly one sequence of the *)
(* draws that the loop of Permutation makes: the shuffle has no bias of    *)
(* its own.                                                                *)
THEOREM ShufflesAlwaysFair == Spec => []ShufflesAreFair
  <1>1. Inv => ShufflesAreFair
    <2> SUFFICES ASSUME Drawn, drawn.kind = "shuffle",
                        NEW f \in Perms(Cardinality(DOMAIN drawn.value))
                 PROVE  LET n == Cardinality(DOMAIN drawn.value) IN
                        Cardinality({d \in Draws(n) : Shuffle(n, d) = f}) = 1
      BY DEF Inv, ShufflesAreFair
    <2>1. PICK k \in Nat : drawn.value \in Perms(k)
      BY DEF Drawn
    <2>2. DOMAIN drawn.value = 0..(k - 1)
      BY <2>1 DEF Perms
    <2>3. Cardinality(0..(k - 1)) = k
      BY FS_Interval
    <2> DEFINE n == Cardinality(DOMAIN drawn.value)
               A == {d \in Draws(n) : Shuffle(n, d) = f}
    <2>4. n \in Nat
      BY <2>2, <2>3
    <2> HIDE DEF n
    <2>5. PICK d \in Draws(n) : Shuffle(n, d) = f
      BY <2>4, ShuffleOnto DEF n
    <2>6. \A e \in Draws(n) : Shuffle(n, e) = f => e = d
      BY <2>4, <2>5, ShuffleOneToOne
    <2>7. A = {d}
      BY <2>5, <2>6
    <2> HIDE DEF A
    <2>8. Cardinality(A) = 1
      BY <2>7, FS_Singleton
    <2> QED BY <2>8 DEF A, n
  <1> QED BY <1>1, Invariant, PTL
=============================================================================
