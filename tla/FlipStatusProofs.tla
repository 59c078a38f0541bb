-------------------------- MODULE FlipStatusProofs ---------------------------
(***************************************************************************)
(* What the UI is told of a flip is current, has no participant twice and, *)
(* when complete, shows all, for every number of devices, loads and        *)
(* refusals and for channels of every capacity.                            *)
(***************************************************************************)
EXTENDS FlipStatus, FiniteSetTheorems, WellFoundedInduction, TLAPS

-----------------------------------------------------------------------------
(* What Select returns.  Select is recursive; the induction is by the      *)
(* least number that has a set of numbers.                                 *)

(* A set of natural numbers has a least element.                           *)
LEMMA LeastNumber ==
  ASSUME NEW B \in SUBSET Nat, B # {}
  PROVE  \E n \in B : \A m \in B : n <= m
  <1> DEFINE R == OpToRel(<, Nat)
  <1>1. IsWellFoundedOn(R, Nat)
    BY NatLessThanWellFounded
  <1>2. \A m, n \in Nat : <<m, n>> \in R <=> m < n
    BY DEF OpToRel
  <1> HIDE DEF R
  <1>3. PICK n \in B : \A m \in B : ~ (<<m, n>> \in R)
    BY <1>1, WFMin
  <1>4. \A m \in B : n <= m
    <2> TAKE m \in B
    <2>1. m \in Nat /\ n \in Nat /\ ~(m < n)
      BY <1>2, <1>3
    <2> QED BY <2>1
  <1> QED BY <1>4

(* One round of the selection.                                             *)
Take(t, x, T) == IF x \in T THEN Append(t, x) ELSE t

(* f[k] is the selection of the first k elements of s, for k up to n.      *)
Selects(f, n, s, S, T) ==
  /\ f \in [0..n -> Seq(S)]
  /\ f[0] = << >>
  /\ \A k \in 1..n : f[k] = Take(f[k - 1], s[k], T)

LEMMA SelectionExists ==
  ASSUME NEW S, NEW T, NEW s \in Seq(S)
  PROVE  \A n \in 0..Len(s) : \E f : Selects(f, n, s, S, T)
  <1> DEFINE B == {n \in 0..Len(s) : ~ \E f : Selects(f, n, s, S, T)}
  <1> SUFFICES ASSUME B # {} PROVE FALSE
    OBVIOUS
  <1>1. PICK n \in B : \A m \in B : n <= m
    <2>1. B \in SUBSET Nat
      OBVIOUS
    <2> HIDE DEF B
    <2> QED BY <2>1, LeastNumber
  <1>2. n # 0
    <2>1. Selects([k \in 0..0 |-> << >>], 0, s, S, T)
      BY DEF Selects
    <2> QED BY <2>1
  <1>3. n \in 1..Len(s) /\ n - 1 \in 0..Len(s) /\ n - 1 \notin B
    BY <1>1, <1>2
  <1>4. PICK f : Selects(f, n - 1, s, S, T)
    BY <1>3
  <1> DEFINE g == [k \in 0..n |-> IF k = n THEN Take(f[n - 1], s[n], T) ELSE f[k]]
  <1>5. Take(f[n - 1], s[n], T) \in Seq(S)
    BY <1>3, <1>4 DEF Selects, Take
  <1>6. g \in [0..n -> Seq(S)]
    BY <1>3, <1>4, <1>5 DEF Selects
  <1>7. g[0] = << >>
    BY <1>3, <1>4 DEF Selects
  <1>8. \A k \in 1..n : g[k] = Take(g[k - 1], s[k], T)
    <2> TAKE k \in 1..n
    <2>1. k \in 0..n /\ k - 1 \in 0..n /\ k - 1 # n
      BY <1>3
    <2>2. g[k - 1] = f[k - 1]
      BY <2>1
    <2>3. CASE k = n
      BY <2>1, <2>2, <2>3
    <2>4. CASE k # n
      <3>1. g[k] = f[k] /\ k \in 1..(n - 1)
        BY <1>3, <2>1, <2>4
      <3> QED BY <1>4, <2>2, <3>1 DEF Selects
    <2> QED BY <2>3, <2>4
  <1>9. Selects(g, n, s, S, T)
    BY <1>6, <1>7, <1>8 DEF Selects
  <1> QED BY <1>9, <1>1

(* Select is the last of such a function.                                  *)
LEMMA SelectIsSelection ==
  ASSUME NEW S, NEW T, NEW s \in Seq(S)
  PROVE  \E f : Selects(f, Len(s), s, S, T) /\ Select(s, T) = f[Len(s)]
  <1> DEFINE F(f) == [k \in 0..Len(s) |->
                        IF k = 0 THEN << >>
                        ELSE IF s[k] \in T THEN Append(f[k - 1], s[k]) ELSE f[k - 1]]
  <1> DEFINE sel == CHOOSE f : f = F(f)
  <1>1. Select(s, T) = sel[Len(s)]
    BY DEF Select
  <1>2. PICK f : Selects(f, Len(s), s, S, T)
    <2>1. Len(s) \in 0..Len(s)
      OBVIOUS
    <2> QED BY <2>1, SelectionExists
  <1>3. f = F(f)
    <2>1. ASSUME NEW k \in 0..Len(s) PROVE f[k] = F(f)[k]
      <3>1. CASE k = 0
        BY <1>2, <3>1 DEF Selects
      <3>2. CASE k # 0
        <4>1. f[k] = Take(f[k - 1], s[k], T)
          BY <1>2, <3>2 DEF Selects
        <4>2. F(f)[k] = IF s[k] \in T THEN Append(f[k - 1], s[k]) ELSE f[k - 1]
          BY <3>2
        <4> QED BY <4>1, <4>2 DEF Take
      <3> QED BY <3>1, <3>2
    <2>2. f = [k \in 0..Len(s) |-> f[k]]
      BY <1>2 DEF Selects
    <2> QED BY <2>1, <2>2
  <1>4. sel = F(sel)
    <2> HIDE DEF F
    <2> QED BY <1>3
  <1> HIDE DEF sel
  <1>5. \A k \in 0..Len(s) : sel[k] = f[k]
    <2> DEFINE B == {k \in 0..Len(s) : sel[k] # f[k]}
    <2> SUFFICES ASSUME B # {} PROVE FALSE
      OBVIOUS
    <2>1. PICK k \in B : \A m \in B : k <= m
      <3>1. B \in SUBSET Nat
        OBVIOUS
      <3> HIDE DEF B
      <3> QED BY <3>1, LeastNumber
    <2>2. sel[k] = F(sel)[k] /\ f[k] = F(f)[k]
      BY <1>3, <1>4
    <2>3. k # 0
      BY <2>1, <2>2
    <2>4. sel[k - 1] = f[k - 1]
      BY <2>1, <2>3
    <2> QED BY <2>1, <2>2, <2>3, <2>4
  <1>6. Len(s) \in 0..Len(s)
    OBVIOUS
  <1> QED BY <1>1, <1>2, <1>5, <1>6

-----------------------------------------------------------------------------
(* What the first k elements of s give: elements of T, all of them, in the *)
(* order of s.                                                             *)
Selected(t, k, s, T) ==
  /\ \A i \in 1..Len(t) : t[i] \in T /\ \E a \in 1..k : t[i] = s[a]
  /\ \A a \in 1..k : s[a] \in T => \E i \in 1..Len(t) : t[i] = s[a]
  /\ \A i, j \in 1..Len(t) :
       i < j => \E a, b \in 1..k : a < b /\ t[i] = s[a] /\ t[j] = s[b]

LEMMA StepSelected ==
  ASSUME NEW S, NEW T, NEW s \in Seq(S), NEW k \in 1..Len(s), NEW t \in Seq(S),
         Selected(t, k - 1, s, T)
  PROVE  Selected(Take(t, s[k], T), k, s, T)
  <1> DEFINE u == Take(t, s[k], T)
  <1>1. s[k] \in S /\ k \in Nat /\ \A a \in 1..(k - 1) : a \in 1..k /\ a < k
    OBVIOUS
  <1>2. \A a \in 1..k : a = k \/ a \in 1..(k - 1)
    BY <1>1
  <1>3. CASE s[k] \notin T
    <2>1. u = t
      BY <1>3 DEF Take
    <2>2. \A i \in 1..Len(t) : t[i] \in T /\ \E a \in 1..k : t[i] = s[a]
      BY <1>1 DEF Selected
    <2>3. \A a \in 1..k : s[a] \in T => \E i \in 1..Len(t) : t[i] = s[a]
      BY <1>2, <1>3 DEF Selected
    <2>4. \A i, j \in 1..Len(t) :
            i < j => \E a, b \in 1..k : a < b /\ t[i] = s[a] /\ t[j] = s[b]
      BY <1>1 DEF Selected
    <2>5. Selected(t, k, s, T)
      BY <2>2, <2>3, <2>4 DEF Selected
    <2> QED BY <2>1, <2>5
  <1>4. CASE s[k] \in T
    <2>1. /\ u \in Seq(S) /\ Len(u) = Len(t) + 1 /\ u[Len(u)] = s[k] /\ Len(t) \in Nat
          /\ \A i \in 1..Len(t) : u[i] = t[i]
      BY <1>1, <1>4 DEF Take
    <2> HIDE DEF u
    <2>2. \A i \in 1..Len(u) : i = Len(u) \/ i \in 1..Len(t)
      BY <2>1
    <2>3. \A i \in 1..Len(u) : u[i] \in T /\ \E a \in 1..k : u[i] = s[a]
      <3> TAKE i \in 1..Len(u)
      <3>1. CASE i = Len(u)
        BY <1>1, <1>4, <2>1, <3>1
      <3>2. CASE i # Len(u)
        <4>1. i \in 1..Len(t) /\ u[i] = t[i]
          BY <2>1, <2>2, <3>2
        <4>2. PICK a \in 1..(k - 1) : t[i] = s[a]
          BY <4>1 DEF Selected
        <4> QED BY <1>1, <4>1, <4>2 DEF Selected
      <3> QED BY <3>1, <3>2
    <2>4. \A a \in 1..k : s[a] \in T => \E i \in 1..Len(u) : u[i] = s[a]
      <3> TAKE a \in 1..k
      <3> HAVE s[a] \in T
      <3>1. CASE a = k
        BY <2>1, <3>1
      <3>2. CASE a # k
        <4>1. PICK i \in 1..Len(t) : t[i] = s[a]
          BY <1>2, <3>2 DEF Selected
        <4>2. i \in 1..Len(u) /\ u[i] = s[a]
          BY <2>1, <4>1
        <4> QED BY <4>2
      <3> QED BY <3>1, <3>2
    <2>5. ASSUME NEW i \in 1..Len(u), NEW j \in 1..Len(u), i < j
          PROVE  \E a, b \in 1..k : a < b /\ u[i] = s[a] /\ u[j] = s[b]
      <3>1. i \in 1..Len(t)
        BY <2>1, <2>5
      <3>2. CASE j = Len(u)
        <4>1. PICK a \in 1..(k - 1) : t[i] = s[a]
          BY <3>1 DEF Selected
        <4>2. a \in 1..k /\ k \in 1..k /\ a < k
          BY <1>1, <4>1
        <4> QED BY <2>1, <3>1, <3>2, <4>1, <4>2
      <3>3. CASE j # Len(u)
        <4>1. j \in 1..Len(t)
          BY <2>2, <3>3
        <4>2. PICK a \in 1..(k - 1), b \in 1..(k - 1) : a < b /\ t[i] = s[a] /\ t[j] = s[b]
          BY <2>5, <3>1, <4>1 DEF Selected
        <4> QED BY <1>1, <2>1, <3>1, <4>1, <4>2
      <3> QED BY <3>2, <3>3
    <2> QED BY <2>3, <2>4, <2>5 DEF Selected, u
  <1> QED BY <1>3, <1>4

(* Select returns the elements of s that are in T, all of them, and in the *)
(* order they have in s.                                                   *)
LEMMA SelectOK ==
  ASSUME NEW S, NEW T, NEW s \in Seq(S)
  PROVE  /\ Select(s, T) \in Seq(S)
         /\ Selected(Select(s, T), Len(s), s, T)
  <1>1. PICK f : Selects(f, Len(s), s, S, T) /\ Select(s, T) = f[Len(s)]
    BY SelectIsSelection
  <1>2. \A k \in 0..Len(s) : Selected(f[k], k, s, T)
    <2> DEFINE B == {k \in 0..Len(s) : ~Selected(f[k], k, s, T)}
    <2> SUFFICES ASSUME B # {} PROVE FALSE
      OBVIOUS
    <2>1. PICK k \in B : \A m \in B : k <= m
      <3>1. B \in SUBSET Nat
        OBVIOUS
      <3> HIDE DEF B
      <3> QED BY <3>1, LeastNumber
    <2>2. k # 0
      BY <1>1, <2>1 DEF Selects, Selected
    <2>3. k \in 1..Len(s) /\ k - 1 \in 0..Len(s)
      BY <2>1, <2>2
    <2>4. Selected(f[k - 1], k - 1, s, T)
      BY <2>1, <2>3
    <2>5. f[k - 1] \in Seq(S) /\ f[k] = Take(f[k - 1], s[k], T)
      BY <1>1, <2>3 DEF Selects
    <2>6. Selected(f[k], k, s, T)
      BY <2>3, <2>4, <2>5, StepSelected
    <2> QED BY <2>1, <2>6
  <1>3. Len(s) \in 0..Len(s)
    OBVIOUS
  <1> QED BY <1>1, <1>2, <1>3 DEF Selects

-----------------------------------------------------------------------------
(* Sequences without repetition.                                           *)

Injective(q) == \A i, j \in 1..Len(q) : q[i] = q[j] => i = j

(* A set as a sequence: its members, each once.                            *)
LEMMA SetToSeqOK ==
  ASSUME NEW S, IsFiniteSet(S)
  PROVE  /\ SetToSeq(S) \in Seq(S)
         /\ Injective(SetToSeq(S))
         /\ ToSet(SetToSeq(S)) = S
  <1> DEFINE n == Cardinality(S)
  <1>1. n \in Nat /\ ExistsBijection(1..n, S)
    BY FS_CardinalityType
  <1>2. \E f \in [1..n -> S] : IsInjective(f)
    BY <1>1 DEF ExistsBijection, Bijection, Injection
  <1>3. SetToSeq(S) \in [1..n -> S] /\ IsInjective(SetToSeq(S))
    BY <1>2 DEF SetToSeq
  <1> DEFINE q == SetToSeq(S)
  <1> HIDE DEF q
  <1>4. q \in Seq(S) /\ Len(q) = n /\ DOMAIN q = 1..n
    BY <1>1, <1>3 DEF q
  <1>5. Injective(q)
    BY <1>3, <1>4 DEF q, IsInjective, Injective
  <1>6. q \in Injection(1..n, S)
    BY <1>3 DEF q, Injection
  <1>7. Cardinality(1..n) = n
    BY <1>1, FS_Interval
  <1>8. q \in Surjection(1..n, S)
    BY <1>6, <1>7, FS_Injection
  <1>9. ToSet(q) = S
    BY <1>3, <1>4, <1>8 DEF q, ToSet, Surjection
  <1> QED BY <1>4, <1>5, <1>9 DEF q

(* The members of a sequence by their places.                              *)
LEMMA ToSetByPlace ==
  ASSUME NEW S, NEW q \in Seq(S)
  PROVE  /\ \A i \in 1..Len(q) : q[i] \in ToSet(q) /\ q[i] \in S
         /\ \A x \in ToSet(q) : \E i \in 1..Len(q) : x = q[i]
  BY DEF ToSet

(* Filtering keeps the members that pass, and adds no repetition.          *)
LEMMA SelectKeeps ==
  ASSUME NEW S, NEW T, NEW q \in Seq(S), Injective(q)
  PROVE  /\ Select(q, T) \in Seq(S)
         /\ Injective(Select(q, T))
         /\ ToSet(Select(q, T)) = ToSet(q) \cap T
  <1> DEFINE t == Select(q, T)
  <1> HIDE DEF t
  <1>1. t \in Seq(S) /\ Selected(t, Len(q), q, T)
    BY SelectOK DEF t
  <1>2. \A i, j \in 1..Len(t) : i < j => t[i] # t[j]
    <2> SUFFICES ASSUME NEW i \in 1..Len(t), NEW j \in 1..Len(t), i < j
                 PROVE  t[i] # t[j]
      OBVIOUS
    <2>1. PICK a \in 1..Len(q), b \in 1..Len(q) : a < b /\ t[i] = q[a] /\ t[j] = q[b]
      BY <1>1 DEF Selected
    <2> QED BY <2>1 DEF Injective
  <1>3. Injective(t)
    <2>1. \A i, j \in 1..Len(t) : i < j \/ j < i \/ i = j
      BY <1>1
    <2> QED BY <1>2, <2>1 DEF Injective
  <1>4. ToSet(t) = ToSet(q) \cap T
    <2>1. /\ \A i \in 1..Len(t) : t[i] \in ToSet(t)
          /\ \A x \in ToSet(t) : \E i \in 1..Len(t) : x = t[i]
          /\ \A i \in 1..Len(q) : q[i] \in ToSet(q)
          /\ \A x \in ToSet(q) : \E i \in 1..Len(q) : x = q[i]
      BY <1>1, ToSetByPlace
    <2>2. ToSet(t) \subseteq ToSet(q) \cap T
      <3> SUFFICES ASSUME NEW x \in ToSet(t) PROVE x \in ToSet(q) \cap T
        OBVIOUS
      <3>1. PICK i \in 1..Len(t) : x = t[i]
        BY <2>1
      <3> QED BY <1>1, <2>1, <3>1 DEF Selected
    <2>3. ToSet(q) \cap T \subseteq ToSet(t)
      <3> SUFFICES ASSUME NEW x \in ToSet(q) \cap T PROVE x \in ToSet(t)
        OBVIOUS
      <3>1. PICK i \in 1..Len(q) : x = q[i]
        BY <2>1
      <3>2. PICK j \in 1..Len(t) : x = t[j]
        BY <1>1, <3>1 DEF Selected
      <3> QED BY <2>1, <3>2
    <2> QED BY <2>2, <2>3
  <1> QED BY <1>1, <1>3, <1>4 DEF t

(* One sequence after another that has nothing in common with it.          *)
LEMMA ConcatenationKeeps ==
  ASSUME NEW S, NEW q \in Seq(S), NEW r \in Seq(S), Injective(q), Injective(r),
         ToSet(q) \cap ToSet(r) = {}
  PROVE  /\ q \o r \in Seq(S)
         /\ Injective(q \o r)
         /\ ToSet(q \o r) = ToSet(q) \cup ToSet(r)
  <1> DEFINE t == q \o r
             m == Len(q)
             n == Len(r)
  <1>1. t \in Seq(S) /\ m \in Nat /\ n \in Nat /\ Len(t) = m + n
    OBVIOUS
  <1>2. \A i \in 1..m : i \in 1..(m + n) /\ t[i] = q[i]
    OBVIOUS
  <1>3. \A i \in 1..n : m + i \in 1..(m + n) /\ t[m + i] = r[i]
    OBVIOUS
  <1>4. \A i \in 1..(m + n) : i \in 1..m \/ \E j \in 1..n : i = m + j
    <2> SUFFICES ASSUME NEW i \in 1..(m + n), i \notin 1..m
                 PROVE  \E j \in 1..n : i = m + j
      OBVIOUS
    <2>1. i - m \in 1..n /\ i = m + (i - m)
      BY <1>1
    <2> QED BY <2>1
  <1> HIDE DEF t, m, n
  <1>5. /\ \A i \in 1..m : q[i] \in ToSet(q)
        /\ \A i \in 1..n : r[i] \in ToSet(r)
        /\ \A x \in ToSet(q) : \E i \in 1..m : x = q[i]
        /\ \A x \in ToSet(r) : \E i \in 1..n : x = r[i]
        /\ \A i \in 1..(m + n) : t[i] \in ToSet(t)
        /\ \A x \in ToSet(t) : \E i \in 1..(m + n) : x = t[i]
    BY <1>1, ToSetByPlace DEF m, n
  <1>6. Injective(t)
    <2> SUFFICES ASSUME NEW i \in 1..(m + n), NEW j \in 1..(m + n), t[i] = t[j]
                 PROVE  i = j
      BY <1>1 DEF Injective
    <2>1. CASE i \in 1..m /\ j \in 1..m
      BY <2>1, <1>2 DEF Injective, m
    <2>2. CASE i \notin 1..m /\ j \notin 1..m
      <3>1. PICK a \in 1..n, b \in 1..n : i = m + a /\ j = m + b
        BY <2>2, <1>4
      <3>2. r[a] = r[b]
        BY <3>1, <1>3
      <3> QED BY <3>1, <3>2 DEF Injective, n
    <2>3. CASE i \in 1..m /\ j \notin 1..m
      BY <2>3, <1>2, <1>3, <1>4, <1>5
    <2>4. CASE i \notin 1..m /\ j \in 1..m
      BY <2>4, <1>2, <1>3, <1>4, <1>5
    <2> QED BY <2>1, <2>2, <2>3, <2>4
  <1>7. ToSet(t) = ToSet(q) \cup ToSet(r)
    <2>1. ToSet(t) \subseteq ToSet(q) \cup ToSet(r)
      <3> SUFFICES ASSUME NEW x \in ToSet(t) PROVE x \in ToSet(q) \cup ToSet(r)
        OBVIOUS
      <3>1. PICK i \in 1..(m + n) : x = t[i]
        BY <1>5
      <3>2. CASE i \in 1..m
        BY <1>2, <1>5, <3>1, <3>2
      <3>3. CASE i \notin 1..m
        <4>1. PICK j \in 1..n : i = m + j
          BY <1>4, <3>3
        <4> QED BY <1>3, <1>5, <3>1, <4>1
      <3> QED BY <3>2, <3>3
    <2>2. ToSet(q) \subseteq ToSet(t)
      BY <1>2, <1>5
    <2>3. ToSet(r) \subseteq ToSet(t)
      BY <1>3, <1>5
    <2> QED BY <2>1, <2>2, <2>3
  <1> QED BY <1>1, <1>6, <1>7 DEF t

-----------------------------------------------------------------------------
(* The types of the variables.                                             *)

Update ==
  [type : {"Commitment", "Reveal"}, player : Players]
    \cup [type : {"CommitmentComplete", "Result", "Err"}]

Live == [ stage : {"none", "on", "over"}, cc : BOOLEAN, committed : SUBSET Players,
          revealed : SUBSET Players, refused : Nat ]

Waiting == [ pc : {"none", "sleep", "silent", "summary", "add", "queue", "end"},
             parts : Seq(Players), arr : Arrays ]

Typed ==
  /\ listed \in SUBSET Players /\ listed # {}
  /\ live \in Live
  /\ updates \in Seq(Update)
  /\ games \in Status \cup {None}
  /\ array \in [Arrays -> SUBSET listed]
  /\ used \in Arrays
  /\ dirty \in BOOLEAN
  /\ update \in [pc : {"idle", "add", "queue"}, status : Status]
  /\ jobs \in Nat
  /\ load \in {"idle", "queue"}
  /\ delayed \in [Loads -> Waiting]
  /\ loads \in 0..MaxLoads
  /\ notify.pc \in {"idle", "read", "send"}

-----------------------------------------------------------------------------
(* The queue of updates.                                                   *)

Is(i, kind) == i \in 1..Len(updates) /\ updates[i].type = kind

(* A device's commitment is announced once.                                *)
CommitsOnce ==
  /\ \A i \in 1..Len(updates) : Is(i, "Commitment") => updates[i].player \in live.committed
  /\ \A i, j \in 1..Len(updates) :
       Is(i, "Commitment") /\ Is(j, "Commitment") /\ updates[i].player = updates[j].player
         => i = j

(* The list, the reveals and the result come in this order.                *)
InSequence ==
  /\ live.revealed \subseteq listed
  /\ live.revealed # {} => live.cc
  /\ \A i \in 1..Len(updates) : Is(i, "CommitmentComplete") => live.cc
  /\ \A i, j \in 1..Len(updates) :
       Is(i, "CommitmentComplete") /\ Is(j, "CommitmentComplete") => i = j
  /\ \A i \in 1..Len(updates) : Is(i, "Reveal") => updates[i].player \in live.revealed
  /\ \A i, j \in 1..Len(updates) :
       Is(i, "CommitmentComplete") /\ (Is(j, "Reveal") \/ Is(j, "Result")) => i < j
  /\ \A i \in 1..Len(updates) :
       Is(i, "Result") => live.stage = "over" /\ live.revealed = listed
  /\ \A i, j \in 1..Len(updates) : Is(i, "Reveal") /\ Is(j, "Result") => i < j

(* updateLoop has taken the list; it has yet to take the reveal of p.      *)
ListTaken == live.cc /\ ~ \E i \in 1..Len(updates) : Is(i, "CommitmentComplete")
ToCome(p) == \E i \in 1..Len(updates) : Is(i, "Reveal") /\ updates[i].player = p

RevealsAfterList == live.cc /\ ~ListTaken => \A p \in live.revealed : ToCome(p)

Queue == CommitsOnce /\ InSequence /\ RevealsAfterList

-----------------------------------------------------------------------------
(* The loads, each of which makes an array or a delayed goroutine at most, *)
(* and the arrays in use.                                                  *)

Slots ==
  /\ Cardinality({k \in Loads : delayed[k].pc # "none"}) + jobs <= loads
  /\ used + jobs <= loads + (IF ListTaken THEN 1 ELSE 0)

InUse ==
  /\ games # None => games.arr <= used
  /\ update.status.arr <= used
  /\ \A k \in Loads : delayed[k].arr <= used

-----------------------------------------------------------------------------
(* The participants of a status that is still in the first phase are those *)
(* whose commitments have been taken from the queue.                       *)
Unseen(s) ==
  s.phase = "COMMITMENT" =>
    \A k \in 1..Len(s.parts) :
      /\ s.parts[k] \in live.committed
      /\ \A i \in 1..Len(updates) : Is(i, "Commitment") => updates[i].player # s.parts[k]

Members ==
  /\ games # None => Unseen(games) /\ Injective(games.parts)
  /\ Unseen(update.status) /\ Injective(update.status.parts)
  /\ \A k \in Loads : Injective(delayed[k].parts)

-----------------------------------------------------------------------------
(* A status that shows all listed devices, and all their secrets.          *)
Lists(s) == ToSet(s.parts) = listed
ShowsAll(s) == Lists(s) /\ array[s.arr] = listed
CompleteOK(s) == s.phase = "COMPLETE" => ShowsAll(s)

(* The status the next update builds on.                                   *)
Current == IF update.pc = "add" THEN update.status ELSE games

(* Once the list was taken, it has the listed devices and every secret     *)
(* that was taken from the queue.                                          *)
CurrentOK ==
  ListTaken =>
    /\ Current # None
    /\ Current.phase # "COMMITMENT"
    /\ Lists(Current)
    /\ \A p \in live.revealed : ToCome(p) \/ p \in array[Current.arr]

Shown ==
  Undisturbed =>
    /\ games # None => CompleteOK(games)
    /\ update.pc = "add" => CompleteOK(update.status)
    /\ CurrentOK

-----------------------------------------------------------------------------
(* A change of the status is marked, is about to be marked, or is on its   *)
(* way to the UI.                                                          *)
Told ==
  \/ dirty \/ update.pc # "idle" \/ load # "idle" \/ \E k \in Loads : delayed[k].pc = "queue"
  \/ notify.pc = "read"
  \/ notify.pc = "send" /\ notify.copy = View
  \/ notify.pc = "idle" /\ ui \in {View, Missed}

Inv ==
  /\ Typed
  /\ Queue
  /\ Slots /\ InUse
  /\ Members
  /\ Shown
  /\ Told

-----------------------------------------------------------------------------
(* Steps on the queue.                                                     *)

(* An update is appended.                                                  *)
LEMMA Appended ==
  ASSUME updates \in Seq(Update), NEW u \in Update, updates' = Append(updates, u)
  PROVE  /\ updates' \in Seq(Update)
         /\ Len(updates) \in Nat /\ Len(updates') = Len(updates) + 1
         /\ \A i \in 1..Len(updates) : i \in 1..Len(updates') /\ updates'[i] = updates[i]
         /\ updates'[Len(updates) + 1] = u
         /\ \A i \in 1..Len(updates') : i \in 1..Len(updates) \/ i = Len(updates) + 1
  OBVIOUS

(* The first update is taken.                                              *)
LEMMA Taken ==
  ASSUME updates \in Seq(Update), updates # << >>, updates' = Tail(updates)
  PROVE  /\ updates' \in Seq(Update)
         /\ Len(updates) \in Nat \ {0} /\ Len(updates') = Len(updates) - 1
         /\ \A i \in 1..Len(updates') : i + 1 \in 2..Len(updates) /\ updates'[i] = updates[i + 1]
         /\ \A i \in 2..Len(updates) : i - 1 \in 1..Len(updates') /\ updates'[i - 1] = updates[i]
         /\ Head(updates) = updates[1] /\ Head(updates) \in Update
         /\ \A i \in 1..Len(updates) : i = 1 \/ i \in 2..Len(updates)
  OBVIOUS

(* What the game may announce.                                             *)
LEMMA Announcements ==
  /\ \A p \in Players : /\ [type |-> "Commitment", player |-> p] \in Update
                       /\ [type |-> "Reveal", player |-> p] \in Update
  /\ [type |-> "CommitmentComplete"] \in Update
  /\ [type |-> "Result"] \in Update
  /\ [type |-> "Err"] \in Update
  BY DEF Update

(* What a step of the game, which announces at most one thing, leaves true *)
(* of the queue and of the statuses built from it.                         *)
Grown ==
  /\ live' \in Live /\ updates' \in Seq(Update)
  /\ ListTaken' <=> ListTaken
  /\ \A s \in Status : Unseen(s) => Unseen(s)'
  /\ \A p \in live'.revealed : (p \in live.revealed /\ ~ToCome(p)) \/ ToCome(p)'

LEMMA RegisterQueue ==
  ASSUME Typed, Queue, Register
  PROVE  Queue' /\ Grown
  <1>1. /\ live \in Live /\ live' = [live EXCEPT !.stage = "on"] /\ live.stage = "none"
        /\ updates' = updates /\ updates \in Seq(Update) /\ listed' = listed
    BY DEF Typed, Register, unchangedByGame
  <1>2. /\ live' \in Live /\ live'.committed = live.committed /\ live'.cc = live.cc
        /\ live'.stage = "on" /\ live'.revealed = live.revealed
    BY <1>1 DEF Live
  <1>3. Queue'
    BY <1>1, <1>2 DEF Queue, CommitsOnce, InSequence, RevealsAfterList, ListTaken, ToCome, Is
  <1>4. Grown
    BY <1>1, <1>2 DEF Grown, ListTaken, ToCome, Unseen, Is
  <1> QED BY <1>3, <1>4

LEMMA CommitmentQueue ==
  ASSUME Typed, Queue, NEW p \in Players, Commitment(p)
  PROVE  Queue' /\ Grown
  <1> DEFINE u == [type |-> "Commitment", player |-> p]
  <1>1. /\ updates \in Seq(Update) /\ u \in Update /\ updates' = Append(updates, u)
        /\ live' = [live EXCEPT !.committed = @ \cup {p}] /\ live \in Live
        /\ p \notin live.committed /\ listed' = listed
    BY Announcements DEF Typed, Commitment, Announce, unchangedByGame
  <1>2. /\ live' \in Live
        /\ live'.committed = live.committed \cup {p} /\ live'.cc = live.cc
        /\ live'.stage = live.stage /\ live'.revealed = live.revealed
    BY <1>1 DEF Live
  <1>3. u.type = "Commitment" /\ u.player = p
    OBVIOUS
  <1> HIDE DEF u
  <1>4. CommitsOnce'
    BY <1>1, <1>2, <1>3, Appended DEF Queue, CommitsOnce, Is
  <1>5. InSequence'
    BY <1>1, <1>2, <1>3, Appended DEF Queue, InSequence, Is
  <1>6. RevealsAfterList'
    BY <1>1, <1>2, <1>3, Appended DEF Queue, RevealsAfterList, ListTaken, ToCome, Is
  <1>7. Grown
    <2>1. ListTaken' <=> ListTaken
      BY <1>1, <1>2, <1>3, Appended DEF ListTaken, Is
    <2>2. \A s \in Status : Unseen(s) => Unseen(s)'
      BY <1>1, <1>2, <1>3, Appended DEF Unseen, Is
    <2>3. \A q \in live'.revealed : (q \in live.revealed /\ ~ToCome(q)) \/ ToCome(q)'
      BY <1>1, <1>2, <1>3, Appended DEF ToCome, Is
    <2> QED BY <1>1, <1>2, <2>1, <2>2, <2>3, Appended DEF Grown
  <1> QED BY <1>4, <1>5, <1>6, <1>7 DEF Queue

LEMMA ListQueue ==
  ASSUME Typed, Queue, CommitmentComplete
  PROVE  Queue' /\ Grown
  <1> DEFINE u == [type |-> "CommitmentComplete"]
  <1>1. /\ updates \in Seq(Update) /\ u \in Update /\ updates' = Append(updates, u)
        /\ live' = [live EXCEPT !.cc = TRUE] /\ live \in Live
        /\ live.stage = "on" /\ ~live.cc /\ listed' = listed
    BY Announcements DEF Typed, CommitmentComplete, Announce, unchangedByGame
  <1>2. /\ live' \in Live
        /\ live'.committed = live.committed /\ live'.cc = TRUE
        /\ live'.stage = live.stage /\ live'.revealed = live.revealed
    BY <1>1 DEF Live
  <1>3. u.type = "CommitmentComplete"
    OBVIOUS
  <1>4. live.revealed = {}
    BY <1>1 DEF Queue, InSequence
  <1> HIDE DEF u
  <1>5. CommitsOnce'
    BY <1>1, <1>2, <1>3, Appended DEF Queue, CommitsOnce, Is
  <1>6. InSequence'
    BY <1>1, <1>2, <1>3, <1>4, Appended DEF Queue, InSequence, Is
  <1>7. RevealsAfterList'
    BY <1>2, <1>4 DEF RevealsAfterList
  <1>8. Grown
    <2>1. ListTaken' <=> ListTaken
      BY <1>1, <1>2, <1>3, Appended DEF ListTaken, Is
    <2>2. \A s \in Status : Unseen(s) => Unseen(s)'
      BY <1>1, <1>2, <1>3, Appended DEF Unseen, Is
    <2>3. \A q \in live'.revealed : (q \in live.revealed /\ ~ToCome(q)) \/ ToCome(q)'
      BY <1>1, <1>2, <1>3, Appended DEF ToCome, Is
    <2> QED BY <1>1, <1>2, <2>1, <2>2, <2>3, Appended DEF Grown
  <1> QED BY <1>5, <1>6, <1>7, <1>8 DEF Queue

LEMMA RevealQueue ==
  ASSUME Typed, Queue, NEW p \in Players, Reveal(p)
  PROVE  Queue' /\ Grown
  <1> DEFINE u == [type |-> "Reveal", player |-> p]
  <1>1. /\ updates \in Seq(Update) /\ u \in Update /\ updates' = Append(updates, u)
        /\ live' = [live EXCEPT !.revealed = @ \cup {p}] /\ live \in Live
        /\ live.stage = "on" /\ live.cc /\ p \in listed /\ listed' = listed
    BY Announcements DEF Typed, Reveal, Announce, unchangedByGame
  <1>2. /\ live' \in Live
        /\ live'.committed = live.committed /\ live'.cc = live.cc
        /\ live'.stage = live.stage /\ live'.revealed = live.revealed \cup {p}
    BY <1>1 DEF Live
  <1>3. u.type = "Reveal" /\ u.player = p
    OBVIOUS
  <1> HIDE DEF u
  <1>4. CommitsOnce'
    BY <1>1, <1>2, <1>3, Appended DEF Queue, CommitsOnce, Is
  <1>5. InSequence'
    BY <1>1, <1>2, <1>3, Appended DEF Queue, InSequence, Is
  <1>6. RevealsAfterList'
    BY <1>1, <1>2, <1>3, Appended DEF Queue, RevealsAfterList, ListTaken, ToCome, Is
  <1>7. Grown
    <2>1. ListTaken' <=> ListTaken
      BY <1>1, <1>2, <1>3, Appended DEF ListTaken, Is
    <2>2. \A s \in Status : Unseen(s) => Unseen(s)'
      BY <1>1, <1>2, <1>3, Appended DEF Unseen, Is
    <2>3. \A q \in live'.revealed : (q \in live.revealed /\ ~ToCome(q)) \/ ToCome(q)'
      BY <1>1, <1>2, <1>3, Appended DEF ToCome, Is
    <2> QED BY <1>1, <1>2, <2>1, <2>2, <2>3, Appended DEF Grown
  <1> QED BY <1>4, <1>5, <1>6, <1>7 DEF Queue

LEMMA ResultQueue ==
  ASSUME Typed, Queue, GameResult
  PROVE  Queue' /\ Grown
  <1> DEFINE u == [type |-> "Result"]
  <1>1. /\ updates \in Seq(Update) /\ u \in Update /\ updates' = Append(updates, u)
        /\ live' = [live EXCEPT !.stage = "over"] /\ live \in Live
        /\ live.stage = "on" /\ live.revealed = listed /\ listed' = listed
    BY Announcements DEF Typed, GameResult, Announce, unchangedByGame
  <1>2. /\ live' \in Live
        /\ live'.committed = live.committed /\ live'.cc = live.cc
        /\ live'.stage = "over" /\ live'.revealed = live.revealed
    BY <1>1 DEF Live
  <1>3. u.type = "Result"
    OBVIOUS
  <1> HIDE DEF u
  <1>4. CommitsOnce'
    BY <1>1, <1>2, <1>3, Appended DEF Queue, CommitsOnce, Is
  <1>5. InSequence'
    BY <1>1, <1>2, <1>3, Appended DEF Queue, InSequence, Is
  <1>6. RevealsAfterList'
    BY <1>1, <1>2, <1>3, Appended DEF Queue, RevealsAfterList, ListTaken, ToCome, Is
  <1>7. Grown
    <2>1. ListTaken' <=> ListTaken
      BY <1>1, <1>2, <1>3, Appended DEF ListTaken, Is
    <2>2. \A s \in Status : Unseen(s) => Unseen(s)'
      BY <1>1, <1>2, <1>3, Appended DEF Unseen, Is
    <2>3. \A q \in live'.revealed : (q \in live.revealed /\ ~ToCome(q)) \/ ToCome(q)'
      BY <1>1, <1>2, <1>3, Appended DEF ToCome, Is
    <2> QED BY <1>1, <1>2, <2>1, <2>2, <2>3, Appended DEF Grown
  <1> QED BY <1>4, <1>5, <1>6, <1>7 DEF Queue

LEMMA ErrorQueue ==
  ASSUME Typed, Queue, GameError \/ Refusal
  PROVE  Queue' /\ Grown
  <1> DEFINE u == [type |-> "Err"]
  <1>1. /\ updates \in Seq(Update) /\ u \in Update /\ updates' = Append(updates, u)
        /\ live \in Live /\ listed' = listed
    BY Announcements DEF Typed, GameError, Refusal, Announce, unchangedByGame
  <1>2. /\ live' \in Live
        /\ live'.committed = live.committed /\ live'.cc = live.cc
        /\ live.stage = "over" => live'.stage = "over"
        /\ live'.revealed = live.revealed
    BY <1>1 DEF Live, GameError, Refusal
  <1>3. u.type = "Err"
    OBVIOUS
  <1> HIDE DEF u
  <1>4. CommitsOnce'
    BY <1>1, <1>2, <1>3, Appended DEF Queue, CommitsOnce, Is
  <1>5. InSequence'
    BY <1>1, <1>2, <1>3, Appended DEF Queue, InSequence, Is
  <1>6. RevealsAfterList'
    BY <1>1, <1>2, <1>3, Appended DEF Queue, RevealsAfterList, ListTaken, ToCome, Is
  <1>7. Grown
    <2>1. ListTaken' <=> ListTaken
      BY <1>1, <1>2, <1>3, Appended DEF ListTaken, Is
    <2>2. \A s \in Status : Unseen(s) => Unseen(s)'
      BY <1>1, <1>2, <1>3, Appended DEF Unseen, Is
    <2>3. \A q \in live'.revealed : (q \in live.revealed /\ ~ToCome(q)) \/ ToCome(q)'
      BY <1>1, <1>2, <1>3, Appended DEF ToCome, Is
    <2> QED BY <1>1, <1>2, <2>1, <2>2, <2>3, Appended DEF Grown
  <1> QED BY <1>4, <1>5, <1>6, <1>7 DEF Queue

LEMMA ReadQueue ==
  ASSUME Typed, Queue, UpdateRead
  PROVE  Queue'
  <1>1. /\ updates \in Seq(Update) /\ updates # << >> /\ updates' = Tail(updates)
        /\ live' = live /\ listed' = listed
    BY DEF Typed, UpdateRead
  <1>2. CommitsOnce'
    BY <1>1, Taken DEF Queue, CommitsOnce, Is
  <1>3. InSequence'
    BY <1>1, Taken DEF Queue, InSequence, Is
  <1>4. RevealsAfterList'
    <2> SUFFICES ASSUME (live.cc /\ ~ListTaken)', NEW q \in live.revealed
                 PROVE  ToCome(q)'
      BY <1>1 DEF RevealsAfterList
    <2>1. PICK i \in 1..Len(updates') : updates'[i].type = "CommitmentComplete"
      BY <1>1 DEF ListTaken, Is
    <2>2. i + 1 \in 2..Len(updates) /\ Is(i + 1, "CommitmentComplete")
      BY <1>1, <2>1, Taken DEF Is
    <2>3. live.cc /\ ~ListTaken
      BY <1>1, <2>2, Taken DEF ListTaken
    <2>4. PICK j \in 1..Len(updates) : Is(j, "Reveal") /\ updates[j].player = q
      BY <2>3 DEF Queue, RevealsAfterList, ToCome
    <2>5. j \in 2..Len(updates)
      BY <1>1, <2>2, <2>4, Taken DEF Queue, InSequence
    <2>6. j - 1 \in 1..Len(updates') /\ updates'[j - 1] = updates[j]
      BY <1>1, <2>5, Taken
    <2>7. updates'[j - 1].type = "Reveal" /\ updates'[j - 1].player = q
      BY <2>4, <2>6 DEF Is
    <2> QED BY <2>6, <2>7 DEF ToCome, Is
  <1> QED BY <1>2, <1>3, <1>4 DEF Queue

(* What updateLoop learns from taking the first update.                    *)
LEMMA ReadLearns ==
  ASSUME Typed, Queue, UpdateRead
  PROVE  LET u == Head(updates) IN
         /\ u \in Update /\ updates' \in Seq(Update)
         /\ ListTaken' <=> ListTaken \/ u.type = "CommitmentComplete"
         /\ u.type = "CommitmentComplete" =>
              ~ListTaken /\ \A p \in live.revealed : ToCome(p)
         /\ u.type \in {"Reveal", "Result"} => ListTaken
         /\ u.type = "Reveal" => u.player \in listed
         /\ u.type = "Result" => live.revealed = listed /\ \A p \in listed : ~ToCome(p)
         /\ \A s \in Status : Unseen(s) => Unseen(s)'
         /\ \A p \in live.revealed :
              ToCome(p) => ToCome(p)' \/ (u.type = "Reveal" /\ u.player = p)
  <1> DEFINE u == Head(updates)
  <1>1. /\ updates \in Seq(Update) /\ updates # << >> /\ updates' = Tail(updates)
        /\ live' = live /\ listed' = listed /\ listed # {}
    BY DEF Typed, UpdateRead
  <1>2. u = updates[1] /\ 1 \in 1..Len(updates) /\ u \in Update /\ updates' \in Seq(Update)
    BY <1>1, Taken
  <1> HIDE DEF u
  <1>3. ListTaken' <=> ListTaken \/ u.type = "CommitmentComplete"
    <2>1. u.type = "CommitmentComplete" => live.cc
      BY <1>2 DEF Queue, InSequence, Is
    <2>2. CASE u.type = "CommitmentComplete"
      <3>1. \A i \in 2..Len(updates) : ~Is(i, "CommitmentComplete")
        BY <1>1, <1>2, <2>2, Taken DEF Queue, InSequence, Is
      <3> QED BY <1>1, <2>1, <2>2, <3>1, Taken DEF ListTaken, Is
    <2>3. CASE u.type # "CommitmentComplete"
      <3>1. \A i \in 1..Len(updates') : Is(i, "CommitmentComplete")' =>
              i + 1 \in 1..Len(updates) /\ Is(i + 1, "CommitmentComplete")
        BY <1>1, Taken DEF Is
      <3>2. \A i \in 1..Len(updates) : Is(i, "CommitmentComplete") =>
              i - 1 \in 1..Len(updates') /\ Is(i - 1, "CommitmentComplete")'
        BY <1>1, <1>2, <2>3, Taken DEF Is
      <3> QED BY <1>1, <2>3, <3>1, <3>2 DEF ListTaken
    <2> QED BY <2>2, <2>3
  <1>4. u.type = "CommitmentComplete" => ~ListTaken /\ \A p \in live.revealed : ToCome(p)
    BY <1>2 DEF Queue, InSequence, RevealsAfterList, ListTaken, Is
  <1>5. u.type \in {"Reveal", "Result"} => ListTaken
    <2> SUFFICES ASSUME u.type \in {"Reveal", "Result"} PROVE ListTaken
      OBVIOUS
    <2>1. live.revealed # {}
      BY <1>1, <1>2 DEF Queue, InSequence, Is
    <2>2. live.cc
      BY <2>1 DEF Queue, InSequence
    <2>3. \A i \in 1..Len(updates) : ~Is(i, "CommitmentComplete")
      BY <1>2 DEF Queue, InSequence, Is
    <2> QED BY <2>2, <2>3 DEF ListTaken
  <1>6. u.type = "Reveal" => u.player \in listed
    BY <1>2 DEF Queue, InSequence, Is
  <1>7. u.type = "Result" => live.revealed = listed /\ \A p \in listed : ~ToCome(p)
    BY <1>2 DEF Queue, InSequence, ToCome, Is
  <1>8. \A s \in Status : Unseen(s) => Unseen(s)'
    BY <1>1, Taken DEF Unseen, Is
  <1>9. \A p \in live.revealed : ToCome(p) => ToCome(p)' \/ (u.type = "Reveal" /\ u.player = p)
    <2> SUFFICES ASSUME NEW p \in live.revealed, ToCome(p), ~(u.type = "Reveal" /\ u.player = p)
                 PROVE  ToCome(p)'
      OBVIOUS
    <2>1. PICK i \in 1..Len(updates) : Is(i, "Reveal") /\ updates[i].player = p
      BY DEF ToCome
    <2>2. i \in 2..Len(updates)
      BY <1>1, <1>2, <2>1, Taken DEF Is
    <2> QED BY <1>1, <2>1, <2>2, Taken DEF ToCome, Is
  <1> QED BY <1>2, <1>3, <1>4, <1>5, <1>6, <1>7, <1>8, <1>9 DEF u

(* A commitment that is taken is of a device the status does not have.     *)
LEMMA ReadCommitment ==
  ASSUME Typed, Queue, UpdateRead, Head(updates).type = "Commitment"
  PROVE  LET p == Head(updates).player IN
         /\ p \in live.committed
         /\ \A i \in 1..Len(updates') : Is(i, "Commitment")' => updates'[i].player # p
         /\ \A s \in Status : Unseen(s) /\ s.phase = "COMMITMENT" =>
              \A k \in 1..Len(s.parts) : s.parts[k] # p
  <1>1. /\ updates \in Seq(Update) /\ updates # << >> /\ updates' = Tail(updates)
    BY DEF Typed, UpdateRead
  <1>2. Head(updates) = updates[1] /\ 1 \in 1..Len(updates) /\ Is(1, "Commitment")
    BY <1>1, Taken DEF Is
  <1>3. Head(updates).player \in live.committed
    BY <1>2 DEF Queue, CommitsOnce
  <1>4. \A i \in 1..Len(updates') : Is(i, "Commitment")' => updates'[i].player # Head(updates).player
    BY <1>1, <1>2, Taken DEF Queue, CommitsOnce, Is
  <1>5. \A s \in Status : Unseen(s) /\ s.phase = "COMMITMENT" =>
          \A k \in 1..Len(s.parts) : s.parts[k] # Head(updates).player
    BY <1>2 DEF Unseen
  <1> QED BY <1>3, <1>4, <1>5

-----------------------------------------------------------------------------
(* The game goes on: it touches nothing but the queue.                     *)
LEMMA GameStep ==
  ASSUME Inv, Game
  PROVE  Inv'
  <1> USE DEF Inv
  <1>1. Queue' /\ Grown
    BY RegisterQueue, CommitmentQueue, ListQueue, RevealQueue, ResultQueue, ErrorQueue DEF Game
  <1>2. unchangedByGame
    BY DEF Game, Register, CommitmentComplete, GameResult, GameError, Refusal, Commitment, Reveal
  <1> USE <1>2 DEF unchangedByGame
  <1>3. Typed'
    BY <1>1 DEF Typed, Grown
  <1>4. Slots' /\ InUse'
    BY <1>1 DEF Slots, InUse, Grown
  <1>5. Members'
    <2>1. games # None => Unseen(games)'
      BY <1>1 DEF Typed, Members, Grown
    <2>2. Unseen(update.status)'
      BY <1>1 DEF Typed, Members, Grown
    <2> QED BY <2>1, <2>2 DEF Members, Injective
  <1>6. Shown'
    BY <1>1 DEF Shown, Undisturbed, CompleteOK, ShowsAll, Lists, CurrentOK, Current, Grown
  <1>7. Told'
    BY DEF Told, View
  <1> QED BY <1>1, <1>3, <1>4, <1>5, <1>6, <1>7

-----------------------------------------------------------------------------
(* updateLoop takes an update: one lemma for each kind.                    *)

(* The status it finds in the cache.                                       *)
Found == IF games = None THEN NoStatus ELSE games

LEMMA FoundOK ==
  ASSUME Inv
  PROVE  Found \in Status /\ Unseen(Found) /\ Injective(Found.parts) /\ Found.arr <= used
  <1>1. NoStatus \in Status /\ NoStatus.arr <= used /\ Len(NoStatus.parts) = 0
    BY MaxLoadsAssumption DEF Inv, Typed, NoStatus, Status, Arrays
  <1>2. Unseen(NoStatus) /\ Injective(NoStatus.parts)
    BY <1>1 DEF Unseen, Injective
  <1> QED BY <1>1, <1>2 DEF Inv, Typed, Members, InUse, Found

(* What is to be shown of the new status and the arrays.                   *)
LEMMA ReadStep ==
  ASSUME Inv, UpdateRead,
         NEW t \in Status, update' = [pc |-> "add", status |-> t],
         Unseen(t)', Injective(t.parts), t.arr <= used',
         used' \in Arrays, used <= used', array' \in [Arrays -> SUBSET listed],
         Slots', Shown'
  PROVE  Inv'
  <1> USE DEF Inv
  <1>1. UNCHANGED <<listed, live, games, dirty, force, jobs, load, delayed, loads, notify, ui>>
    BY DEF UpdateRead
  <1>2. update'.pc = "add" /\ update'.status = t
    OBVIOUS
  <1>3. Queue'
    BY ReadQueue
  <1>4. Typed'
    BY <1>1, ReadLearns DEF Typed
  <1>5. InUse'
    <2>1. \A a \in Arrays : a <= used => a <= used'
      BY MaxLoadsAssumption DEF Typed, Arrays
    <2>2. games # None => games.arr \in Arrays
      BY DEF Typed, Status
    <2>3. \A k \in Loads : delayed[k].arr \in Arrays
      BY DEF Typed, Waiting
    <2> QED BY <1>1, <1>2, <2>1, <2>2, <2>3 DEF InUse
  <1>6. Members'
    <2>1. games # None => Unseen(games)'
      BY <1>1, ReadLearns DEF Typed, Members
    <2> QED BY <1>1, <1>2, <2>1 DEF Members, Injective
  <1>7. Told'
    BY <1>2 DEF Told
  <1> QED BY <1>3, <1>4, <1>5, <1>6, <1>7

(* An update other than the list keeps the participants of a status that   *)
(* has the list, and every secret that was shown.                          *)
LEMMA ReadShows ==
  ASSUME Inv, UpdateRead, Head(updates).type # "CommitmentComplete",
         NEW t \in Status, update' = [pc |-> "add", status |-> t],
         array' \in [Arrays -> SUBSET listed], \A a \in Arrays : array[a] \subseteq array'[a],
         Head(updates).type = "Reveal" /\ games # None =>
           {Head(updates).player} \cap ToSet(games.parts) \subseteq array'[games.arr],
         games # None /\ games.phase # "COMMITMENT" =>
           t.phase # "COMMITMENT" /\ t.parts = games.parts /\ t.arr = games.arr,
         Undisturbed => CompleteOK(t)'
  PROVE  Shown'
  <1>1. /\ UNCHANGED <<listed, live, games, jobs, loads, delayed>>
        /\ update.pc = "idle" /\ update'.pc = "add" /\ update'.status = t
    BY DEF UpdateRead
  <1> SUFFICES ASSUME Undisturbed
               PROVE  (games # None => CompleteOK(games)') /\ CurrentOK'
    BY <1>1 DEF Shown, Undisturbed
  <1>2. games # None => CompleteOK(games)'
    <2> SUFFICES ASSUME games # None, games.phase = "COMPLETE"
                 PROVE  Lists(games) /\ array'[games.arr] = listed
      BY <1>1 DEF CompleteOK, ShowsAll, Lists
    <2>1. Lists(games) /\ array[games.arr] = listed
      BY DEF Inv, Shown, CompleteOK, ShowsAll
    <2>2. games.arr \in Arrays
      BY DEF Inv, Typed, Status
    <2> QED BY <2>1, <2>2
  <1>3. CurrentOK'
    <2> SUFFICES ASSUME ListTaken'
                 PROVE  (/\ Current # None /\ Current.phase # "COMMITMENT" /\ Lists(Current)
                         /\ \A p \in live.revealed : ToCome(p) \/ p \in array[Current.arr])'
      BY DEF CurrentOK
    <2>1. ListTaken /\ Current = games /\ Current' = t
      BY <1>1, ReadLearns DEF Inv, Current
    <2>2. /\ games # None /\ games.phase # "COMMITMENT" /\ Lists(games)
          /\ \A p \in live.revealed : ToCome(p) \/ p \in array[games.arr]
      BY <2>1 DEF Inv, Shown, CurrentOK
    <2>3. t # None /\ t.phase # "COMMITMENT" /\ t.parts = games.parts /\ t.arr = games.arr
      BY <2>2, NoneAssumption
    <2>4. games.arr \in Arrays
      BY <2>2 DEF Inv, Typed, Status
    <2>5. ASSUME NEW p \in live.revealed
          PROVE  ToCome(p)' \/ p \in array'[games.arr]
      <3>1. CASE p \in array[games.arr]
        BY <2>4, <3>1
      <3>2. CASE ToCome(p)
        <4>1. ToCome(p)' \/ (Head(updates).type = "Reveal" /\ Head(updates).player = p)
          BY <3>2, ReadLearns DEF Inv
        <4>2. p \in ToSet(games.parts)
          BY <2>2 DEF Lists, Inv, Queue, InSequence
        <4> QED BY <2>2, <4>1, <4>2
      <3> QED BY <2>2, <3>1, <3>2
    <2> QED BY <1>1, <2>1, <2>2, <2>3, <2>5 DEF Lists
  <1> QED BY <1>2, <1>3

LEMMA ReadErr ==
  ASSUME Inv, UpdateRead, Head(updates).type = "Err"
  PROVE  Inv'
  <1>1. PICK t \in Status : t = [Found EXCEPT !.phase = "ERROR"]
    BY FoundOK DEF Status
  <1>2. /\ update' = [pc |-> "add", status |-> t] /\ UNCHANGED <<array, used>>
        /\ UNCHANGED <<jobs, loads, delayed>>
    BY <1>1 DEF UpdateRead, handleUpdate, addReveal, Found
  <1>3. t.phase = "ERROR" /\ t.parts = Found.parts /\ t.arr = Found.arr
    BY <1>1, FoundOK DEF Status
  <1>4. Unseen(t)' /\ Injective(t.parts)
    BY <1>3, FoundOK DEF Unseen
  <1>5. Slots'
    BY <1>2, ReadLearns DEF Inv, Slots
  <1>6. /\ t.arr <= used' /\ used' \in Arrays /\ used <= used'
        /\ array' \in [Arrays -> SUBSET listed]
    BY <1>2, <1>3, FoundOK, MaxLoadsAssumption DEF Inv, Typed, Arrays
  <1>7. Shown'
    <2>1. CompleteOK(t)'
      BY <1>3 DEF CompleteOK
    <2> QED BY <1>2, <1>3, <1>6, <2>1, ReadShows DEF Found
  <1> QED BY <1>2, <1>4, <1>5, <1>6, <1>7, ReadStep

LEMMA ReadACommitment ==
  ASSUME Inv, UpdateRead, Head(updates).type = "Commitment"
  PROVE  Inv'
  <1> DEFINE p == Head(updates).player
  <1>1. p \in Players
    <2>1. Head(updates) \in Update
      BY ReadLearns DEF Inv
    <2> QED BY <2>1 DEF Update
  <1> HIDE DEF p
  <1>2. PICK t \in Status :
          t = IF Found.phase = "COMMITMENT" THEN addParticipant(Found, p) ELSE Found
    <2>1. Found \in Status
      BY FoundOK
    <2>2. Append(Found.parts, p) \in Seq(Players)
      BY <1>1, <2>1 DEF Status
    <2>3. addParticipant(Found, p) \in Status
      BY <2>1, <2>2 DEF Status, addParticipant
    <2> QED BY <2>1, <2>3
  <1>3. /\ update' = [pc |-> "add", status |-> t] /\ UNCHANGED <<array, used>>
        /\ UNCHANGED <<live, jobs, loads, delayed>>
    BY <1>2 DEF UpdateRead, handleUpdate, addReveal, Found, p
  <1>4. /\ t.phase = Found.phase /\ t.arr = Found.arr
        /\ t.parts = IF Found.phase = "COMMITMENT" THEN Append(Found.parts, p) ELSE Found.parts
        /\ Found.parts \in Seq(Players)
    BY <1>2, FoundOK DEF Status, addParticipant
  <1>5. Unseen(t)' /\ Injective(t.parts)
    <2>1. CASE Found.phase = "COMMITMENT"
      <3> DEFINE n == Len(Found.parts)
      <3>1. /\ n \in Nat /\ Len(t.parts) = n + 1
            /\ \A k \in 1..(n + 1) : k \in 1..n \/ k = n + 1
            /\ \A k \in 1..n : t.parts[k] = Found.parts[k]
            /\ t.parts[n + 1] = p
        BY <1>1, <1>4, <2>1
      <3>2. /\ p \in live.committed
            /\ \A i \in 1..Len(updates') : Is(i, "Commitment")' => updates'[i].player # p
            /\ \A k \in 1..n : Found.parts[k] # p
        BY <2>1, ReadCommitment, FoundOK DEF Inv, p
      <3>3. \A k \in 1..n : /\ Found.parts[k] \in live.committed
                            /\ \A i \in 1..Len(updates') :
                                 Is(i, "Commitment")' => updates'[i].player # Found.parts[k]
        <4>1. \A s \in Status : Unseen(s) => Unseen(s)'
          BY ReadLearns DEF Inv
        <4>2. PICK f \in Status : f = Found
          BY FoundOK
        <4>3. Unseen(f)' /\ f.phase = "COMMITMENT"
          BY <2>1, <4>1, <4>2, FoundOK
        <4> QED BY <1>3, <4>2, <4>3 DEF Unseen
      <3> HIDE DEF n
      <3>4. Unseen(t)'
        BY <1>3, <3>1, <3>2, <3>3 DEF Unseen
      <3>5. Injective(t.parts)
        BY <3>1, <3>2, FoundOK DEF Injective, n
      <3> QED BY <3>4, <3>5
    <2>2. CASE Found.phase # "COMMITMENT"
      BY <1>4, <2>2, FoundOK DEF Unseen
    <2> QED BY <2>1, <2>2
  <1>6. Slots'
    BY <1>3, ReadLearns DEF Inv, Slots
  <1>7. /\ t.arr <= used' /\ used' \in Arrays /\ used <= used'
        /\ array' \in [Arrays -> SUBSET listed]
    BY <1>3, <1>4, FoundOK, MaxLoadsAssumption DEF Inv, Typed, Arrays
  <1>8. Shown'
    <2>1. Undisturbed => CompleteOK(t)'
      <3> SUFFICES ASSUME Undisturbed, t.phase = "COMPLETE"
                   PROVE  ToSet(t.parts) = listed /\ array[t.arr] = listed
        BY <1>3 DEF CompleteOK, ShowsAll, Lists, UpdateRead
      <3>1. games # None /\ t.parts = games.parts /\ t.arr = games.arr /\ games.phase = "COMPLETE"
        BY <1>4 DEF Found, NoStatus
      <3> QED BY <3>1 DEF Inv, Shown, CompleteOK, ShowsAll, Lists
    <2> QED BY <1>3, <1>4, <1>7, <2>1, ReadShows DEF Found
  <1> QED BY <1>3, <1>5, <1>6, <1>7, <1>8, ReadStep

LEMMA ReadResult ==
  ASSUME Inv, UpdateRead, Head(updates).type = "Result"
  PROVE  Inv'
  <1>1. PICK t \in Status : t \in addResult(Found) /\ update' = [pc |-> "add", status |-> t]
    <2>1. \A t \in addResult(Found) : t \in Status
      BY FoundOK DEF Status, addResult
    <2> QED BY <2>1 DEF UpdateRead, handleUpdate, Found
  <1>2. UNCHANGED <<array, used, listed, jobs, loads, delayed>>
    BY DEF UpdateRead, addReveal
  <1>3. /\ t.phase \in {"COMPLETE", "ERROR"}
        /\ t.parts = Found.parts /\ t.arr = Found.arr
    BY <1>1, FoundOK DEF Status, addResult
  <1>4. Unseen(t)' /\ Injective(t.parts)
    BY <1>3, FoundOK DEF Unseen
  <1>5. Slots'
    BY <1>2, ReadLearns DEF Inv, Slots
  <1>6. /\ t.arr <= used' /\ used' \in Arrays /\ used <= used'
        /\ array' \in [Arrays -> SUBSET listed]
    BY <1>2, <1>3, FoundOK, MaxLoadsAssumption DEF Inv, Typed, Arrays
  <1>7. Shown'
    <2>1. ASSUME Undisturbed
          PROVE  CompleteOK(t)'
      <3>1. ListTaken /\ live.revealed = listed /\ \A p \in listed : ~ToCome(p)
        BY ReadLearns DEF Inv
      <3>2. Current = games
        BY DEF Current, UpdateRead
      <3>3. games # None /\ Lists(games) /\ listed \subseteq array[games.arr]
        BY <2>1, <3>1, <3>2 DEF Inv, Shown, CurrentOK
      <3>4. array[games.arr] = listed
        BY <3>3 DEF Inv, Typed, Status
      <3> QED BY <1>2, <1>3, <3>3, <3>4 DEF CompleteOK, ShowsAll, Lists, Found
    <2> QED BY <1>1, <1>2, <1>3, <1>6, <2>1, ReadShows DEF Found
  <1> QED BY <1>1, <1>4, <1>5, <1>6, <1>7, ReadStep

LEMMA ReadReveal ==
  ASSUME Inv, UpdateRead, Head(updates).type = "Reveal"
  PROVE  Inv'
  <1> DEFINE r == {Head(updates).player} \cap ToSet(Found.parts)
  <1>1. PICK t \in Status : t = Found
    BY FoundOK
  <1>2. /\ update' = [pc |-> "add", status |-> t] /\ UNCHANGED <<listed, used, jobs, loads, delayed>>
        /\ array' = [array EXCEPT ![t.arr] = @ \cup r]
    BY <1>1 DEF UpdateRead, handleUpdate, addReveal, Found
  <1>3. r \subseteq listed
    BY ReadLearns DEF Inv
  <1> HIDE DEF r
  <1>4. /\ array \in [Arrays -> SUBSET listed] /\ array' \in [Arrays -> SUBSET listed]
        /\ \A a \in Arrays : array[a] \subseteq array'[a]
        /\ r \subseteq array'[t.arr]
    BY <1>2, <1>3 DEF Inv, Typed, Status
  <1>5. Unseen(t)' /\ Injective(t.parts)
    BY <1>1, FoundOK, ReadLearns DEF Inv
  <1>6. Slots'
    BY <1>2, ReadLearns DEF Inv, Slots
  <1>7. t.arr <= used' /\ used' \in Arrays /\ used <= used'
    BY <1>1, <1>2, FoundOK, MaxLoadsAssumption DEF Inv, Typed, Arrays
  <1>8. Shown'
    <2>1. ASSUME Undisturbed
          PROVE  CompleteOK(t)'
      <3> SUFFICES ASSUME t.phase = "COMPLETE"
                   PROVE  ToSet(t.parts) = listed /\ array'[t.arr] = listed
        BY <1>2 DEF CompleteOK, ShowsAll, Lists
      <3>1. games # None /\ t = games
        BY <1>1 DEF Found, NoStatus
      <3>2. ToSet(t.parts) = listed /\ array[t.arr] = listed
        BY <2>1, <3>1 DEF Inv, Shown, CompleteOK, ShowsAll, Lists
      <3>3. t.arr \in Arrays
        BY DEF Status
      <3> QED BY <1>4, <3>2, <3>3
    <2> QED BY <1>1, <1>2, <1>4, <2>1, ReadShows DEF Found, r
  <1> QED BY <1>2, <1>4, <1>5, <1>6, <1>7, <1>8, ReadStep

(* finalizeParticipants: the listed devices, each once, in a new array.    *)
LEMMA FinalizeOK ==
  ASSUME Typed, NEW s \in Status, Injective(s.parts)
  PROVE  LET t == finalizeParticipants(s) IN
         /\ t = [phase |-> s.phase, parts |-> t.parts, arr |-> used + 1]
         /\ t.parts \in Seq(Players) /\ Injective(t.parts) /\ ToSet(t.parts) = listed
  <1> DEFINE f == Select(s.parts, listed)
             g == SetToSeq(listed \ ToSet(f))
             t == finalizeParticipants(s)
  <1>1. s.parts \in Seq(Players)
    BY DEF Status
  <1>2. f \in Seq(Players) /\ Injective(f) /\ ToSet(f) = ToSet(s.parts) \cap listed
    BY <1>1, SelectKeeps DEF f
  <1>3. IsFiniteSet(listed \ ToSet(f)) /\ listed \in SUBSET Players
    BY PlayersAssumption, FS_Subset DEF Typed
  <1>4. g \in Seq(listed \ ToSet(f)) /\ Injective(g) /\ ToSet(g) = listed \ ToSet(f)
    BY <1>3, SetToSeqOK
  <1>5. t = [s EXCEPT !.parts = f \o g, !.arr = used + 1]
    BY DEF finalizeParticipants
  <1> HIDE DEF f, g, t
  <1>6. t = [phase |-> s.phase, parts |-> f \o g, arr |-> used + 1]
    BY <1>5 DEF Status
  <1>7. g \in Seq(Players)
    BY <1>3, <1>4
  <1>8. f \o g \in Seq(Players) /\ Injective(f \o g) /\ ToSet(f \o g) = listed
    <2>1. ToSet(f) \cap ToSet(g) = {}
      BY <1>4
    <2>2. ToSet(f) \cup ToSet(g) = listed
      BY <1>2, <1>4
    <2>3. /\ f \o g \in Seq(Players) /\ Injective(f \o g)
          /\ ToSet(f \o g) = ToSet(f) \cup ToSet(g)
      <3>1. PICK a \in Seq(Players), b \in Seq(Players) : a = f /\ b = g
        BY <1>2, <1>7
      <3>2. Injective(a) /\ Injective(b) /\ ToSet(a) \cap ToSet(b) = {}
        BY <1>2, <1>4, <2>1, <3>1
      <3>3. a \o b \in Seq(Players) /\ Injective(a \o b) /\ ToSet(a \o b) = ToSet(a) \cup ToSet(b)
        BY <3>2, ConcatenationKeeps
      <3> QED BY <3>1, <3>3
    <2> QED BY <2>2, <2>3
  <1> QED BY <1>6, <1>8 DEF t

LEMMA ReadList ==
  ASSUME Inv, UpdateRead, Head(updates).type = "CommitmentComplete"
  PROVE  Inv'
  <1>1. ~ListTaken /\ ListTaken' /\ \A p \in live.revealed : ToCome(p)'
    BY ReadLearns DEF Inv
  <1>2. /\ used \in Nat /\ jobs \in Nat /\ loads \in 0..MaxLoads /\ used + jobs <= loads
        /\ used + 1 \in Arrays /\ used \in Arrays
    BY <1>1, MaxLoadsAssumption DEF Inv, Typed, Slots, Arrays
  <1>3. PICK t \in Status : t = [finalizeParticipants(Found) EXCEPT !.phase = "REVEALS"]
    <2> DEFINE q == finalizeParticipants(Found)
    <2>1. /\ q = [phase |-> Found.phase, parts |-> q.parts, arr |-> used + 1]
          /\ q.parts \in Seq(Players) /\ Found \in Status
      BY FoundOK, FinalizeOK DEF Inv
    <2> HIDE DEF q
    <2>2. [q EXCEPT !.phase = "REVEALS"] \in Status
      BY <1>2, <2>1 DEF Status
    <2> QED BY <2>2 DEF q
  <1>4. /\ update' = [pc |-> "add", status |-> t] /\ used' = used + 1
        /\ array' = [array EXCEPT ![used + 1] = array[Found.arr] \cap listed]
        /\ UNCHANGED <<listed, live, games, jobs, loads, delayed>>
    BY <1>3 DEF UpdateRead, handleUpdate, addReveal, Found
  <1>5. /\ t.phase = "REVEALS" /\ t.arr = used + 1
        /\ Injective(t.parts) /\ ToSet(t.parts) = listed
    BY <1>3, FoundOK, FinalizeOK DEF Inv
  <1>6. Unseen(t)'
    BY <1>5 DEF Unseen
  <1>7. Slots'
    BY <1>1, <1>2, <1>4 DEF Inv, Slots
  <1>8. /\ t.arr <= used' /\ used' \in Arrays /\ used <= used'
        /\ array' \in [Arrays -> SUBSET listed]
    BY <1>2, <1>4, <1>5, FoundOK DEF Inv, Typed
  <1>9. Shown'
    <2> SUFFICES ASSUME Undisturbed
                 PROVE  (games # None => CompleteOK(games)') /\ CompleteOK(t)' /\ CurrentOK'
      BY <1>4 DEF Shown, Undisturbed
    <2>1. games # None => CompleteOK(games)'
      <3> SUFFICES ASSUME games # None, games.phase = "COMPLETE"
                   PROVE  Lists(games) /\ array'[games.arr] = listed
        BY <1>4 DEF CompleteOK, ShowsAll, Lists
      <3>1. Lists(games) /\ array[games.arr] = listed
        BY DEF Inv, Shown, CompleteOK, ShowsAll
      <3>2. games.arr \in Arrays /\ games.arr <= used
        BY DEF Inv, Typed, Status, InUse
      <3>3. games.arr # used + 1
        BY <1>2, <3>2, MaxLoadsAssumption DEF Arrays
      <3> QED BY <1>4, <3>1, <3>2, <3>3 DEF Inv, Typed
    <2>2. CompleteOK(t)'
      BY <1>5 DEF CompleteOK
    <2>3. CurrentOK'
      <3>1. Current' = t /\ t # None
        BY <1>4, NoneAssumption DEF Current
      <3> QED BY <1>1, <1>4, <1>5, <3>1 DEF CurrentOK, Lists
    <2> QED BY <2>1, <2>2, <2>3
  <1> QED BY <1>4, <1>5, <1>6, <1>7, <1>8, <1>9, ReadStep

LEMMA UpdateReadStep ==
  ASSUME Inv, UpdateRead
  PROVE  Inv'
  <1>1. Head(updates) \in Update
    BY ReadLearns DEF Inv
  <1>2. Head(updates).type \in {"Commitment", "Reveal", "CommitmentComplete", "Result", "Err"}
    BY <1>1 DEF Update
  <1> QED BY <1>2, ReadErr, ReadACommitment, ReadResult, ReadReveal, ReadList

-----------------------------------------------------------------------------
(* updateLoop stores the status and marks it.                              *)

(* The queue and the game are left alone.                                  *)
LEMMA QueueKept ==
  ASSUME Queue, UNCHANGED <<listed, live, updates>>
  PROVE  Queue' /\ (ListTaken' <=> ListTaken) /\ (\A p : ToCome(p)' <=> ToCome(p))
         /\ \A s : Unseen(s)' <=> Unseen(s)
  BY DEF Queue, CommitsOnce, InSequence, RevealsAfterList, ListTaken, ToCome, Unseen, Is

LEMMA UpdateAddStep ==
  ASSUME Inv, UpdateAdd
  PROVE  Inv'
  <1> USE DEF Inv
  <1>1. /\ UNCHANGED <<listed, live, updates, array, used, dirty, force, jobs, load, delayed, loads,
                        notify, ui>>
        /\ update.pc = "add" /\ update' = [update EXCEPT !.pc = "queue"]
        /\ games' = update.status
    BY DEF UpdateAdd
  <1>2. /\ update' \in [pc : {"idle", "add", "queue"}, status : Status]
        /\ update'.pc = "queue" /\ update'.status = update.status
        /\ update.status \in Status
    BY <1>1 DEF Typed
  <1>3. games' # None
    BY <1>1, <1>2, NoneAssumption
  <1>4. Typed'
    BY <1>1, <1>2 DEF Typed
  <1>5. Queue' /\ Slots'
    BY <1>1, QueueKept DEF Slots
  <1>6. InUse'
    BY <1>1, <1>2 DEF InUse
  <1>7. Members'
    <2>1. PICK t : t = update.status
      OBVIOUS
    <2>2. Unseen(t)' /\ Injective(t.parts)
      BY <1>1, <2>1, QueueKept DEF Members
    <2> QED BY <1>1, <1>2, <2>1, <2>2 DEF Members, Unseen, Injective
  <1>8. Shown'
    <2>1. Current' = Current
      BY <1>1, <1>2 DEF Current
    <2>2. CurrentOK => CurrentOK'
      BY <1>1, <2>1, QueueKept DEF CurrentOK, Lists
    <2>3. CompleteOK(update.status) => CompleteOK(games)'
      BY <1>1 DEF CompleteOK, ShowsAll, Lists
    <2> QED BY <1>1, <1>2, <2>2, <2>3 DEF Shown, Undisturbed
  <1>9. Told'
    BY <1>2 DEF Told
  <1> QED BY <1>4, <1>5, <1>6, <1>7, <1>8, <1>9

LEMMA UpdateQueueStep ==
  ASSUME Inv, UpdateQueue
  PROVE  Inv'
  <1> USE DEF Inv
  <1>1. /\ UNCHANGED <<listed, live, updates, games, array, used, jobs, load, delayed, loads, notify,
                        ui>>
        /\ update.pc = "queue" /\ update' = [pc |-> "idle", status |-> NoStatus] /\ dirty' = TRUE
    BY DEF UpdateQueue, queueDirtyGameID
  <1>2. /\ update'.pc = "idle" /\ update'.status = NoStatus
        /\ NoStatus \in Status /\ NoStatus.arr <= used /\ Len(NoStatus.parts) = 0
    BY <1>1, MaxLoadsAssumption DEF Typed, NoStatus, Status, Arrays
  <1>3. Typed'
    BY <1>1, <1>2 DEF Typed
  <1>4. Queue' /\ Slots'
    BY <1>1, QueueKept DEF Slots
  <1>5. InUse'
    BY <1>1, <1>2 DEF InUse
  <1>6. Members'
    <2>1. Unseen(update.status)' /\ Injective(update.status.parts)'
      BY <1>2 DEF Unseen, Injective
    <2>2. games # None => Unseen(games)'
      BY <1>1, QueueKept DEF Members, Unseen
    <2> QED BY <1>1, <2>1, <2>2 DEF Members, Injective
  <1>7. Shown'
    <2>1. Current' = Current
      BY <1>1, <1>2 DEF Current
    <2>2. CurrentOK => CurrentOK'
      BY <1>1, <2>1, QueueKept DEF CurrentOK, Lists
    <2> QED BY <1>1, <1>2, <2>2 DEF Shown, Undisturbed, CompleteOK, ShowsAll, Lists
  <1>8. Told'
    BY <1>1 DEF Told
  <1> QED BY <1>3, <1>4, <1>5, <1>6, <1>7, <1>8

-----------------------------------------------------------------------------
(* Loading the flip.                                                       *)

(* A step that leaves the status and the queue alone.                      *)
LEMMA StatusKept ==
  ASSUME Inv, UNCHANGED <<listed, live, updates, games, array, used, update>>,
         Typed', Slots', Told', Undisturbed' => Undisturbed,
         \A k \in Loads : delayed'[k].arr <= used /\ Injective(delayed'[k].parts)
  PROVE  Inv'
  <1> USE DEF Inv
  <1>1. Queue'
    BY QueueKept
  <1>2. InUse'
    BY DEF InUse
  <1>3. Members'
    BY DEF Members, Unseen, Injective, Is
  <1>4. Shown'
    <2>1. CurrentOK => CurrentOK'
      BY QueueKept DEF CurrentOK, Current, Lists
    <2> QED BY <2>1 DEF Shown, CompleteOK, ShowsAll, Lists
  <1> QED BY <1>1, <1>2, <1>3, <1>4

LEMMA DelayedOK ==
  ASSUME Inv
  PROVE  \A k \in Loads : /\ delayed[k].arr <= used /\ Injective(delayed[k].parts)
                           /\ delayed[k] \in Waiting
  BY DEF Inv, Typed, InUse, Members

(* The goroutines that have been started, and a place for one more.        *)
Busy == {k \in Loads : delayed[k].pc # "none"}

LEMMA BusyOK ==
  ASSUME Inv
  PROVE  /\ IsFiniteSet(Busy) /\ Cardinality(Busy) \in Nat /\ Cardinality(Busy) + jobs <= loads
         /\ jobs > 0 => \E k \in Loads : delayed[k].pc = "none"
  <1>1. IsFiniteSet(Loads) /\ Cardinality(Loads) = MaxLoads
    BY FS_Interval, MaxLoadsAssumption DEF Loads
  <1>2. IsFiniteSet(Busy) /\ Cardinality(Busy) \in Nat
    BY <1>1, FS_Subset, FS_CardinalityType DEF Busy
  <1>3. Cardinality(Busy) + jobs <= loads
    BY DEF Inv, Slots, Busy
  <1>4. ASSUME jobs > 0
        PROVE  \E k \in Loads : delayed[k].pc = "none"
    <2>1. Cardinality(Busy) < MaxLoads
      BY <1>2, <1>3, <1>4, MaxLoadsAssumption DEF Inv, Typed
    <2>2. Busy # Loads
      BY <1>1, <1>2, <2>1, MaxLoadsAssumption
    <2> QED BY <2>2 DEF Busy
  <1> QED BY <1>2, <1>3, <1>4

LEMMA LoadFlipStep ==
  ASSUME Inv, LoadFlip
  PROVE  Inv'
  <1>1. /\ UNCHANGED <<listed, live, updates, games, array, used, update, load, delayed, notify, ui>>
        /\ loads < MaxLoads /\ loads' = loads + 1
        /\ jobs' = jobs \/ jobs' = jobs + 1
        /\ dirty' = dirty \/ dirty' = TRUE
    BY DEF LoadFlip, queueDirtyGameID
  <1>2. used \in Nat /\ jobs \in Nat /\ jobs' \in Nat /\ loads \in Nat /\ loads' \in 0..MaxLoads
    BY <1>1, MaxLoadsAssumption DEF Inv, Typed, Arrays
  <1>3. Typed'
    <2>1. dirty' \in BOOLEAN
      BY <1>1 DEF Inv, Typed
    <2> QED BY <1>1, <1>2, <2>1 DEF Inv, Typed
  <1>4. Slots'
    <2>1. Busy' = Busy
      BY <1>1 DEF Busy
    <2>2. Cardinality(Busy) + jobs' <= loads'
      BY <1>1, <1>2, BusyOK
    <2>3. used + jobs' <= loads' + (IF ListTaken THEN 1 ELSE 0)
      BY <1>1, <1>2 DEF Inv, Slots
    <2> QED BY <1>1, <2>1, <2>2, <2>3, QueueKept DEF Inv, Slots, Busy
  <1>5. Told'
    <2>1. View' = View
      BY <1>1 DEF View
    <2>2. CASE dirty' = TRUE
      BY <2>2 DEF Told
    <2>3. CASE dirty' = dirty
      BY <1>1, <2>1, <2>3 DEF Inv, Told
    <2> QED BY <1>1, <2>2, <2>3
  <1> QED BY <1>1, <1>3, <1>4, <1>5, StatusKept, DelayedOK DEF Undisturbed

LEMMA LoadReplayedStep ==
  ASSUME Inv, load = "idle", jobs > 0, jobs' = jobs - 1,
         handleSummaryUpdate, load' = "queue",
         UNCHANGED <<delayed, listed, live, updates, dirty, force, update, loads, notify, ui>>
  PROVE  Inv'
  <1> USE DEF Inv
  <1>1. /\ used \in Nat /\ jobs \in Nat /\ loads \in 0..MaxLoads
        /\ used + 1 \in Arrays /\ used \in Arrays
    BY MaxLoadsAssumption DEF Typed, Slots, Arrays
  <1>2. SetToSeq(listed) \in Seq(Players) /\ Injective(SetToSeq(listed))
        /\ ToSet(SetToSeq(listed)) = listed
    <2>1. IsFiniteSet(listed) /\ listed \in SUBSET Players
      BY PlayersAssumption, FS_Subset DEF Typed
    <2>2. SetToSeq(listed) \in Seq(listed) /\ Injective(SetToSeq(listed))
          /\ ToSet(SetToSeq(listed)) = listed
      BY <2>1, SetToSeqOK
    <2> QED BY <2>1, <2>2
  <1>3. PICK t \in addResult([phase |-> "COMPLETE", parts |-> SetToSeq(listed), arr |-> used + 1]) :
          games' = t
    BY DEF handleSummaryUpdate
  <1>4. /\ t \in Status /\ t.phase \in {"COMPLETE", "ERROR"} /\ t.arr = used + 1
        /\ t.parts = SetToSeq(listed)
    BY <1>1, <1>2, <1>3 DEF Status, addResult
  <1>5. used' = used + 1 /\ array' = [array EXCEPT ![used + 1] = listed]
    BY DEF handleSummaryUpdate
  <1>6. \A a \in Arrays : a <= used => a <= used' /\ array'[a] = array[a]
    <2>1. \A a \in Arrays : a <= used => a <= used + 1 /\ a # used + 1
      BY <1>1, MaxLoadsAssumption DEF Arrays
    <2> QED BY <1>5, <2>1 DEF Typed
  <1>7. array'[used + 1] = listed
    BY <1>1, <1>5 DEF Typed
  <1>8. Typed'
    BY <1>1, <1>3, <1>4, <1>5 DEF Typed
  <1>9. Queue'
    BY QueueKept
  <1>10. Slots'
    <2>1. Busy' = Busy
      BY DEF Busy
    <2>2. used' + jobs' = used + jobs /\ Cardinality(Busy) + jobs' <= loads
      BY <1>1, <1>5, BusyOK
    <2>3. Cardinality(Busy') + jobs' <= loads'
      BY <2>1, <2>2
    <2>4. used' + jobs' <= loads' + (IF ListTaken' THEN 1 ELSE 0)
      BY <2>2, QueueKept DEF Slots
    <2> QED BY <2>3, <2>4 DEF Slots, Busy
  <1>11. update.status.arr \in Arrays /\ \A k \in Loads : delayed[k].arr \in Arrays
    BY DEF Typed, Status, Waiting
  <1>12. InUse'
    <2>1. games'.arr <= used'
      BY <1>1, <1>3, <1>4, <1>5
    <2> QED BY <1>6, <1>11, <2>1 DEF InUse
  <1>13. Members'
    <2>1. games'.phase # "COMMITMENT" /\ games'.parts = SetToSeq(listed)
      BY <1>3, <1>4
    <2>2. Unseen(games)'
      BY <2>1 DEF Unseen
    <2>3. Injective(games.parts)'
      BY <1>2, <2>1 DEF Injective
    <2>4. Unseen(update.status)'
      BY DEF Members, Unseen, Is
    <2>5. Injective(update.status.parts)' /\ \A k \in Loads : Injective(delayed[k].parts)'
      BY DEF Members, Injective
    <2> QED BY <2>2, <2>3, <2>4, <2>5 DEF Members
  <1>14. Shown'
    <2> SUFFICES ASSUME Undisturbed
                 PROVE  /\ CompleteOK(games)'
                        /\ update.pc = "add" => CompleteOK(update.status)'
                        /\ CurrentOK'
      BY DEF Shown, Undisturbed
    <2>1. Lists(games)' /\ array'[games'.arr] = listed
      BY <1>2, <1>3, <1>4, <1>7 DEF Lists
    <2>2. array'[update.status.arr] = array[update.status.arr]
      BY <1>6, <1>11 DEF InUse
    <2>3. update.pc = "add" => CompleteOK(update.status)'
      BY <2>2 DEF Shown, CompleteOK, ShowsAll, Lists
    <2>4. CurrentOK'
      <3>1. CASE update.pc = "add"
        BY <2>2, <3>1, QueueKept DEF Shown, CurrentOK, Current, Lists
      <3>2. CASE update.pc # "add"
        <4>1. Current' = games' /\ games' # None /\ games'.phase # "COMMITMENT"
          BY <1>3, <1>4, <3>2, NoneAssumption DEF Current
        <4> QED BY <2>1, <4>1 DEF CurrentOK, Lists, Queue, InSequence
      <3> QED BY <3>1, <3>2
    <2> QED BY <2>1, <2>3, <2>4 DEF CompleteOK, ShowsAll
  <1>15. Told'
    BY DEF Told
  <1> QED BY <1>8, <1>9, <1>10, <1>12, <1>13, <1>14, <1>15

LEMMA LoadGameStep ==
  ASSUME Inv, loadGame
  PROVE  Inv'
  <1>1. /\ load = "idle" /\ jobs > 0 /\ jobs' = jobs - 1
        /\ UNCHANGED <<listed, live, updates, dirty, force, update, loads, notify, ui>>
    BY DEF loadGame
  <1>2. used \in Nat /\ jobs \in Nat /\ loads \in Nat /\ jobs' \in Nat
    BY <1>1, MaxLoadsAssumption DEF Inv, Typed, Arrays
  <1>3. CASE UNCHANGED <<games, array, used, load, delayed>>
    <2>1. Typed'
      BY <1>1, <1>2, <1>3 DEF Inv, Typed
    <2>2. Slots'
      <3>1. Busy' = Busy
        BY <1>3 DEF Busy
      <3> QED BY <1>1, <1>2, <1>3, <3>1, BusyOK, QueueKept DEF Inv, Slots, Busy
    <2>3. Told'
      BY <1>1, <1>3 DEF Inv, Told, View
    <2> QED BY <1>1, <1>3, <2>1, <2>2, <2>3, StatusKept, DelayedOK DEF Undisturbed
  <1>4. CASE handleSummaryUpdate /\ load' = "queue" /\ UNCHANGED delayed
    BY <1>1, <1>4, LoadReplayedStep
  <1>5. CASE /\ live.stage # "on"
             /\ LET k == CHOOSE k \in Loads : delayed[k].pc = "none" IN
                 delayed' = [delayed EXCEPT ![k].pc = "sleep"]
             /\ UNCHANGED <<games, array, used, load>>
    <2>1. PICK k \in Loads : /\ delayed[k].pc = "none"
                             /\ delayed' = [delayed EXCEPT ![k].pc = "sleep"]
      BY <1>1, <1>5, BusyOK
    <2>2. delayed \in [Loads -> Waiting]
      BY DEF Inv, Typed
    <2>3. /\ delayed' \in [Loads -> Waiting]
          /\ \A j \in Loads : /\ delayed'[j].pc = IF j = k THEN "sleep" ELSE delayed[j].pc
                              /\ delayed'[j].arr = delayed[j].arr
                              /\ delayed'[j].parts = delayed[j].parts
      BY <2>1, <2>2 DEF Waiting
    <2>4. Typed'
      BY <1>1, <1>2, <1>5, <2>3 DEF Inv, Typed
    <2>5. Slots'
      <3>1. Busy' = Busy \cup {k} /\ k \notin Busy
        BY <2>1, <2>3 DEF Busy
      <3>2. Cardinality(Busy') = Cardinality(Busy) + 1
        BY <3>1, BusyOK, FS_AddElement
      <3> QED BY <1>1, <1>2, <1>5, <3>2, BusyOK, QueueKept DEF Inv, Slots, Busy
    <2>6. Told'
      <3>1. \A j \in Loads : delayed[j].pc = "queue" => delayed'[j].pc = "queue"
        BY <2>1, <2>3
      <3> QED BY <1>1, <1>5, <3>1 DEF Inv, Told, View
    <2>7. Undisturbed' => Undisturbed
      BY <2>1, <2>3 DEF Undisturbed
    <2>8. \A j \in Loads : delayed'[j].arr <= used /\ Injective(delayed'[j].parts)
      BY <2>3, DelayedOK
    <2> QED BY <1>1, <1>5, <2>4, <2>5, <2>6, <2>7, <2>8, StatusKept
  <1>6. \/ UNCHANGED <<games, array, used, load, delayed>>
        \/ handleSummaryUpdate /\ load' = "queue" /\ UNCHANGED delayed
        \/ /\ live.stage # "on"
           /\ LET k == CHOOSE k \in Loads : delayed[k].pc = "none" IN
               delayed' = [delayed EXCEPT ![k].pc = "sleep"]
           /\ UNCHANGED <<games, array, used, load>>
    BY DEF loadGame
  <1> QED BY <1>3, <1>4, <1>5, <1>6

LEMMA LoadQueueStep ==
  ASSUME Inv, LoadQueue
  PROVE  Inv'
  <1>1. /\ UNCHANGED <<listed, live, updates, games, array, used, update, jobs, delayed, loads,
                        notify, ui>>
        /\ load' = "idle" /\ dirty' = TRUE
    BY DEF LoadQueue, queueDirtyGameID
  <1>2. Typed' /\ Told'
    BY <1>1 DEF Inv, Typed, Told
  <1>3. Slots'
    BY <1>1, QueueKept DEF Inv, Slots
  <1> QED BY <1>1, <1>2, <1>3, StatusKept, DelayedOK DEF Undisturbed

-----------------------------------------------------------------------------
(* The goroutines that report a failed replay.                             *)

(* What the goroutine k, once started, does to itself.                     *)
LEMMA DelayedMoves ==
  ASSUME Inv, NEW k \in Loads, NEW w \in Waiting, delayed' = [delayed EXCEPT ![k] = w],
         delayed[k].pc # "none", w.pc # "none",
         delayed[k].pc \in {"queue", "end"} => w.pc \in {"queue", "end"},
         w.arr <= used, Injective(w.parts),
         UNCHANGED <<listed, live, updates, used, jobs, loads>>
  PROVE  /\ delayed' \in [Loads -> Waiting]
         /\ Slots'
         /\ Undisturbed' => Undisturbed
         /\ \A j \in Loads : delayed'[j].arr <= used /\ Injective(delayed'[j].parts)
  <1>1. /\ delayed' \in [Loads -> Waiting]
        /\ \A j \in Loads : delayed'[j] = IF j = k THEN w ELSE delayed[j]
    BY DEF Inv, Typed
  <1>2. Slots'
    <2>1. Busy' = Busy
      BY <1>1 DEF Busy
    <2> QED BY <2>1, QueueKept DEF Inv, Slots, Busy
  <1>3. Undisturbed' => Undisturbed
    BY <1>1 DEF Undisturbed
  <1>4. \A j \in Loads : delayed'[j].arr <= used /\ Injective(delayed'[j].parts)
    BY <1>1, DelayedOK
  <1> QED BY <1>1, <1>2, <1>3, <1>4

(* Setting the place where the goroutine k is.                             *)
LEMMA SetPlace ==
  ASSUME NEW d \in [Loads -> Waiting], NEW k \in Loads,
         NEW pc \in {"silent", "summary", "queue"}
  PROVE  LET v == [pc |-> pc, parts |-> d[k].parts, arr |-> d[k].arr] IN
         v \in Waiting /\ [d EXCEPT ![k].pc = pc] = [d EXCEPT ![k] = v]
  <1> DEFINE v == [pc |-> pc, parts |-> d[k].parts, arr |-> d[k].arr]
             w == d[k]
  <1>1. w \in Waiting
    OBVIOUS
  <1> HIDE DEF w
  <1>2. [w EXCEPT !.pc = pc] = [pc |-> pc, parts |-> w.parts, arr |-> w.arr]
    <2>1. PICK c, q, a : w = [pc |-> c, parts |-> q, arr |-> a]
      BY <1>1, SMTT(30) DEF Waiting
    <2> QED BY <2>1
  <1>3. [pc |-> pc, parts |-> w.parts, arr |-> w.arr] \in Waiting
    BY <1>1 DEF Waiting
  <1> QED BY <1>2, <1>3 DEF w

LEMMA DelayedCheckStep ==
  ASSUME Inv, NEW k \in Loads, DelayedCheck(k)
  PROVE  Inv'
  <1>1. /\ UNCHANGED <<listed, live, updates, games, array, used, dirty, force, update, jobs, load,
                        loads, notify, ui>>
        /\ delayed[k].pc = "sleep" /\ delayed \in [Loads -> Waiting]
    BY DEF DelayedCheck, Inv, Typed
  <1>2. \/ delayed' = [delayed EXCEPT ![k].pc = "silent"]
        \/ delayed' = [delayed EXCEPT ![k].pc = "summary"]
    BY DEF DelayedCheck
  <1>3. PICK w \in Waiting : /\ delayed' = [delayed EXCEPT ![k] = w] /\ w.pc \in {"silent", "summary"}
                             /\ w.parts = delayed[k].parts /\ w.arr = delayed[k].arr
    <2> DEFINE v(pc) == [pc |-> pc, parts |-> delayed[k].parts, arr |-> delayed[k].arr]
    <2>1. /\ v("silent") \in Waiting
          /\ [delayed EXCEPT ![k].pc = "silent"] = [delayed EXCEPT ![k] = v("silent")]
      BY <1>1, SetPlace
    <2>2. /\ v("summary") \in Waiting
          /\ [delayed EXCEPT ![k].pc = "summary"] = [delayed EXCEPT ![k] = v("summary")]
      BY <1>1, SetPlace
    <2> QED BY <1>2, <2>1, <2>2
  <1>4. /\ delayed' \in [Loads -> Waiting] /\ Slots' /\ (Undisturbed' => Undisturbed)
        /\ \A j \in Loads : delayed'[j].arr <= used /\ Injective(delayed'[j].parts)
    BY <1>1, <1>3, DelayedMoves, DelayedOK
  <1>5. Typed'
    BY <1>1, <1>4 DEF Inv, Typed
  <1>6. Told'
    <2>1. \A j \in Loads : delayed[j].pc = "queue" => delayed'[j].pc = "queue"
      BY <1>1, <1>3
    <2> QED BY <1>1, <2>1 DEF Inv, Told, View
  <1> QED BY <1>1, <1>4, <1>5, <1>6, StatusKept

LEMMA DelayedReadStep ==
  ASSUME Inv, NEW k \in Loads, DelayedRead(k)
  PROVE  Inv'
  <1>1. /\ UNCHANGED <<listed, live, updates, games, array, used, dirty, force, update, jobs, load,
                        loads, notify, ui>>
        /\ delayed[k].pc = "summary" /\ delayed \in [Loads -> Waiting]
    BY DEF DelayedRead, Inv, Typed
  <1>2. PICK w \in Waiting : /\ delayed' = [delayed EXCEPT ![k] = w] /\ w.pc = "add"
                             /\ w.arr <= used /\ Injective(w.parts)
    <2>1. CASE games = None
      <3> DEFINE v == [pc |-> "add", parts |-> delayed[k].parts, arr |-> delayed[k].arr]
      <3>1. v \in Waiting /\ delayed' = [delayed EXCEPT ![k] = v]
        BY <1>1, <2>1 DEF DelayedRead, Waiting
      <3> QED BY <3>1, DelayedOK
    <2>2. CASE games # None
      <3> DEFINE v == [pc |-> "add", parts |-> games.parts, arr |-> games.arr]
      <3>1. v \in Waiting /\ delayed' = [delayed EXCEPT ![k] = v]
        BY <1>1, <2>2 DEF DelayedRead, Waiting, Inv, Typed, Status
      <3>2. games.arr <= used /\ Injective(games.parts)
        BY <2>2 DEF Inv, InUse, Members
      <3> QED BY <3>1, <3>2
    <2> QED BY <2>1, <2>2
  <1>3. /\ delayed' \in [Loads -> Waiting] /\ Slots' /\ (Undisturbed' => Undisturbed)
        /\ \A j \in Loads : delayed'[j].arr <= used /\ Injective(delayed'[j].parts)
    BY <1>1, <1>2, DelayedMoves
  <1>4. Typed'
    BY <1>1, <1>3 DEF Inv, Typed
  <1>5. Told'
    <2>1. \A j \in Loads : delayed[j].pc = "queue" => delayed'[j].pc = "queue"
      BY <1>1, <1>2
    <2> QED BY <1>1, <2>1 DEF Inv, Told, View
  <1> QED BY <1>1, <1>3, <1>4, <1>5, StatusKept

LEMMA DelayedAddStep ==
  ASSUME Inv, NEW k \in Loads, DelayedAdd(k)
  PROVE  Inv'
  <1>1. /\ UNCHANGED <<listed, live, updates, array, used, dirty, force, update, jobs, load,
                        loads, notify, ui>>
        /\ delayed[k].pc = "add" /\ delayed \in [Loads -> Waiting]
        /\ games' = [phase |-> "ERROR", parts |-> delayed[k].parts, arr |-> delayed[k].arr]
        /\ delayed' = [delayed EXCEPT ![k].pc = "queue"]
    BY DEF DelayedAdd, Inv, Typed
  <1>2. PICK w \in Waiting : /\ delayed' = [delayed EXCEPT ![k] = w] /\ w.pc = "queue"
                             /\ w.parts = delayed[k].parts /\ w.arr = delayed[k].arr
    <2> DEFINE v == [pc |-> "queue", parts |-> delayed[k].parts, arr |-> delayed[k].arr]
    <2>1. v \in Waiting /\ delayed' = [delayed EXCEPT ![k] = v]
      BY <1>1, SetPlace
    <2> QED BY <2>1
  <1>3. /\ delayed' \in [Loads -> Waiting] /\ Slots'
        /\ \A j \in Loads : delayed'[j].arr <= used /\ Injective(delayed'[j].parts)
    BY <1>1, <1>2, DelayedMoves, DelayedOK
  <1>4. /\ games' \in Status /\ games'.phase = "ERROR" /\ games'.arr <= used
        /\ Injective(games'.parts)
    <2>1. delayed[k].parts \in Seq(Players) /\ delayed[k].arr \in Arrays
      BY <1>1 DEF Waiting
    <2>2. games' \in Status
      BY <1>1, <2>1 DEF Status
    <2> QED BY <1>1, <2>2, DelayedOK
  <1>5. Typed'
    BY <1>1, <1>3, <1>4 DEF Inv, Typed
  <1>6. Queue'
    BY <1>1, QueueKept DEF Inv
  <1>7. InUse'
    BY <1>1, <1>3, <1>4 DEF Inv, InUse
  <1>8. Members'
    <2>1. Unseen(games)'
      BY <1>4 DEF Unseen
    <2>2. Unseen(update.status)'
      BY <1>1 DEF Inv, Members, Unseen, Is
    <2> QED BY <1>1, <1>3, <1>4, <2>1, <2>2 DEF Inv, Members, Injective
  <1>9. delayed'[k].pc = "queue"
    BY <1>1, <1>2
  <1>10. Shown'
    BY <1>9 DEF Shown, Undisturbed
  <1>11. Told'
    BY <1>9 DEF Told
  <1> QED BY <1>3, <1>5, <1>6, <1>7, <1>8, <1>10, <1>11 DEF Inv

LEMMA DelayedQueueStep ==
  ASSUME Inv, NEW k \in Loads, DelayedQueue(k)
  PROVE  Inv'
  <1>1. /\ UNCHANGED <<listed, live, updates, games, array, used, update, jobs, load, loads, notify,
                        ui>>
        /\ delayed[k].pc = "queue" /\ dirty' = TRUE
        /\ delayed' = [delayed EXCEPT ![k] = [pc |-> "end", parts |-> << >>, arr |-> 0]]
    BY DEF DelayedQueue, queueDirtyGameID
  <1>2. PICK w \in Waiting : /\ delayed' = [delayed EXCEPT ![k] = w] /\ w.pc = "end"
                             /\ w.arr <= used /\ Injective(w.parts)
    <2> DEFINE v == [pc |-> "end", parts |-> << >>, arr |-> 0]
    <2>1. v \in Waiting /\ v.arr <= used /\ Len(v.parts) = 0
      BY MaxLoadsAssumption DEF Inv, Typed, Arrays, Waiting
    <2>2. Injective(v.parts)
      BY <2>1 DEF Injective
    <2> QED BY <1>1, <2>1, <2>2
  <1>3. /\ delayed' \in [Loads -> Waiting] /\ Slots' /\ (Undisturbed' => Undisturbed)
        /\ \A j \in Loads : delayed'[j].arr <= used /\ Injective(delayed'[j].parts)
    BY <1>1, <1>2, DelayedMoves
  <1>4. Typed' /\ Told'
    BY <1>1, <1>3 DEF Inv, Typed, Told
  <1> QED BY <1>1, <1>3, <1>4, StatusKept

-----------------------------------------------------------------------------
(* notificationLoop unmarks the status before it reads it.                 *)
LEMMA NotificationStep ==
  ASSUME Inv, notificationLoop
  PROVE  Inv'
  <1>1. UNCHANGED <<listed, live, updates, games, array, used, update, jobs, load, delayed, loads>>
    BY DEF notificationLoop, notifyDirtyGames, NotifyRead, ChatCoinFlipStatus
  <1>2. Slots'
    BY <1>1, QueueKept DEF Inv, Slots
  <1>3. View' = View
    BY <1>1 DEF View
  <1>4. CASE notifyDirtyGames
    <2>1. /\ notify.pc = "idle" /\ dirty' = FALSE /\ ui' = ui
          /\ notify' = [notify EXCEPT !.pc = IF dirty THEN "read" ELSE "idle"]
      BY <1>4 DEF notifyDirtyGames
    <2>2. notify'.pc = IF dirty THEN "read" ELSE "idle"
      BY <2>1 DEF Inv, Typed
    <2>3. Typed'
      BY <1>1, <2>1, <2>2 DEF Inv, Typed
    <2>4. Told'
      BY <1>1, <1>3, <2>1, <2>2 DEF Inv, Told
    <2> QED BY <1>1, <1>2, <2>3, <2>4, StatusKept, DelayedOK DEF Undisturbed
  <1>5. CASE NotifyRead
    <2>1. notify'.pc = "send" /\ notify'.copy = View /\ dirty' = dirty
      BY <1>5 DEF NotifyRead
    <2>2. Typed'
      BY <1>1, <2>1 DEF Inv, Typed
    <2>3. Told'
      BY <1>3, <2>1 DEF Told
    <2> QED BY <1>1, <1>2, <2>2, <2>3, StatusKept, DelayedOK DEF Undisturbed
  <1>6. CASE ChatCoinFlipStatus
    <2>1. /\ notify.pc = "send" /\ notify'.pc = "idle" /\ ui' \in {notify.copy, Missed}
          /\ dirty' = dirty
      BY <1>6 DEF ChatCoinFlipStatus
    <2>2. Typed'
      BY <1>1, <2>1 DEF Inv, Typed
    <2>3. Told'
      BY <1>1, <1>3, <2>1 DEF Inv, Told
    <2> QED BY <1>1, <1>2, <2>2, <2>3, StatusKept, DelayedOK DEF Undisturbed
  <1> QED BY <1>4, <1>5, <1>6 DEF notificationLoop

-----------------------------------------------------------------------------
(* The theorems.                                                           *)

LEMMA InitInv == Init => Inv
  <1> SUFFICES ASSUME Init PROVE Inv
    OBVIOUS
  <1>1. /\ NoStatus \in Status /\ NoStatus.arr = 0 /\ NoStatus.phase = "COMMITMENT"
        /\ NoStatus.parts = << >> /\ Len(<< >>) = 0
    BY MaxLoadsAssumption DEF NoStatus, Status, Arrays
  <1>2. /\ 0 \in Arrays /\ 0 \in 0..MaxLoads
        /\ \A k \in Loads : /\ delayed[k] \in Waiting /\ delayed[k].pc = "none"
                            /\ delayed[k].arr = 0 /\ delayed[k].parts = << >>
    BY MaxLoadsAssumption DEF Init, Arrays, Waiting
  <1>3. /\ live \in Live /\ ~live.cc /\ live.revealed = {} /\ live.committed = {}
    BY DEF Init, Live
  <1>4. updates = << >> /\ updates \in Seq(Update) /\ Len(updates) = 0
    BY DEF Init
  <1>5. Typed
    BY <1>1, <1>2, <1>3, <1>4 DEF Init, Typed
  <1>6. Queue
    BY <1>3, <1>4 DEF Queue, CommitsOnce, InSequence, RevealsAfterList, Is
  <1>7. Slots
    <2>1. {k \in Loads : delayed[k].pc # "none"} = {}
      BY <1>2
    <2>2. ~ListTaken
      BY <1>3 DEF ListTaken
    <2>3. Cardinality({k \in Loads : delayed[k].pc # "none"}) = 0
      BY <2>1, FS_EmptySet
    <2> QED BY <2>2, <2>3 DEF Init, Slots
  <1>8. InUse
    BY <1>1, <1>2 DEF Init, InUse
  <1>9. Members
    BY <1>1, <1>2 DEF Init, Members, Unseen, Injective
  <1>10. Shown
    BY <1>3 DEF Init, Shown, CurrentOK, ListTaken
  <1>11. Told
    BY DEF Init, Told, View
  <1> QED BY <1>5, <1>6, <1>7, <1>8, <1>9, <1>10, <1>11 DEF Inv

LEMMA StutterInv ==
  ASSUME Inv, UNCHANGED vars
  PROVE  Inv'
  <1>1. UNCHANGED <<listed, live, updates, games, array, used, update>>
    BY DEF vars
  <1>2. UNCHANGED <<dirty, force, jobs, load, delayed, loads, notify, ui>>
    BY DEF vars
  <1>3. Typed'
    BY <1>1, <1>2 DEF Inv, Typed
  <1>4. Slots'
    BY <1>1, <1>2, QueueKept DEF Inv, Slots
  <1>5. Told'
    BY <1>1, <1>2 DEF Inv, Told, View
  <1> QED BY <1>1, <1>2, <1>3, <1>4, <1>5, StatusKept, DelayedOK DEF Undisturbed

LEMMA NextInv == Inv /\ [Next]_vars => Inv'
  <1> SUFFICES ASSUME Inv, [Next]_vars PROVE Inv'
    OBVIOUS
  <1>1. CASE Game
    BY <1>1, GameStep
  <1>2. CASE updateLoop
    BY <1>2, UpdateReadStep, UpdateAddStep, UpdateQueueStep DEF updateLoop
  <1>3. CASE LoadFlip
    BY <1>3, LoadFlipStep
  <1>4. CASE loadGameLoop
    BY <1>4, LoadGameStep, LoadQueueStep DEF loadGameLoop
  <1>5. CASE \E k \in Loads : Delayed(k)
    BY <1>5, DelayedCheckStep, DelayedReadStep, DelayedAddStep, DelayedQueueStep DEF Delayed
  <1>6. CASE notificationLoop
    BY <1>6, NotificationStep
  <1>7. CASE UNCHANGED vars
    BY <1>7, StutterInv
  <1> QED BY <1>1, <1>2, <1>3, <1>4, <1>5, <1>6, <1>7 DEF Next

(* Unmarking a status before it is read and marking it after it is stored  *)
(* loses no change for the UI, whichever goroutines overlap.               *)
THEOREM UIAlwaysCurrent == Spec => []UIIsCurrent
  <1>1. Inv => UIIsCurrent
    BY DEF Inv, Told, UIIsCurrent
  <1> QED BY <1>1, InitInv, NextInv, PTL DEF Spec

(* addParticipant, finalizeParticipants and the two kinds of replay never  *)
(* list a device twice.                                                    *)
THEOREM AlwaysListedOnce == Spec => []ParticipantsOnce
  <1>1. Inv => ParticipantsOnce
    <2> SUFFICES ASSUME Inv, games # None PROVE IsInjective(games.parts)
      BY DEF ParticipantsOnce
    <2>1. games.parts \in Seq(Players) /\ Injective(games.parts)
      BY DEF Inv, Typed, Status, Members
    <2>2. DOMAIN games.parts = 1..Len(games.parts)
      BY <2>1
    <2> QED BY <2>1, <2>2 DEF Injective, IsInjective
  <1> QED BY <1>1, InitInv, NextInv, PTL DEF Spec

(* A flip shown as complete has all listed devices and all their secrets,  *)
(* until the delayed error of a failed replay is stored.                   *)
THEOREM CompleteAlwaysShowsAll == Spec => []CompleteShowsAll
  <1>1. Inv => CompleteShowsAll
    BY DEF Inv, Shown, CompleteOK, ShowsAll, Lists, CompleteShowsAll
  <1> QED BY <1>1, InitInv, NextInv, PTL DEF Spec
=============================================================================
