-------------------------- MODULE FlipInjectProofs ---------------------------
(***************************************************************************)
(* The Dealer gets the messages of a flip in order and without gaps, for   *)
(* conversations and queues of every length.                               *)
(***************************************************************************)
EXTENDS FlipInject, FiniteSetTheorems, TLAPS

Message == [from : {"me", "other"}, valid : BOOLEAN]

(* The last message handled, or the place before the first.                *)
LastMark == IF mark = None THEN 0 ELSE mark

(* What is queued, marked or dealt is in the conversation.                 *)
InConversation ==
  /\ conv \in Seq(Message)
  /\ pushed \subseteq 1..Len(conv)
  /\ queue \in Seq(1..Len(conv))
  /\ mark = None \/ mark \in 1..Len(conv)
  /\ dealt \in Seq(1..Len(conv))
  /\ astray \in BOOLEAN

(* The messages dealt come one after the other, up to the mark: what is    *)
(* newer than the mark is newer than all of them.                          *)
UpToMark ==
  ~astray =>
    /\ \A k \in 1..Len(dealt) : dealt[k] <= LastMark
    /\ \A j, k \in 1..Len(dealt) : j < k => dealt[j] < dealt[k]

(* Everything to be injected up to the mark has been dealt.                *)
Complete ==
  ~astray =>
    \A j \in 1..LastMark :
      Valid(j) /\ ~Mine(j) => \E k \in 1..Len(dealt) : dealt[k] = j

Inv == InConversation /\ UpToMark /\ Complete

-----------------------------------------------------------------------------
LEMMA InitInv == Init => Inv
  <1> SUFFICES ASSUME Init PROVE Inv
    OBVIOUS
  <1>1. InConversation
    <2>1. conv = << >> /\ queue = << >> /\ dealt = << >> /\ Len(conv) = 0
      BY DEF Init
    <2>2. conv \in Seq(Message) /\ queue \in Seq(1..Len(conv)) /\ dealt \in Seq(1..Len(conv))
      BY <2>1
    <2> QED BY <2>2 DEF Init, InConversation
  <1>2. UpToMark /\ Complete
    BY DEF Init, UpToMark, Complete, LastMark
  <1> QED BY <1>1, <1>2 DEF Inv

(* The steps that leave the conversation and what was dealt alone.         *)
LEMMA Quiet ==
  ASSUME Inv, UNCHANGED <<conv, mark, dealt, astray>>,
         pushed' \subseteq pushed, queue' \in Seq(1..Len(conv))
  PROVE  Inv'
  <1>1. InConversation'
    BY DEF Inv, InConversation
  <1>2. UpToMark'
    BY DEF Inv, UpToMark, LastMark
  <1>3. Complete'
    BY DEF Inv, Complete, LastMark, Valid, Mine
  <1> QED BY <1>1, <1>2, <1>3 DEF Inv

LEMMA PostInv == Inv /\ Post => Inv'
  <1> SUFFICES ASSUME Inv, Post PROVE Inv'
    OBVIOUS
  <1>1. PICK from \in Senders, valid \in BOOLEAN :
          conv' = Append(conv, [from |-> from, valid |-> valid])
    BY DEF Post
  <1>2. [from |-> from, valid |-> valid] \in Message /\ conv \in Seq(Message)
    BY SendersAssumption DEF Message, Inv, InConversation
  <1>3. /\ conv' \in Seq(Message) /\ Len(conv) \in Nat /\ Len(conv') = Len(conv) + 1
        /\ \A j \in 1..Len(conv) : conv'[j] = conv[j]
    BY <1>1, <1>2
  <1>4. 1..Len(conv) \subseteq 1..Len(conv') /\ Len(conv) + 1 \in 1..Len(conv')
    BY <1>3
  <1>5. UNCHANGED <<queue, mark, dealt, astray>> /\ pushed' = pushed \cup {Len(conv) + 1}
    BY DEF Post
  <1>6. InConversation'
    <2>1. queue' \in Seq(1..Len(conv')) /\ dealt' \in Seq(1..Len(conv'))
      BY <1>4, <1>5 DEF Inv, InConversation
    <2> QED BY <1>3, <1>4, <1>5, <2>1 DEF Inv, InConversation
  <1>7. UpToMark'
    BY <1>5 DEF Inv, UpToMark, LastMark
  <1>8. Complete'
    <2>1. LastMark' = LastMark /\ \A j \in 1..LastMark : j \in 1..Len(conv)
      BY <1>3, <1>5 DEF Inv, InConversation, LastMark
    <2> QED BY <1>3, <1>5, <2>1 DEF Inv, Complete, Valid, Mine
  <1> QED BY <1>6, <1>7, <1>8 DEF Inv

-----------------------------------------------------------------------------
(* The elements of a concatenation.                                        *)
LEMMA Concatenated ==
  ASSUME NEW S, NEW s \in Seq(S), NEW t \in Seq(S)
  PROVE  /\ s \o t \in Seq(S) /\ Len(s) \in Nat /\ Len(t) \in Nat
         /\ Len(s \o t) = Len(s) + Len(t)
         /\ \A k \in 1..Len(s) : (s \o t)[k] = s[k]
         /\ \A k \in (Len(s) + 1)..Len(s \o t) : (s \o t)[k] = t[k - Len(s)]
  OBVIOUS

(* An ascending sequence of a set of numbers has them all.                 *)
LEMMA AscendingOK ==
  ASSUME NEW n \in Nat, NEW K \in SUBSET (1..n), NEW f \in Ascending(K)
  PROVE  /\ Cardinality(K) \in Nat /\ f \in [1..Cardinality(K) -> K]
         /\ \A a, b \in DOMAIN f : a < b => f[a] < f[b]
         /\ \A k \in K : \E a \in DOMAIN f : f[a] = k
  <1> DEFINE c == Cardinality(K)
  <1>1. IsFiniteSet(K)
    <2>1. IsFiniteSet(1..n)
      BY FS_Interval
    <2> QED BY <2>1, FS_Subset
  <1>2. c \in Nat
    BY <1>1, FS_CardinalityType
  <1>3. f \in [1..c -> K] /\ \A a, b \in DOMAIN f : a < b => f[a] < f[b]
    BY DEF Ascending
  <1>4. Cardinality(1..c) = c
    BY <1>2, FS_Interval
  <1> HIDE DEF c
  <1>5. ASSUME NEW a \in 1..c, NEW b \in 1..c, f[a] = f[b] PROVE a = b
    <2>1. f[a] \in 1..n /\ f[a] = f[b] /\ a \in DOMAIN f /\ b \in DOMAIN f
      BY <1>3, <1>5
    <2>2. ~(f[a] < f[b]) /\ ~(f[b] < f[a])
      BY <2>1
    <2>3. ~(a < b) /\ ~(b < a)
      BY <1>3, <2>1, <2>2
    <2> QED BY <1>2, <2>3
  <1>6. f \in Injection(1..c, K)
    <2>1. \A a, b \in 1..c : f[a] = f[b] => a = b
      BY <1>5
    <2> QED BY <1>3, <2>1 DEF Injection, IsInjective
  <1>7. f \in Surjection(1..c, K)
    BY <1>1, <1>4, <1>6, FS_Injection DEF c
  <1> QED BY <1>2, <1>3, <1>7 DEF Surjection, c

(* A run of messages from the mark on is injected.                         *)
LEMMA InjectOK ==
  ASSUME Inv, UNCHANGED <<conv, astray>>, queue' \in Seq(1..Len(conv)), pushed' = pushed,
         NEW n \in 1..Len(conv), LastMark < n,
         injectIncomingChat([k \in 1..(n - LastMark) |-> LastMark + k])
  PROVE  Inv'
  <1> DEFINE lo == LastMark
  <1> DEFINE ids == [k \in 1..(n - lo) |-> lo + k]
  <1> DEFINE T == {i \in Ids : Valid(i) /\ ~Mine(i)}
  <1>1. Len(conv) \in Nat /\ lo \in 0..Len(conv) /\ n - lo \in Nat /\ Ids = 1..Len(conv)
    BY DEF Inv, InConversation, LastMark, Ids
  <1>2. ids \in Seq(1..Len(conv)) /\ Len(ids) = n - lo
    <2>1. \A k \in 1..(n - lo) : lo + k \in 1..Len(conv)
      BY <1>1
    <2> QED BY <1>1, <2>1
  <1> DEFINE K == {k \in DOMAIN ids : Valid(ids[k]) /\ ~Mine(ids[k])}
  <1>2a. K \subseteq 1..(n - lo) /\ \A k \in 1..(n - lo) : k \in K <=> ids[k] \in T
    BY <1>1, <1>2
  <1>2b. PICK at \in Ascending(K) :
            LET in == [a \in DOMAIN at |-> ids[at[a]]] IN
            /\ dealt' = dealt \o in
            /\ mark' = IF in = <<>> THEN mark ELSE Last(in)
    BY DEF injectIncomingChat
  <1> DEFINE in == [a \in DOMAIN at |-> ids[at[a]]]
             c  == Len(in)
  <1>3. /\ in \in Seq(1..Len(conv)) /\ c \in Nat
        /\ \A i \in 1..c : at[i] \in K /\ in[i] = ids[at[i]]
        /\ \A i, j \in 1..c : i < j => at[i] < at[j]
        /\ \A k \in K : \E i \in 1..c : at[i] = k
    <2> HIDE DEF K, ids, T
    <2>1. /\ Cardinality(K) \in Nat /\ at \in [1..Cardinality(K) -> K]
          /\ \A a, b \in DOMAIN at : a < b => at[a] < at[b]
          /\ \A k \in K : \E a \in DOMAIN at : at[a] = k
      <3>1. K \in SUBSET (1..(n - lo)) /\ n - lo \in Nat
        BY <1>1, <1>2a
      <3> DEFINE d == n - lo
      <3> HIDE DEF d
      <3>2. K \in SUBSET (1..d) /\ d \in Nat
        BY <3>1 DEF d
      <3>3. at \in Ascending(K)
        OBVIOUS
      <3> QED BY <3>2, <3>3, AscendingOK, ZenonT(40)
    <2>2. \A a \in DOMAIN at : ids[at[a]] \in 1..Len(conv)
      <3>1. \A a \in DOMAIN at : at[a] \in 1..Len(ids)
        BY <1>2, <1>2a, <2>1
      <3> QED BY <1>2, <3>1
    <2>3. in \in Seq(1..Len(conv)) /\ c = Cardinality(K) /\ DOMAIN at = 1..c
      BY <2>1, <2>2
    <2> QED BY <2>1, <2>3
  <1>4. /\ dealt' = dealt \o in
        /\ mark' = IF in = << >> THEN mark ELSE in[Len(in)]
    BY <1>2b DEF Last
  <1> HIDE DEF in
  <1>5. \A i \in 1..Len(in) : in[i] \in T /\ in[i] > lo /\ in[i] <= n
    <2> TAKE i \in 1..Len(in)
    <2>1. at[i] \in 1..(n - lo) /\ in[i] = ids[at[i]] /\ ids[at[i]] \in T
      <3> HIDE DEF ids, T, K
      <3> QED BY <1>2a, <1>3
    <2>2. ids[at[i]] = lo + at[i]
      BY <2>1
    <2> HIDE DEF ids, T, K
    <2> QED BY <1>1, <2>1, <2>2
  <1>6. \A j \in (lo + 1)..n : j \in T => \E i \in 1..Len(in) : in[i] = j
    <2> TAKE j \in (lo + 1)..n
    <2> HAVE j \in T
    <2>1. j - lo \in 1..(n - lo) /\ ids[j - lo] = j
      BY <1>1
    <2> HIDE DEF ids, T, K
    <2>2. PICK i \in 1..Len(in) : at[i] = j - lo
      BY <1>2a, <1>3, <2>1
    <2> QED BY <1>3, <2>1, <2>2
  <1>7. \A i, j \in 1..Len(in) : i < j => in[i] < in[j]
    <2> SUFFICES ASSUME NEW i \in 1..Len(in), NEW j \in 1..Len(in), i < j
                 PROVE  in[i] < in[j]
      OBVIOUS
    <2>1. at[i] < at[j] /\ at[i] \in 1..(n - lo) /\ at[j] \in 1..(n - lo)
      BY <1>2a, <1>3
    <2>2. in[i] = lo + at[i] /\ in[j] = lo + at[j]
      BY <1>3, <2>1
    <2> QED BY <1>1, <2>1, <2>2
  <1> HIDE DEF ids
  <1>8. /\ dealt' \in Seq(1..Len(conv))
        /\ Len(dealt) \in Nat /\ Len(in) \in Nat /\ Len(dealt') = Len(dealt) + Len(in)
    BY <1>3, <1>4, Concatenated DEF Inv, InConversation
  <1>8a. \A k \in 1..Len(dealt) :
            k \in 1..Len(dealt') /\ dealt'[k] = dealt[k] /\ dealt[k] \in 1..Len(conv)
    <2>1. dealt \in Seq(1..Len(conv))
      BY DEF Inv, InConversation
    <2>2. \A k \in 1..Len(dealt) : dealt'[k] = dealt[k]
      BY <1>3, <1>4, <2>1, Concatenated
    <2>3. \A k \in 1..Len(dealt) : dealt[k] \in 1..Len(conv)
      BY <2>1
    <2>4. \A k \in 1..Len(dealt) : k \in 1..Len(dealt')
      BY <1>8
    <2> QED BY <2>2, <2>3, <2>4
  <1>8b. \A k \in (Len(dealt) + 1)..Len(dealt') :
            k - Len(dealt) \in 1..Len(in) /\ dealt'[k] = in[k - Len(dealt)]
    <2>1. dealt \in Seq(1..Len(conv))
      BY DEF Inv, InConversation
    <2>2. \A k \in (Len(dealt) + 1)..Len(dealt') : dealt'[k] = in[k - Len(dealt)]
      BY <1>3, <1>4, <2>1, Concatenated
    <2>3. \A k \in (Len(dealt) + 1)..Len(dealt') : k - Len(dealt) \in 1..Len(in)
      BY <1>8
    <2> QED BY <2>2, <2>3
  <1>8c. \A i \in 1..Len(in) :
            Len(dealt) + i \in 1..Len(dealt') /\ dealt'[Len(dealt) + i] = in[i]
    <2> TAKE i \in 1..Len(in)
    <2>1. /\ Len(dealt) + i \in 1..Len(dealt')
          /\ Len(dealt) + i \in (Len(dealt) + 1)..Len(dealt')
          /\ (Len(dealt) + i) - Len(dealt) = i
      BY <1>8
    <2>2. dealt'[Len(dealt) + i] = in[(Len(dealt) + i) - Len(dealt)]
      BY <1>8b, <2>1
    <2> QED BY <2>1, <2>2
  <1>9. \A k \in 1..Len(dealt') : k \in 1..Len(dealt) \/ k \in (Len(dealt) + 1)..Len(dealt')
    BY <1>8
  <1>10. CASE in = << >>
    <2>1. dealt' = dealt /\ mark' = mark /\ Len(in) = 0
      BY <1>4, <1>8, <1>10
    <2> QED BY <2>1, Quiet DEF Inv, InConversation
  <1>11. CASE in # << >>
    <2>1. /\ Len(in) \in 1..Len(in) /\ mark' = in[Len(in)] /\ mark' \in 1..Len(conv)
          /\ mark' > lo /\ mark' <= n
      <3>1. mark' = in[Len(in)]
        BY <1>4, <1>11
      <3>2. Len(in) \in 1..Len(in)
        BY <1>3, <1>11
      <3> QED BY <1>3, <1>5, <3>1, <3>2
    <2>2. LastMark' = mark'
      BY <2>1, NoneAssumption DEF LastMark
    <2>3. InConversation'
      BY <1>8, <2>1 DEF Inv, InConversation
    <2>4. ASSUME ~astray' PROVE \A k \in 1..Len(dealt') : dealt'[k] <= LastMark'
      <3> TAKE k \in 1..Len(dealt')
      <3>1. CASE k \in 1..Len(dealt)
        <4>0. dealt'[k] = dealt[k] /\ dealt[k] \in 1..Len(conv) /\ ~astray
          BY <1>8a, <2>4, <3>1
        <4>1. dealt'[k] <= lo /\ dealt'[k] \in Nat
          BY <3>1, <4>0 DEF Inv, UpToMark
        <4> QED BY <1>1, <2>1, <2>2, <4>1
      <3>2. CASE k \in (Len(dealt) + 1)..Len(dealt')
        <4>1. PICK i \in 1..Len(in) : dealt'[k] = in[i]
          BY <1>8b, <3>2
        <4>2. in[i] \in Nat /\ in[Len(in)] \in Nat
          BY <1>3, <2>1
        <4>3. in[i] <= in[Len(in)]
          <5>1. i = Len(in) \/ i < Len(in)
            BY <1>8
          <5>2. CASE i < Len(in)
            <6>1. in[i] < in[Len(in)]
              BY <1>7, <2>1, <5>2
            <6> QED BY <4>2, <6>1
          <5>3. CASE i = Len(in)
            BY <4>2, <5>3
          <5> QED BY <5>1, <5>2, <5>3
        <4> QED BY <2>1, <2>2, <4>1, <4>3
      <3> QED BY <1>9, <3>1, <3>2
    <2>5. ASSUME ~astray', NEW j \in 1..Len(dealt'), NEW k \in 1..Len(dealt'), j < k
          PROVE  dealt'[j] < dealt'[k]
      <3>1. CASE k \in 1..Len(dealt)
        <4>1. j \in 1..Len(dealt)
          BY <1>8, <2>5, <3>1
        <4>2. dealt'[j] = dealt[j] /\ dealt'[k] = dealt[k]
          BY <1>8a, <3>1, <4>1
        <4>3. ~astray
          BY <2>5
        <4>4. dealt[j] < dealt[k]
          BY <2>5, <3>1, <4>1, <4>3 DEF Inv, UpToMark
        <4> QED BY <4>2, <4>4
      <3>2. CASE j \in 1..Len(dealt) /\ k \in (Len(dealt) + 1)..Len(dealt')
        <4>0. dealt'[j] = dealt[j] /\ dealt[j] \in 1..Len(conv) /\ ~astray
          <5>1. j \in 1..Len(dealt)
            BY <3>2
          <5> QED BY <1>8a, <2>5, <5>1
        <4>1. dealt'[j] <= lo /\ dealt'[j] \in Nat
          BY <3>2, <4>0 DEF Inv, UpToMark
        <4>2. dealt'[k] > lo /\ dealt'[k] \in Nat
          <5>1. PICK i \in 1..Len(in) : dealt'[k] = in[i]
            BY <1>8b, <3>2
          <5> QED BY <1>3, <1>5, <5>1
        <4> QED BY <1>1, <4>1, <4>2
      <3>3. CASE j \in (Len(dealt) + 1)..Len(dealt')
        <4>1. k \in (Len(dealt) + 1)..Len(dealt')
          BY <1>8, <2>5, <3>3
        <4>2. j - Len(dealt) < k - Len(dealt)
          BY <1>8, <2>5
        <4>3. /\ j - Len(dealt) \in 1..Len(in) /\ dealt'[j] = in[j - Len(dealt)]
              /\ k - Len(dealt) \in 1..Len(in) /\ dealt'[k] = in[k - Len(dealt)]
          BY <1>8b, <3>3, <4>1
        <4>4. in[j - Len(dealt)] < in[k - Len(dealt)]
          BY <1>7, <4>2, <4>3
        <4> QED BY <4>3, <4>4
      <3> QED BY <1>9, <3>1, <3>2, <3>3
    <2>6. UpToMark'
      BY <2>4, <2>5 DEF UpToMark
    <2>7. ASSUME ~astray', NEW j \in 1..LastMark', Valid(j)', ~Mine(j)'
          PROVE  \E k \in 1..Len(dealt') : dealt'[k] = j
      <3>1. Valid(j) /\ ~Mine(j) /\ j \in 1..n
        BY <1>1, <2>1, <2>2, <2>7 DEF Valid, Mine
      <3>2. CASE j \in 1..lo
        <4>1. PICK k \in 1..Len(dealt) : dealt[k] = j
          BY <2>7, <3>1, <3>2 DEF Inv, Complete
        <4>2. k \in 1..Len(dealt') /\ dealt'[k] = j
          BY <1>8a, <4>1
        <4> QED BY <4>2
      <3>3. CASE j \notin 1..lo
        <4>1. j \in (lo + 1)..n /\ j \in T
          BY <1>1, <3>1, <3>3
        <4>2. PICK i \in 1..Len(in) : in[i] = j
          BY <1>6, <4>1
        <4> QED BY <1>8c, <4>2
      <3> QED BY <3>2, <3>3
    <2>8. Complete'
      BY <2>7 DEF Complete
    <2> QED BY <2>3, <2>6, <2>8 DEF Inv
  <1> QED BY <1>10, <1>11

(* The mark of an own message that comes in turn passes over nothing.      *)
LEMMA OwnOK ==
  ASSUME Inv, UNCHANGED conv, queue' \in Seq(1..Len(conv)), pushed' = pushed,
         NEW n \in 1..Len(conv), ownMessage(n)
  PROVE  Inv'
  <1>1. /\ Mine(n) /\ mark' = n /\ astray' = (astray \/ ~InTurn(n)) /\ dealt' = dealt
        /\ astray \in BOOLEAN /\ InTurn(n) \in BOOLEAN
    BY DEF ownMessage, InTurn, Inv, InConversation
  <1>2. LastMark' = n /\ n \in Nat /\ LastMark \in Nat
    BY <1>1, NoneAssumption DEF LastMark, Inv, InConversation
  <1>3. InConversation'
    BY <1>1 DEF Inv, InConversation
  <1>4. ASSUME ~astray'
        PROVE  ~astray /\ LastMark < n /\ \A j \in (LastMark + 1)..(n - 1) : Mine(j) \/ ~Valid(j)
    BY <1>1, <1>4 DEF InTurn, LastMark
  <1>5. UpToMark'
    <2>1. \A k \in 1..Len(dealt) : dealt[k] \in Nat
      BY DEF Inv, InConversation
    <2> QED BY <1>1, <1>2, <1>4, <2>1 DEF Inv, UpToMark
  <1>6. Complete'
    <2> SUFFICES ASSUME ~astray', NEW j \in 1..n, Valid(j), ~Mine(j)
                 PROVE  \E k \in 1..Len(dealt) : dealt[k] = j
      BY <1>1, <1>2 DEF Complete, Valid, Mine
    <2>1. j \in 1..LastMark
      BY <1>1, <1>2, <1>4
    <2> QED BY <1>4, <2>1 DEF Inv, Complete
  <1> QED BY <1>3, <1>5, <1>6 DEF Inv

LEMMA LoopInv == Inv /\ maybeInjectLoop => Inv'
  <1> SUFFICES ASSUME Inv, maybeInjectLoop PROVE Inv'
    OBVIOUS
  <1> DEFINE n == Head(queue)
  <1>1. /\ queue \in Seq(1..Len(conv)) /\ n \in 1..Len(conv)
        /\ queue' \in Seq(1..Len(conv)) /\ UNCHANGED <<conv, pushed>>
    BY DEF maybeInjectLoop, Inv, InConversation
  <1>2. CASE ownMessage(n)
    <2> HIDE DEF n
    <2> QED BY <1>1, <1>2, OwnOK
  <1>3. CASE UNCHANGED <<mark, dealt, astray>>
    BY <1>1, <1>3, Quiet
  <1>4. CASE updateActiveGame(n) /\ UNCHANGED astray /\ ~UNCHANGED <<mark, dealt, astray>>
    <2>1. LastMark < n /\ LastMark \in Nat /\ n \in Nat
      BY <1>1, <1>4, NoneAssumption DEF updateActiveGame, LastMark, Inv, InConversation
    <2>2. CASE n = LastMark + 1
      <3>1. <<n>> = [k \in 1..(n - LastMark) |-> LastMark + k]
        BY <2>1, <2>2
      <3>2. injectIncomingChat(<<n>>)
        BY <1>4, <2>1, <2>2 DEF updateActiveGame, LastMark
      <3> HIDE DEF n
      <3>3. injectIncomingChat([k \in 1..(n - LastMark) |-> LastMark + k])
        BY <3>1, <3>2
      <3> QED BY <1>1, <1>4, <2>1, <3>3, InjectOK
    <2>3. CASE n # LastMark + 1
      <3>1. injectIncomingChat([k \in 1..(n - LastMark) |-> LastMark + k])
        BY <1>4, <2>1, <2>3 DEF updateActiveGame, LastMark
      <3> HIDE DEF n
      <3> QED BY <1>1, <1>4, <2>1, <3>1, InjectOK
    <2> QED BY <2>2, <2>3
  <1> QED BY <1>2, <1>3, <1>4 DEF maybeInjectLoop

-----------------------------------------------------------------------------
LEMMA NextInv == Inv /\ [Next]_vars => Inv'
  <1> SUFFICES ASSUME Inv, [Next]_vars PROVE Inv'
    OBVIOUS
  <1>1. CASE Post \/ maybeInjectLoop
    BY <1>1, PostInv, LoopInv
  <1>2. ASSUME NEW i \in Ids, MaybeInjectFlipMessage(i) \/ Miss(i) PROVE Inv'
    <2>1. queue' \in Seq(1..Len(conv))
      <3>1. queue \in Seq(1..Len(conv)) /\ i \in 1..Len(conv)
        BY DEF Inv, InConversation, Ids
      <3>2. queue' = queue \/ queue' = Append(queue, i)
        BY <1>2 DEF MaybeInjectFlipMessage, Miss
      <3> QED BY <3>1, <3>2
    <2>2. pushed' \subseteq pushed /\ UNCHANGED <<conv, mark, dealt, astray>>
      BY <1>2 DEF MaybeInjectFlipMessage, Miss
    <2> QED BY <2>1, <2>2, Quiet
  <1>3. CASE GameOver \/ SwitchApp \/ ResetParticipations \/ UNCHANGED vars
    <2>1. UNCHANGED <<conv, pushed, queue, mark, dealt, astray>>
      BY <1>3 DEF GameOver, SwitchApp, ResetParticipations, vars
    <2> QED BY <2>1, Quiet DEF Inv, InConversation
  <1> QED BY <1>1, <1>2, <1>3 DEF Next

LEMMA Invariance == Spec => []Inv
  BY InitInv, NextInv, PTL DEF Spec

(* The Dealer gets the messages in the order of the conversation and none  *)
(* twice, whichever notifications were lost, late or dropped, unless a     *)
(* late notification of an own message has led the mark astray.            *)
THEOREM AlwaysInOrder == Spec => []DealtInOrder
  <1>1. Inv => DealtInOrder
    <2> SUFFICES ASSUME Inv, ~astray, NEW k \in 1..(Len(dealt) - 1)
                 PROVE  dealt[k] < dealt[k + 1]
      BY DEF DealtInOrder
    <2>1. k \in 1..Len(dealt) /\ k + 1 \in 1..Len(dealt) /\ k < k + 1
      BY DEF Inv, InConversation
    <2> QED BY <2>1 DEF Inv, UpToMark
  <1> QED BY <1>1, Invariance, PTL

(* With a message the Dealer has also got every earlier one to be          *)
(* injected: updateActiveGame makes up for every gap.                      *)
THEOREM NeverAGap == Spec => []NoGap
  <1>1. Inv => NoGap
    <2> SUFFICES ASSUME Inv, ~astray, NEW i \in Range(dealt), NEW j \in 1..(i - 1),
                        Valid(j), ~Mine(j)
                 PROVE  j \in Range(dealt)
      BY DEF NoGap
    <2>1. PICK k \in 1..Len(dealt) : i = dealt[k]
      BY DEF Range, Inv, InConversation
    <2>2. i \in Nat /\ i <= LastMark /\ LastMark \in Nat
      BY <2>1 DEF Inv, InConversation, UpToMark, LastMark
    <2>3. j \in 1..LastMark
      BY <2>2
    <2>4. PICK m \in 1..Len(dealt) : dealt[m] = j
      BY <2>3 DEF Inv, Complete
    <2> QED BY <2>4 DEF Range, Inv, InConversation
  <1> QED BY <1>1, Invariance, PTL
=============================================================================
