------------------------------ MODULE FlipPRNG ------------------------------
(***************************************************************************)
(* The drawing of a flip's outcome from the XOR of the secrets             *)
(* (go/chat/flip/prng.go): a stream of blocks AES(key, 1), AES(key, 2),... *)
(* cut into bytes, and the coin, number and shuffle drawn from them.  The  *)
(* cipher's blocks are arbitrary, and a byte has W bits.  A step is one    *)
(* turn of one of the loops.                                               *)
(***************************************************************************)
EXTENDS Integers, Sequences, FiniteSets

CONSTANTS
  W,          \* bits of a byte (8)
  BlockLen,   \* bytes of a block (16)
  MaxBlocks,  \* how many blocks the runs look at
  Moduli,     \* the moduli of the numbers drawn
  Sizes       \* the lengths of the shuffles drawn

ASSUME WidthAssumption == W \in Nat \ {0} /\ BlockLen \in Nat \ {0} /\ MaxBlocks \in Nat
ASSUME ModuliAssumption == Moduli \subseteq Int
ASSUME SizesAssumption == Sizes \subseteq Nat

Byte == 0..(2^W - 1)
Block == [1..BlockLen -> Byte]

VARIABLES
  cipher,  \* AES(key, _)
  i,       \* p.i, the counter of the next block
  buf,     \* p.buf, what is left of the last one
  used,    \* the bytes handed out so far (history)
  left,    \* how many bytes Read has still to get
  x,       \* the number that the bytes of this Read spell so far
  call,    \* the Bool, Int or Permutation under way
  drawn    \* the result of the last one

vars == <<cipher, i, buf, used, left, x, call, drawn>>

Nothing == [kind |-> "nothing"]

Init ==
  /\ cipher \in [1..MaxBlocks -> Block]
  /\ i = 1
  /\ buf = <<>>
  /\ used = <<>>
  /\ left = 0
  /\ x = 0
  /\ call = Nothing
  /\ drawn = Nothing

-----------------------------------------------------------------------------
(* Reading n bytes.                                                        *)
Read(n) == left' = n /\ x' = 0

(* Mutant of replenish: the counter stays where it is.                     *)
replenish_SameBlock ==
  /\ left > 0 /\ buf = <<>> /\ i <= MaxBlocks
  /\ buf' = cipher[i]
  /\ i' = IF i = 1 THEN i ELSE i + 1
  /\ UNCHANGED <<cipher, used, left, x, call, drawn>>

(* The next block, unless the run does not look at it.                     *)
replenish ==
  /\ left > 0 /\ buf = <<>> /\ i <= MaxBlocks
  /\ buf' = cipher[i]
  /\ i' = i + 1
  /\ UNCHANGED <<cipher, used, left, x, call, drawn>>

(* The next byte (the code copies all it can at once).  The first one is   *)
(* the most significant of the number.                                     *)
read ==
  /\ left > 0 /\ buf # <<>>
  /\ left' = left - 1
  /\ x' = x * 2^W + Head(buf)
  /\ buf' = Tail(buf)
  /\ used' = Append(used, Head(buf))
  /\ UNCHANGED <<cipher, i, call, drawn>>

-----------------------------------------------------------------------------
(* A number below n, which Big draws.                                      *)
Abs(m) == IF m < 0 THEN -m ELSE m
Sign(m) == IF m < 0 THEN -1 ELSE IF m = 0 THEN 0 ELSE 1
BitLen(n) == CHOOSE b \in 0..n : n < 2^b /\ (b = 0 \/ n >= 2^(b - 1))
NumBytes(n) == (BitLen(n - 1) + W - 1) \div W

(* Mutant of Candidate: one bit too many is cleared.                       *)
Candidate_NarrowMask(y, n) ==
  y % 2^(IF BitLen(n - 1) > 1 THEN BitLen(n - 1) - 1 ELSE BitLen(n - 1))

(* The bits above those of n - 1 are cleared.                              *)
Candidate(y, n) == y % 2^BitLen(n - 1)

(* Mutant of Accept: the modulus itself gets through.                      *)
Accept_Equal(y, n) == y <= n
Accept(y, n) == y < n

Swap(f, j, k) == [f EXCEPT ![j] = f[k], ![k] = f[j]]

(* Mutant of ShuffleModulus: an element never stays where it is.           *)
ShuffleModulus_Sattolo(k) == k
ShuffleModulus(k) == k + 1

(* The modulus of the Big under way.                                       *)
Modulus == IF call.kind = "int" THEN Abs(call.modulus) ELSE ShuffleModulus(call.pos)
Number == Candidate(x, Modulus)

-----------------------------------------------------------------------------
Start(c) ==
  /\ call = Nothing
  /\ call' = c
  /\ drawn' = Nothing
  /\ UNCHANGED <<cipher, i, buf, used>>

Return(d) ==
  /\ call' = Nothing
  /\ drawn' = d
  /\ UNCHANGED <<cipher, i, buf, used, left, x>>

Bool == Start([kind |-> "bool"]) /\ Read(1)

(* For zero there is nothing to draw.                                      *)
DrawInt(m) ==
  IF m = 0 THEN call = Nothing /\ Return([kind |-> "int", modulus |-> m, value |-> 0])
  ELSE Start([kind |-> "int", modulus |-> m]) /\ Read(NumBytes(Abs(m)))

(* The loop goes from the last position down to 1, if there is one.        *)
Permutation(n) ==
  LET ret == [k \in 0..(n - 1) |-> k] IN
  IF n <= 1 THEN call = Nothing /\ Return([kind |-> "shuffle", value |-> ret])
  ELSE /\ Start([kind |-> "shuffle", pos |-> n - 1, ret |-> ret])
       /\ Read(NumBytes(ShuffleModulus(n - 1)))

BoolRead == call.kind = "bool" /\ left = 0 /\ Return([kind |-> "bool", value |-> x % 2 = 1])

(* Big has read as many bytes as it needs.                                 *)
BigRead == call.kind \in {"int", "shuffle"} /\ left = 0

Reject ==
  /\ BigRead /\ ~Accept(Number, Modulus)
  /\ Read(NumBytes(Modulus))
  /\ UNCHANGED <<cipher, i, buf, used, call, drawn>>

IntRead ==
  /\ BigRead /\ Accept(Number, Modulus) /\ call.kind = "int"
  /\ Return([kind |-> "int", modulus |-> call.modulus,
             value |-> Number * Sign(call.modulus)])

SwapRead ==
  /\ BigRead /\ Accept(Number, Modulus) /\ call.kind = "shuffle"
  /\ LET ret == Swap(call.ret, Number, call.pos)
         pos == call.pos - 1
     IN IF pos < 1 THEN Return([kind |-> "shuffle", value |-> ret])
        ELSE /\ call' = [kind |-> "shuffle", pos |-> pos, ret |-> ret]
             /\ Read(NumBytes(ShuffleModulus(pos)))
             /\ UNCHANGED <<cipher, i, buf, used, drawn>>

Next ==
  \/ Bool
  \/ \E m \in Moduli : DrawInt(m)
  \/ \E n \in Sizes : Permutation(n)
  \/ replenish
  \/ read
  \/ BoolRead
  \/ Reject
  \/ IntRead
  \/ SwapRead

Spec == Init /\ [][Next]_vars

-----------------------------------------------------------------------------
(* Properties.                                                             *)

(* A number is between zero and its modulus, on the modulus' side of zero  *)
(* and never the modulus (except zero itself); a shuffle is a permutation. *)
InRange ==
  /\ drawn.kind = "int" =>
       IF drawn.modulus = 0 THEN drawn.value = 0
       ELSE drawn.value * Sign(drawn.modulus) \in 0..(Abs(drawn.modulus) - 1)
  /\ drawn.kind = "shuffle" =>
       {drawn.value[k] : k \in DOMAIN drawn.value} = DOMAIN drawn.value

(* The bytes used and those still in the buffer are the blocks so far, one *)
(* after the other: no byte serves two draws, and none is passed over,     *)
(* across Read calls that end inside a block.                              *)
NoByteTwice ==
  LET bytes == used \o buf IN
  /\ Len(bytes) = (i - 1) * BlockLen
  /\ \A b \in 1..(i - 1), j \in 1..BlockLen : bytes[(b - 1) * BlockLen + j] = cipher[b][j]

(* The numbers that the bytes Big reads for n can spell, each in one way,  *)
(* and that make it return y.                                              *)
Spelt(n, y) ==
  {s \in 0..(2^(W * NumBytes(n)) - 1) : Accept(Candidate(s, n), n) /\ Candidate(s, n) = y}

(* A number drawn was as likely as any other below its modulus: equally    *)
(* many byte strings are accepted for each.                                *)
NumbersAreFair ==
  drawn.kind = "int" /\ drawn.modulus # 0 =>
    LET n == Abs(drawn.modulus) IN
    \A y \in 0..(n - 1) : /\ Spelt(n, y) # {}
                           /\ Cardinality(Spelt(n, y)) = Cardinality(Spelt(n, 0))

(* The draws that the loop of Permutation may make, d[m] for position      *)
(* n - m, and what it makes of them.                                       *)
Draws(n) == {d \in [1..(n - 1) -> 0..(n - 1)] :
               \A m \in 1..(n - 1) : d[m] < ShuffleModulus(n - m)}
Turns(n) == IF n = 0 THEN 0 ELSE n - 1
Shuffle(n, d) ==
  LET ret[m \in 0..Turns(n)] ==
        IF m = 0 THEN [k \in 0..(n - 1) |-> k] ELSE Swap(ret[m - 1], d[m], n - m)
  IN ret[Turns(n)]

Perms(n) == {f \in [0..(n - 1) -> 0..(n - 1)] : {f[k] : k \in 0..(n - 1)} = 0..(n - 1)}

(* A shuffle drawn was as likely as any other, if the numbers drawn for it *)
(* are fair: every permutation comes from exactly one sequence of draws.   *)
ShufflesAreFair ==
  drawn.kind = "shuffle" =>
    LET n == Cardinality(DOMAIN drawn.value) IN
    \A f \in Perms(n) : Cardinality({d \in Draws(n) : Shuffle(n, d) = f}) = 1
=============================================================================
