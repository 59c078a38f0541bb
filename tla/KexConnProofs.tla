---------------------------- MODULE KexConnProofs ----------------------------
(***************************************************************************)
(* The streams of the key exchange are intact, and EOF is their end, for   *)
(* buffers of any size, any number of messages and whatever the router     *)
(* returns.                                                                *)
(***************************************************************************)
EXTENDS KexConn, SequenceTheorems, TLAPS

(* The device that posted the empty message writes no more.                *)
Stopped(e) ==
  closed[e] /\ (writer[e] = "close" \/ writeErr[e] # "nil")

(* The messages a device has posted cut what it wrote into pieces, the     *)
(* empty one last.                                                         *)
Piece(m) ==
  /\ m.payload.by = m.sender
  /\ m.seqno >= 1
  /\ m.seqno <= writeSeqno[m.sender]
  /\ m.payload.lo + m.payload.len <= wrote[m.sender] + 1
  /\ m.seqno = 1 => m.payload.lo = 1
  /\ m.seqno = writeSeqno[m.sender] =>
       m.payload.lo + m.payload.len = wrote[m.sender] + 1
  /\ m.payload.len = 0 => m.seqno = writeSeqno[m.sender] /\ Stopped(m.sender)

Follow(m, k) ==
  m.sender = k.sender /\ k.seqno = m.seqno + 1 =>
    k.payload.lo = m.payload.lo + m.payload.len

Pieces ==
  /\ \A m \in posted : Piece(m)
  /\ \A m, k \in posted : Follow(m, k)
  /\ \A e \in Ends : writeSeqno[e] = 0 => wrote[e] = 0

(* The place after what was read and what is buffered.                     *)
After(e) ==
  IF bufferedMsgs[e] = << >>
  THEN Len(got[e]) + 1
  ELSE bufferedMsgs[e][Len(bufferedMsgs[e])].lo + bufferedMsgs[e][Len(bufferedMsgs[e])].len

(* The place is that of the next message to be accepted.                   *)
Placed(e) ==
  /\ readSeqno[e] <= writeSeqno[Other(e)]
  /\ After(e) <= wrote[Other(e)] + 1
  /\ readSeqno[e] = writeSeqno[Other(e)] => After(e) = wrote[Other(e)] + 1
  /\ \A m \in posted :
       m.sender = Other(e) /\ m.seqno = readSeqno[e] + 1 => m.payload.lo = After(e)

(* What is buffered goes on where the reading stopped, without a gap.      *)
Link(e, i) ==
  /\ bufferedMsgs[e][i].by = Other(e)
  /\ bufferedMsgs[e][i].lo + bufferedMsgs[e][i].len <= wrote[Other(e)] + 1
  /\ i = 1 => bufferedMsgs[e][i].lo = Len(got[e]) + 1
  /\ i < Len(bufferedMsgs[e]) =>
       bufferedMsgs[e][i + 1].lo = bufferedMsgs[e][i].lo + bufferedMsgs[e][i].len
  /\ bufferedMsgs[e][i].len = 0 =>
       /\ i = Len(bufferedMsgs[e])
       /\ readSeqno[e] = writeSeqno[Other(e)]
       /\ Stopped(Other(e))

Buffered(e) == \A i \in 1 .. Len(bufferedMsgs[e]) : Link(e, i)

InOrder(e) ==
  /\ Len(got[e]) <= wrote[Other(e)]
  /\ \A i \in 1 .. Len(got[e]) : got[e][i] = Byte(Other(e), i)

Ended(e) ==
  readErr[e] = "EOF" => Stopped(Other(e)) /\ Len(got[e]) = wrote[Other(e)]

(* Nothing goes on once there is an error.                                 *)
Quiet(e) ==
  /\ readErr[e] # "nil" => reader[e] = "idle"
  /\ writer[e] # "idle" => writeErr[e] = "nil"

ReadInv(e) == Placed(e) /\ Buffered(e) /\ InOrder(e) /\ Ended(e) /\ Quiet(e)

IInv == TypeOK /\ Pieces /\ \A e \in Ends : ReadInv(e)

-----------------------------------------------------------------------------
LEMMA TwoEnds ==
  /\ \A e \in Ends : Other(e) \in Ends /\ Other(e) # e /\ Other(Other(e)) = e
  /\ \A e, f \in Ends : f # e => f = Other(e)
BY DEF Ends, Other

(* The numbers, for the provers.                                           *)
LEMMA PostedTypes ==
  ASSUME TypeOK, NEW m \in posted
  PROVE  /\ m \in Packets /\ m.sender \in Ends /\ m.seqno \in Nat
         /\ m.payload \in Payloads /\ m.payload.lo \in Nat /\ m.payload.len \in Nat
<1>1. m \in Packets
  BY DEF TypeOK
<1> QED BY <1>1 DEF Packets, Payloads

LEMMA NumberTypes ==
  ASSUME TypeOK, NEW e \in Ends
  PROVE  /\ writeSeqno[e] \in Nat /\ wrote[e] \in Nat /\ readSeqno[e] \in Nat
         /\ room[e] \in Nat
         /\ bufferedMsgs[e] \in Seq(Payloads) /\ Len(bufferedMsgs[e]) \in Nat
         /\ got[e] \in Seq(Bytes) /\ Len(got[e]) \in Nat
BY LenProperties DEF TypeOK

LEMMA BufferTypes ==
  ASSUME TypeOK, NEW e \in Ends, NEW i \in 1 .. Len(bufferedMsgs[e])
  PROVE  /\ bufferedMsgs[e][i] \in Payloads
         /\ bufferedMsgs[e][i].lo \in Nat /\ bufferedMsgs[e][i].len \in Nat
<1>1. bufferedMsgs[e] \in Seq(Payloads)
  BY NumberTypes
<1>2. bufferedMsgs[e][i] \in Payloads
  BY <1>1, ElementOfSeq
<1> QED BY <1>2 DEF Payloads

LEMMA AfterType ==
  ASSUME TypeOK, NEW e \in Ends
  PROVE  After(e) \in Nat
<1>1. CASE bufferedMsgs[e] = << >>
  BY <1>1, NumberTypes DEF After
<1>2. CASE bufferedMsgs[e] # << >>
  <2>1. Len(bufferedMsgs[e]) \in Nat \ {0}
    BY <1>2, NumberTypes, EmptySeq
  <2>2. Len(bufferedMsgs[e]) \in 1 .. Len(bufferedMsgs[e])
    BY <2>1
  <2>3. bufferedMsgs[e][Len(bufferedMsgs[e])].lo \in Nat /\ bufferedMsgs[e][Len(bufferedMsgs[e])].len \in Nat
    BY <2>2, BufferTypes
  <2> QED BY <1>2, <2>3 DEF After
<1> QED BY <1>1, <1>2

LEMMA InitInv == Init => IInv
<1>1. << >> \in Seq(Payloads) /\ << >> \in Seq(Bytes) /\ Len(<< >>) = 0
  BY EmptySeq
<1> QED BY <1>1, TwoEnds
  DEF Init, IInv, TypeOK, Errors, Pieces, ReadInv, Placed, Buffered, InOrder, Ended, Quiet, After

-----------------------------------------------------------------------------
(* Writing: a new piece at the end of what was written, which the reader   *)
(* on the other side has not got to.                                       *)

LEMMA WriteLemma ==
  ASSUME IInv, NEW a \in Ends, NEW len \in Nat,
         writer[a] = "idle", writeWithLock(a, len), UNCHANGED <<writeErr, reading>>,
         closed' \in [Ends -> BOOLEAN], \A e \in Ends : closed[e] => closed'[e],
         NEW w \in {"write", "close"}, writer' = [writer EXCEPT ![a] = w],
         len = 0 => w = "close" /\ closed'[a]
  PROVE  IInv'
<1>0. PICK m0 : m0 = Packet(a, writeSeqno[a] + 1, Payload(a, wrote[a] + 1, len))
  OBVIOUS
<1>t. TypeOK /\ Pieces /\ \A e \in Ends : ReadInv(e)
  BY DEF IInv
<1>n. writeErr[a] = "nil" /\ readErr[a] \in {"nil", "EOF"}
  BY DEF writeWithLock, getErrorForWrite
<1>m. /\ m0 \in Packets /\ m0.sender = a /\ m0.seqno = writeSeqno[a] + 1
      /\ m0.payload.by = a /\ m0.payload.lo = wrote[a] + 1 /\ m0.payload.len = len
  BY <1>0, <1>t DEF TypeOK, Packets, Payloads, Packet, Payload
<1>p. /\ posted' = posted \cup {m0}
      /\ writeSeqno' = [writeSeqno EXCEPT ![a] = @ + 1]
      /\ wrote' = [wrote EXCEPT ![a] = @ + len]
      /\ readSeqno' = readSeqno /\ bufferedMsgs' = bufferedMsgs /\ readErr' = readErr
      /\ reader' = reader /\ room' = room /\ got' = got /\ writeErr' = writeErr
  BY <1>0 DEF writeWithLock, reading
<1>e. \A e \in Ends : /\ writeSeqno[e] \in Nat /\ wrote[e] \in Nat /\ readSeqno[e] \in Nat
                       /\ writeSeqno'[e] = (IF e = a THEN writeSeqno[a] + 1 ELSE writeSeqno[e])
                       /\ wrote'[e] = (IF e = a THEN wrote[a] + len ELSE wrote[e])
  BY <1>t, <1>p, NumberTypes DEF TypeOK
<1>1. TypeOK'
  <2>1. writeSeqno' \in [Ends -> Nat] /\ wrote' \in [Ends -> Nat]
    BY <1>t, <1>p DEF TypeOK
  <2>2. posted' \in SUBSET Packets /\ writer' \in [Ends -> {"idle", "write", "close"}]
    BY <1>t, <1>p, <1>m DEF TypeOK
  <2> QED BY <2>1, <2>2, <1>t, <1>p DEF TypeOK
<1>s. \A e \in Ends : Stopped(e) => e # a /\ Stopped(e)'
  BY <1>t, <1>n, <1>p DEF Stopped, TypeOK
<1>2. Pieces'
  <2>1. ASSUME NEW m \in posted PROVE Piece(m)'
    <3>1. /\ Piece(m) /\ m.sender \in Ends /\ m.seqno \in Nat
          /\ m.payload.lo \in Nat /\ m.payload.len \in Nat
      BY <1>t, PostedTypes DEF Pieces
    <3>2. m.payload.len = 0 => m.sender # a /\ Stopped(m.sender)'
      BY <3>1, <1>s DEF Piece
    <3>3. /\ m.seqno <= writeSeqno'[m.sender]
          /\ m.payload.lo + m.payload.len <= wrote'[m.sender] + 1
      BY <3>1, <1>e DEF Piece
    <3>4. m.seqno = writeSeqno'[m.sender] =>
            m.payload.lo + m.payload.len = wrote'[m.sender] + 1
      BY <3>1, <1>e DEF Piece
    <3>5. m.payload.len = 0 => m.seqno = writeSeqno'[m.sender]
      BY <3>1, <3>2, <1>e DEF Piece
    <3> QED BY <3>1, <3>2, <3>3, <3>4, <3>5 DEF Piece
  <2>2. Piece(m0)'
    <3>1. len = 0 => Stopped(a)'
      BY <1>t, <1>p DEF Stopped, TypeOK
    <3>2. writeSeqno[a] + 1 = 1 => wrote[a] = 0
      BY <1>t DEF Pieces, TypeOK
    <3> QED BY <3>1, <3>2, <1>m, <1>e DEF Piece
  <2>3. ASSUME NEW m \in posted PROVE Follow(m, m0) /\ Follow(m0, m)
    <3>1. /\ Piece(m) /\ m.sender \in Ends /\ m.seqno \in Nat
          /\ m.payload.lo \in Nat /\ m.payload.len \in Nat
      BY <1>t, PostedTypes DEF Pieces
    <3> QED BY <3>1, <1>m, <1>e DEF Piece, Follow
  <2>4. Follow(m0, m0)
    BY <1>m, <1>t DEF Follow, TypeOK
  <2>5. \A e \in Ends : writeSeqno'[e] = 0 => wrote'[e] = 0
    BY <1>t, <1>p DEF Pieces, TypeOK
  <2>6. \A m, k \in posted' : Follow(m, k)
    BY <2>3, <2>4, <1>p, <1>t DEF Pieces
  <2>7. \A m \in posted \cup {m0} : Piece(m)'
    BY <2>1, <2>2
  <2> QED BY <2>5, <2>6, <2>7, <1>p DEF Pieces, Follow
<1>3. ASSUME NEW e \in Ends PROVE ReadInv(e)'
  <2>1. ReadInv(e) /\ Other(e) \in Ends /\ Other(e) # e
    BY <1>t, TwoEnds
  <2>a. After(e)' = After(e)
    BY <1>p DEF After
  <2>b. After(e) \in Nat
    BY <1>t, AfterType
  <2>2. Placed(e)'
    <3>1. Placed(e)
      BY <2>1 DEF ReadInv
    <3>2. CASE Other(e) = a
      <4>1. \A m \in posted : m.sender = a => m.seqno <= writeSeqno[a] /\ m.seqno \in Nat
        BY <1>t, PostedTypes DEF Pieces, Piece
      <4> QED BY <3>1, <3>2, <4>1, <2>a, <2>b, <2>1, <1>m, <1>p, <1>e DEF Placed
    <3>3. CASE Other(e) # a
      BY <3>1, <3>3, <2>a, <2>1, <1>m, <1>p, <1>t DEF Placed, TypeOK
    <3> QED BY <3>2, <3>3
  <2>3. Buffered(e)'
    <3> SUFFICES ASSUME NEW i \in 1 .. Len(bufferedMsgs[e]) PROVE Link(e, i)'
      BY <1>p DEF Buffered
    <3>1. Link(e, i)
      BY <2>1 DEF ReadInv, Buffered
    <3>2. bufferedMsgs[e][i].len = 0 => writeSeqno'[Other(e)] = writeSeqno[Other(e)] /\ Stopped(Other(e))'
      BY <3>1, <1>s, <1>p, <1>t, <2>1 DEF Link, TypeOK
    <3>3. bufferedMsgs[e][i].lo \in Nat /\ bufferedMsgs[e][i].len \in Nat
      BY <1>t, BufferTypes
    <3>4. wrote[Other(e)] \in Nat /\ wrote'[Other(e)] \in Nat /\ wrote'[Other(e)] >= wrote[Other(e)]
      BY <1>e, <2>1
    <3>5. bufferedMsgs[e][i].lo + bufferedMsgs[e][i].len <= wrote'[Other(e)] + 1
      <4>1. bufferedMsgs[e][i].lo + bufferedMsgs[e][i].len <= wrote[Other(e)] + 1
        BY <3>1 DEF Link
      <4>2. \A x, y, z, v \in Nat : x + y <= z + 1 /\ v >= z => x + y <= v + 1
        OBVIOUS
      <4> QED BY <4>1, <4>2, <3>3, <3>4, Zenon
    <3>6. bufferedMsgs' = bufferedMsgs /\ readSeqno' = readSeqno /\ got' = got
      BY <1>p
    <3> QED BY <3>1, <3>2, <3>5, <3>6 DEF Link
  <2>4. InOrder(e)'
    BY <2>1, <1>p, <1>t DEF ReadInv, InOrder, TypeOK
  <2>5. Ended(e)'
    BY <2>1, <1>s, <1>p, <1>t DEF ReadInv, Ended, TypeOK
  <2>6. Quiet(e)'
    BY <2>1, <1>n, <1>p, <1>t DEF ReadInv, Quiet, TypeOK
  <2> QED BY <2>2, <2>3, <2>4, <2>5, <2>6 DEF ReadInv
<1> QED BY <1>1, <1>2, <1>3 DEF IInv

LEMMA ClosedStays ==
  ASSUME TypeOK, NEW a \in Ends, closed' = [closed EXCEPT ![a] = TRUE]
  PROVE  /\ closed' \in [Ends -> BOOLEAN] /\ closed'[a]
         /\ \A e \in Ends : closed[e] => closed'[e]
<1>1. closed \in [Ends -> BOOLEAN]
  BY DEF TypeOK
<1> QED BY <1>1, Zenon

LEMMA WriteInv ==
  ASSUME IInv, NEW a \in Ends, NEW len \in 0 .. MaxLen, Write(a, len)
  PROVE  IInv'
<1>1. len \in Nat /\ len # 0
  BY KexConnAssumption DEF Write
<1>2. closed' \in [Ends -> BOOLEAN] /\ \A e \in Ends : closed[e] => closed'[e]
  BY DEF Write, IInv, TypeOK
<1>3. /\ writer[a] = "idle" /\ writeWithLock(a, len) /\ UNCHANGED <<writeErr, reading>>
      /\ writer' = [writer EXCEPT ![a] = "write"]
  BY DEF Write
<1> QED BY <1>1, <1>2, <1>3, WriteLemma

(* When only errors and flags of a's writing side change, a stopped device *)
(* stays stopped and everything else is as before.                         *)
LEMMA FlagLemma ==
  ASSUME IInv, TypeOK', UNCHANGED <<writeSeqno, posted, wrote, reading>>,
         \A e \in Ends : Stopped(e) => Stopped(e)',
         \A e \in Ends : Quiet(e)'
  PROVE  IInv'
<1>p. /\ writeSeqno' = writeSeqno /\ posted' = posted /\ wrote' = wrote
      /\ readSeqno' = readSeqno /\ bufferedMsgs' = bufferedMsgs /\ readErr' = readErr
      /\ reader' = reader /\ room' = room /\ got' = got
  BY DEF reading
<1>t. TypeOK /\ Pieces /\ \A e \in Ends : ReadInv(e)
  BY DEF IInv
<1>1. Pieces'
  <2>1. ASSUME NEW m \in posted PROVE Piece(m)'
    BY <1>t, <1>p, PostedTypes DEF Pieces, Piece
  <2> QED BY <2>1, <1>p, <1>t DEF Pieces, Follow
<1>2. ASSUME NEW e \in Ends PROVE ReadInv(e)'
  <2>1. ReadInv(e) /\ Other(e) \in Ends
    BY <1>t, TwoEnds
  <2>2. Placed(e)'
    BY <2>1, <1>p DEF ReadInv, Placed, After
  <2>3. Buffered(e)'
    <3> SUFFICES ASSUME NEW i \in 1 .. Len(bufferedMsgs[e]) PROVE Link(e, i)'
      BY <1>p DEF Buffered
    <3>1. Link(e, i)
      BY <2>1 DEF ReadInv, Buffered
    <3> QED BY <3>1, <2>1, <1>p DEF Link
  <2>4. InOrder(e)' /\ Ended(e)'
    BY <2>1, <1>p DEF ReadInv, InOrder, Ended
  <2> QED BY <2>2, <2>3, <2>4 DEF ReadInv
<1> QED BY <1>t, <1>1, <1>2 DEF IInv

LEMMA CloseInv ==
  ASSUME IInv, NEW a \in Ends, Close(a)
  PROVE  IInv'
<1>1. TypeOK /\ \A e \in Ends : Quiet(e)
  BY DEF IInv, ReadInv
<1>c. /\ closed' \in [Ends -> BOOLEAN] /\ closed'[a]
      /\ \A e \in Ends : closed[e] => closed'[e]
  BY <1>1, ClosedStays DEF Close
<1>2. CASE writeWithLock(a, 0) /\ writer' = [writer EXCEPT ![a] = "close"]
  <2>1. writer[a] = "idle" /\ UNCHANGED <<writeErr, reading>>
    BY DEF Close
  <2> QED BY <1>2, <1>c, <2>1, WriteLemma
<1>3. CASE getErrorForWrite(a) # "nil" /\ UNCHANGED <<writeSeqno, posted, wrote, writer>>
  <2>1. UNCHANGED <<writeSeqno, posted, wrote, writer, writeErr, reading>>
    BY <1>3 DEF Close
  <2>2. TypeOK'
    BY <1>1, <1>c, <2>1 DEF TypeOK, reading
  <2>3. \A e \in Ends : (Stopped(e) => Stopped(e)') /\ Quiet(e)'
    BY <1>1, <1>c, <2>1 DEF Stopped, Quiet, reading
  <2> QED BY <2>1, <2>2, <2>3, FlagLemma
<1> QED BY <1>2, <1>3 DEF Close

LEMMA PostReturnsInv ==
  ASSUME IInv, NEW a \in Ends, PostReturns(a)
  PROVE  IInv'
<1>1. TypeOK /\ \A e \in Ends : Quiet(e)
  BY DEF IInv, ReadInv
<1>2. /\ UNCHANGED <<writeSeqno, posted, wrote, reading>> /\ closed' = closed
      /\ writer[a] # "idle" /\ writer' = [writer EXCEPT ![a] = "idle"]
  BY DEF PostReturns
<1>3. /\ writeErr' \in [Ends -> Errors]
      /\ \A e \in Ends : e # a => writeErr'[e] = writeErr[e]
      /\ writer[a] = "close" => writeErr'[a] # "nil"
  BY <1>1 DEF PostReturns, TypeOK, Errors
<1>4. writeErr[a] = "nil"
  BY <1>1, <1>2 DEF Quiet
<1>5. writer' \in [Ends -> {"idle", "write", "close"}] /\ writer'[a] = "idle"
      /\ \A e \in Ends : e # a => writer'[e] = writer[e]
  BY <1>1, <1>2 DEF TypeOK
<1>6. TypeOK'
  BY <1>1, <1>2, <1>3, <1>5 DEF TypeOK, reading
<1>7. \A e \in Ends : (Stopped(e) => Stopped(e)') /\ Quiet(e)'
  BY <1>1, <1>2, <1>3, <1>4, <1>5 DEF Stopped, Quiet, reading
<1> QED BY <1>2, <1>6, <1>7, FlagLemma

-----------------------------------------------------------------------------
(* Reading.  A step of a's Read leaves what was posted, and what the other *)
(* device reads, alone.                                                    *)

Same(e) ==
  /\ readSeqno'[e] = readSeqno[e] /\ bufferedMsgs'[e] = bufferedMsgs[e]
  /\ readErr'[e] = readErr[e] /\ reader'[e] = reader[e] /\ got'[e] = got[e]

LEMMA ReaderLemma ==
  ASSUME IInv, NEW a \in Ends, UNCHANGED writing, TypeOK',
         \A e \in Ends : e # a => Same(e),
         Placed(a)', Buffered(a)', InOrder(a)', Ended(a)', readErr'[a] # "nil" => reader'[a] = "idle"
  PROVE  IInv'
<1>p. /\ writeSeqno' = writeSeqno /\ writeErr' = writeErr /\ closed' = closed
      /\ writer' = writer /\ posted' = posted /\ wrote' = wrote
  BY DEF writing
<1>t. TypeOK /\ Pieces /\ \A e \in Ends : ReadInv(e)
  BY DEF IInv
<1>1. Pieces'
  <2>1. ASSUME NEW m \in posted PROVE Piece(m)'
    BY <1>t, <1>p DEF Pieces, Piece, Stopped
  <2> QED BY <2>1, <1>p, <1>t DEF Pieces, Follow
<1>2. ASSUME NEW e \in Ends, e # a PROVE ReadInv(e)'
  <2>1. ReadInv(e) /\ Same(e)
    BY <1>t, <1>2
  <2>2. Placed(e)'
    BY <2>1, <1>p DEF ReadInv, Placed, After, Same
  <2>3. Buffered(e)'
    <3> SUFFICES ASSUME NEW i \in 1 .. Len(bufferedMsgs[e]) PROVE Link(e, i)'
      BY <2>1 DEF Buffered, Same
    <3>1. Link(e, i)
      BY <2>1 DEF ReadInv, Buffered
    <3> QED BY <3>1, <2>1, <1>p DEF Link, Stopped, Same
  <2>4. InOrder(e)' /\ Ended(e)' /\ Quiet(e)'
    BY <2>1, <1>p DEF ReadInv, InOrder, Ended, Quiet, Stopped, Same
  <2> QED BY <2>2, <2>3, <2>4 DEF ReadInv
<1>3. Quiet(a)'
  BY <1>t, <1>p DEF ReadInv, Quiet
<1> QED BY <1>1, <1>2, <1>3 DEF IInv, ReadInv

(* The steps that neither take a message in nor hand a byte out.           *)
LEMMA IdleLemma ==
  ASSUME IInv, NEW a \in Ends, UNCHANGED <<readSeqno, bufferedMsgs, got, writing>>, TypeOK',
         \A e \in Ends : e # a => reader'[e] = reader[e] /\ readErr'[e] = readErr[e],
         readErr'[a] # "nil" => reader'[a] = "idle",
         Ended(a)'
  PROVE  IInv'
<1>p. /\ writeSeqno' = writeSeqno /\ writeErr' = writeErr /\ closed' = closed
      /\ writer' = writer /\ posted' = posted /\ wrote' = wrote
      /\ readSeqno' = readSeqno /\ bufferedMsgs' = bufferedMsgs /\ got' = got
  BY DEF writing
<1>1. ReadInv(a)
  BY DEF IInv
<1>2. Placed(a)' /\ InOrder(a)'
  BY <1>1, <1>p DEF ReadInv, Placed, After, InOrder
<1>3. Buffered(a)'
  <2> SUFFICES ASSUME NEW i \in 1 .. Len(bufferedMsgs[a]) PROVE Link(a, i)'
    BY <1>p DEF Buffered
  <2>1. Link(a, i)
    BY <1>1 DEF ReadInv, Buffered
  <2> QED BY <2>1, <1>p DEF Link, Stopped
<1>4. \A e \in Ends : e # a => Same(e)
  BY <1>p DEF Same
<1> QED BY <1>2, <1>3, <1>4, ReaderLemma

(* An empty message in front is the last of all.                           *)
LEMMA FrontIsEnd ==
  ASSUME IInv, NEW a \in Ends, bufferedMsgs[a] # << >>, Head(bufferedMsgs[a]).len = 0
  PROVE  Stopped(Other(a)) /\ Len(got[a]) = wrote[Other(a)]
<1>1. TypeOK /\ ReadInv(a) /\ Other(a) \in Ends
  BY TwoEnds DEF IInv
<1>2. bufferedMsgs[a] \in Seq(Payloads) /\ Len(bufferedMsgs[a]) \in Nat \ {0}
  BY <1>1, NumberTypes, EmptySeq
<1>3. Head(bufferedMsgs[a]) = bufferedMsgs[a][1] /\ 1 \in 1 .. Len(bufferedMsgs[a])
  BY <1>2
<1>4. Link(a, 1)
  BY <1>1, <1>3 DEF ReadInv, Buffered
<1>5. /\ Len(bufferedMsgs[a]) = 1 /\ readSeqno[a] = writeSeqno[Other(a)] /\ Stopped(Other(a))
      /\ bufferedMsgs[a][1].lo = Len(got[a]) + 1 /\ bufferedMsgs[a][1].len = 0
  BY <1>3, <1>4 DEF Link
<1>6. After(a) = Len(got[a]) + 1
  BY <1>5, <1>1, NumberTypes DEF After
<1>7. After(a) = wrote[Other(a)] + 1
  BY <1>5, <1>1 DEF ReadInv, Placed
<1> QED BY <1>1, <1>5, <1>6, <1>7, NumberTypes

LEMMA ReturnTypes ==
  ASSUME TypeOK, NEW a \in Ends, Return(a), UNCHANGED <<readSeqno, bufferedMsgs, got, writing>>,
         NEW err \in Errors, readErr' = [readErr EXCEPT ![a] = err] \/ readErr' = readErr
  PROVE  /\ TypeOK' /\ reader'[a] = "idle"
         /\ readErr' = [readErr EXCEPT ![a] = err] => readErr'[a] = err
         /\ \A e \in Ends : e # a => reader'[e] = reader[e] /\ readErr'[e] = readErr[e]
<1>t. /\ readErr \in [Ends -> Errors] /\ room \in [Ends -> Nat]
      /\ reader \in [Ends -> {"idle", "poll", "copy", "more"}]
  BY DEF TypeOK
<1>r. reader' = [reader EXCEPT ![a] = "idle"] /\ room' = [room EXCEPT ![a] = 0]
  BY DEF Return
<1>1. readErr' \in [Ends -> Errors]
  BY <1>t
<1>2. reader' \in [Ends -> {"idle", "poll", "copy", "more"}] /\ room' \in [Ends -> Nat]
  BY <1>t, <1>r
<1>3. TypeOK'
  BY <1>1, <1>2 DEF TypeOK, writing
<1>4. reader'[a] = "idle" /\ \A e \in Ends : e # a => reader'[e] = reader[e]
  BY <1>t, <1>r
<1>5. /\ readErr' = [readErr EXCEPT ![a] = err] => readErr'[a] = err
      /\ \A e \in Ends : e # a => readErr'[e] = readErr[e]
  BY <1>t
<1> QED BY <1>3, <1>4, <1>5

LEMMA ReturnInv ==
  ASSUME IInv, NEW a \in Ends, Return(a), UNCHANGED <<readSeqno, bufferedMsgs, got, writing>>,
         \/ readErr' = readErr
         \/ readErr' = [readErr EXCEPT ![a] = "failed"]
         \/ /\ readErr' = [readErr EXCEPT ![a] = "EOF"]
            /\ bufferedMsgs[a] # << >> /\ Head(bufferedMsgs[a]).len = 0
  PROVE  IInv'
<1>1. TypeOK /\ Ended(a)
  BY DEF IInv, ReadInv
<1>2. "failed" \in Errors /\ "EOF" \in Errors
  BY DEF Errors
<1>3. /\ TypeOK' /\ reader'[a] = "idle"
      /\ \A e \in Ends : e # a => reader'[e] = reader[e] /\ readErr'[e] = readErr[e]
  BY <1>1, <1>2, ReturnTypes
<1>4. Ended(a)'
  <2>1. readErr'[a] = "EOF" => readErr[a] = "EOF" \/ (Stopped(Other(a)) /\ Len(got[a]) = wrote[Other(a)])
    BY <1>1, <1>2, ReturnTypes, FrontIsEnd
  <2> QED BY <2>1, <1>1 DEF Ended, Stopped, writing
<1> QED BY <1>3, <1>4, IdleLemma

LEMMA ReadBeginInv ==
  ASSUME IInv, NEW a \in Ends, NEW n \in 0 .. MaxOut, ReadBegin(a, n)
  PROVE  IInv'
<1>1. TypeOK /\ Ended(a)
  BY DEF IInv, ReadInv
<1>2. CASE setReadError(a, "failed")
  BY <1>2, ReturnInv DEF ReadBegin, setReadError
<1>3. CASE /\ reader' \in {[reader EXCEPT ![a] = "copy"], [reader EXCEPT ![a] = "poll"]}
           /\ room' = [room EXCEPT ![a] = n] /\ readErr' = readErr
  <2>1. UNCHANGED <<readSeqno, bufferedMsgs, got, writing>> /\ readErr[a] = "nil"
    BY DEF ReadBegin, getErrorForRead
  <2>2. n \in Nat
    BY KexConnAssumption
  <2>3. TypeOK'
    BY <1>1, <1>3, <2>1, <2>2 DEF TypeOK, writing
  <2>4. \A e \in Ends : e # a => reader'[e] = reader[e] /\ readErr'[e] = readErr[e]
    BY <1>1, <1>3 DEF TypeOK
  <2>5. Ended(a)'
    BY <1>1, <1>3, <2>1 DEF Ended
  <2> QED BY <1>3, <2>1, <2>3, <2>4, <2>5, IdleLemma
<1> QED BY <1>2, <1>3 DEF ReadBegin

LEMMA ReadEndsInv ==
  ASSUME IInv, NEW a \in Ends, ReadEnds(a)
  PROVE  IInv'
BY ReturnInv DEF ReadEnds, setReadError

LEMMA PollEmptyInv ==
  ASSUME IInv, NEW a \in Ends, PollEmpty(a) \/ PollFails(a)
  PROVE  IInv'
BY ReturnInv DEF PollEmpty, PollFails, setReadError

(* The first k messages of a batch, each the successor of the one before.  *)
LEMMA PollGetsInv ==
  ASSUME IInv, NEW a \in Ends, PollGets(a)
  PROVE  IInv'
<1>1. PICK n \in 1 .. MaxBatch : \E msgs \in [1 .. n -> posted \cup {Junk}] :
        \E k \in 0 .. n : decryptIncomingMessages(a, msgs, k)
  BY DEF PollGets
<1>2. PICK msgs \in [1 .. n -> posted \cup {Junk}], k \in 0 .. n :
        decryptIncomingMessages(a, msgs, k)
  BY <1>1
<1> DEFINE p == Other(a)
           new == [i \in 1 .. k |-> msgs[i].payload]
<1>n. n \in Nat /\ k \in Nat /\ k <= n
  BY KexConnAssumption
<1>t. /\ TypeOK /\ Pieces /\ ReadInv(a) /\ Other(a) \in Ends /\ Other(a) # a
      /\ \A e \in Ends : e # a => e = Other(a)
  BY TwoEnds DEF IInv
<1>e. /\ readSeqno[a] \in Nat /\ writeSeqno[p] \in Nat /\ wrote[p] \in Nat /\ After(a) \in Nat
      /\ bufferedMsgs[a] \in Seq(Payloads) /\ Len(bufferedMsgs[a]) \in Nat /\ Len(got[a]) \in Nat
  BY <1>t, NumberTypes, AfterType
<1>m. ASSUME NEW i \in 1 .. k
      PROVE  /\ msgs[i] \in posted /\ msgs[i].sender = p /\ msgs[i].seqno = readSeqno[a] + i
             /\ msgs[i].payload \in Payloads
             /\ msgs[i].payload.lo \in Nat /\ msgs[i].payload.len \in Nat
             /\ Piece(msgs[i])
  <2>1. Acceptable(a, msgs[i], i) /\ i \in 1 .. n
    BY <1>2, <1>n DEF decryptIncomingMessages
  <2>2. msgs[i] \in posted /\ msgs[i].sender # a /\ msgs[i].seqno = readSeqno[a] + i
    BY <2>1 DEF Acceptable
  <2> QED BY <2>2, <1>t, PostedTypes DEF Pieces
<1>w. \A i \in 1 .. k : readSeqno[a] + i <= writeSeqno[p]
  BY <1>m, <1>e DEF Piece
<1>v. new \in Seq(Payloads) /\ Len(new) = k /\ \A i \in 1 .. k : new[i] = msgs[i].payload
  BY <1>m, <1>n
<1> HIDE DEF new
<1>b. /\ bufferedMsgs' = [bufferedMsgs EXCEPT ![a] = @ \o new]
      /\ readSeqno' = [readSeqno EXCEPT ![a] = @ + k]
      /\ \/ setReadError(a, "failed")
         \/ reader' = [reader EXCEPT ![a] = "copy"] /\ UNCHANGED <<readErr, room>>
      /\ UNCHANGED <<got, writing>> /\ reader[a] = "poll"
  BY <1>2 DEF decryptIncomingMessages, PollGets, new
<1>c. /\ bufferedMsgs'[a] = bufferedMsgs[a] \o new /\ readSeqno'[a] = readSeqno[a] + k
      /\ \A e \in Ends : e # a => bufferedMsgs'[e] = bufferedMsgs[e] /\ readSeqno'[e] = readSeqno[e]
      /\ got' = got /\ wrote' = wrote /\ writeSeqno' = writeSeqno /\ posted' = posted
      /\ closed' = closed /\ writer' = writer /\ writeErr' = writeErr
  BY <1>b, <1>t DEF TypeOK, writing
<1>L. PICK L \in Nat : L = Len(bufferedMsgs[a])
  BY <1>e
<1>l. /\ bufferedMsgs'[a] \in Seq(Payloads)
      /\ Len(bufferedMsgs'[a]) = L + k
      /\ \A i \in 1 .. L : bufferedMsgs'[a][i] = bufferedMsgs[a][i]
      /\ \A j \in 1 .. k : bufferedMsgs'[a][L + j] = msgs[j].payload
  <2>1. /\ bufferedMsgs[a] \o new \in Seq(Payloads)
        /\ Len(bufferedMsgs[a] \o new) = L + k
        /\ \A i \in 1 .. L + k : (bufferedMsgs[a] \o new)[i] =
             IF i <= L THEN bufferedMsgs[a][i] ELSE new[i - L]
    <3>1. bufferedMsgs[a] \in Seq(Payloads)
      BY <1>e
    <3>2. Len(new) = k /\ new \in Seq(Payloads)
      BY <1>v
    <3> QED BY <3>1, <3>2, <1>L, ConcatProperties
  <2>2. ASSUME NEW i \in 1 .. L
        PROVE  bufferedMsgs'[a][i] = bufferedMsgs[a][i]
    <3>1. i \in 1 .. L + k /\ i <= L
      BY <1>L, <1>n
    <3> QED BY <3>1, <2>1, <1>c
  <2>3. ASSUME NEW j \in 1 .. k
        PROVE  bufferedMsgs'[a][L + j] = msgs[j].payload
    <3>1. L + j \in 1 .. L + k /\ ~(L + j <= L) /\ (L + j) - L = j
      BY <1>L, <1>n
    <3> QED BY <3>1, <2>1, <1>c, <1>v
  <2> QED BY <2>1, <2>2, <2>3, <1>c
<1>r. /\ reader'[a] \in {"idle", "copy"} /\ readErr'[a] \in {"nil", "failed"}
      /\ readErr'[a] # "nil" => reader'[a] = "idle"
      /\ \A e \in Ends : e # a => reader'[e] = reader[e] /\ readErr'[e] = readErr[e]
  <2>1. readErr[a] = "nil"
    BY <1>b, <1>t DEF ReadInv, Quiet
  <2> QED BY <2>1, <1>b, <1>t DEF TypeOK, setReadError, Return
<1>3. TypeOK'
  <2>1. readSeqno' \in [Ends -> Nat] /\ bufferedMsgs' \in [Ends -> Seq(Payloads)]
    <3>1. bufferedMsgs[a] \o new \in Seq(Payloads) /\ readSeqno[a] + k \in Nat
      BY <1>l, <1>c, <1>e, <1>n
    <3> QED BY <3>1, <1>b, <1>t DEF TypeOK
  <2>2. /\ reader' \in [Ends -> {"idle", "poll", "copy", "more"}] /\ room' \in [Ends -> Nat]
        /\ readErr' \in [Ends -> Errors]
    <3>1. /\ reader \in [Ends -> {"idle", "poll", "copy", "more"}] /\ room \in [Ends -> Nat]
          /\ readErr \in [Ends -> Errors] /\ "failed" \in Errors
      BY <1>t DEF TypeOK, Errors
    <3>2. CASE setReadError(a, "failed")
      BY <3>1, <3>2 DEF setReadError, Return
    <3>3. CASE reader' = [reader EXCEPT ![a] = "copy"] /\ UNCHANGED <<readErr, room>>
      BY <3>1, <3>3
    <3> QED BY <3>2, <3>3, <1>b
  <2> QED BY <2>1, <2>2, <1>c, <1>t DEF TypeOK
<1>a. /\ k = 0 => After(a)' = After(a)
      /\ k > 0 => After(a)' = msgs[k].payload.lo + msgs[k].payload.len
  <2>1. CASE k = 0
    <3>1. bufferedMsgs'[a] = bufferedMsgs[a]
      <4>1. new = << >>
        BY <2>1, <1>v, EmptySeq
      <4> QED BY <4>1, <1>c, <1>e, ConcatEmptySeq
    <3> QED BY <2>1, <3>1, <1>c DEF After
  <2>2. CASE k > 0
    <3>1. Len(bufferedMsgs'[a]) # 0 /\ k \in 1 .. k
      BY <2>2, <1>l, <1>L, <1>n
    <3>2. bufferedMsgs'[a] # << >>
      BY <3>1, EmptySeq
    <3>3. bufferedMsgs'[a][Len(bufferedMsgs'[a])] = msgs[k].payload
      BY <3>1, <1>l
    <3> QED BY <2>2, <3>2, <3>3 DEF After
  <2> QED BY <2>1, <2>2, <1>n
<1>f. ASSUME NEW i \in 1 .. k, i < k
      PROVE  msgs[i + 1].payload.lo = msgs[i].payload.lo + msgs[i].payload.len
  <2>1. i + 1 \in 1 .. k
    BY <1>f, <1>n
  <2>2. msgs[i + 1].seqno = msgs[i].seqno + 1
    <3>1. msgs[i + 1].seqno = readSeqno[a] + (i + 1) /\ msgs[i].seqno = readSeqno[a] + i
      BY <1>m, <2>1
    <3>2. readSeqno[a] \in Nat /\ i \in Nat
      BY <1>e, <1>n
    <3> QED BY <3>1, <3>2
  <2> QED BY <2>1, <2>2, <1>m, <1>t DEF Pieces, Follow
<1>g. k > 0 => msgs[1].payload.lo = After(a)
  BY <1>m, <1>t, <1>n DEF ReadInv, Placed
<1>4. Placed(a)'
  <2>1. CASE k = 0
    BY <2>1, <1>a, <1>c, <1>t, <1>e DEF ReadInv, Placed
  <2>2. CASE k > 0
    <3>1. k \in 1 .. k
      BY <2>2, <1>n
    <3>2. readSeqno[a] + k <= writeSeqno[p]
      BY <3>1, <1>w
    <3>3. /\ After(a)' <= wrote[p] + 1
          /\ readSeqno[a] + k = writeSeqno[p] => After(a)' = wrote[p] + 1
      BY <2>2, <3>1, <1>a, <1>m DEF Piece
    <3>4. ASSUME NEW m \in posted, m.sender = p, m.seqno = readSeqno[a] + k + 1
          PROVE  m.payload.lo = After(a)'
      BY <2>2, <3>1, <3>4, <1>a, <1>m, <1>t DEF Pieces, Follow
    <3> QED BY <3>2, <3>3, <3>4, <1>c DEF Placed
  <2> QED BY <2>1, <2>2, <1>n
<1>5. Buffered(a)'
  <2> SUFFICES ASSUME NEW i \in 1 .. L + k PROVE Link(a, i)'
    BY <1>l DEF Buffered
  <2>0. i \in Nat /\ i >= 1 /\ i <= L + k
    BY <1>L, <1>n
  <2>1. CASE i <= L
    <3>1. Link(a, i) /\ i \in 1 .. L
      BY <2>0, <2>1, <1>L, <1>t DEF ReadInv, Buffered
    <3>2. bufferedMsgs'[a][i] = bufferedMsgs[a][i]
      BY <3>1, <1>l
    <3>3. CASE i < L
      <4>0. i + 1 \in 1 .. L
        BY <2>0, <3>3, <1>L
      <4>1. bufferedMsgs'[a][i + 1] = bufferedMsgs[a][i + 1]
        BY <4>0, <1>l
      <4>2. bufferedMsgs[a][i].len # 0
        BY <3>1, <3>3, <2>0, <1>L DEF Link
      <4> QED BY <3>1, <3>2, <3>3, <4>1, <4>2, <1>c, <1>L DEF Link
    <3>4. CASE i = L /\ k > 0
      <4>0. 1 \in 1 .. k
        BY <3>4, <1>n
      <4>1. bufferedMsgs'[a][i + 1] = msgs[1].payload
        BY <4>0, <3>4, <1>l
      <4>2. After(a) = bufferedMsgs[a][i].lo + bufferedMsgs[a][i].len
        BY <3>4, <2>0, <1>L, EmptySeq DEF After
      <4>3. bufferedMsgs[a][i].len # 0
        BY <3>1, <4>0, <1>w, <1>e, <1>n DEF Link
      <4> QED BY <3>1, <3>2, <3>4, <4>1, <4>2, <4>3, <1>c, <1>g DEF Link
    <3>5. CASE i = L /\ k = 0
      <4>1. Len(bufferedMsgs'[a]) = L /\ readSeqno'[a] = readSeqno[a]
        BY <3>5, <1>l, <1>c, <1>e, <1>L
      <4> QED BY <3>1, <3>2, <3>5, <4>1, <2>0, <1>c, <1>L DEF Link, Stopped
    <3> QED BY <2>0, <2>1, <3>3, <3>4, <3>5, <1>n, <1>L
  <2>2. CASE i > L
    <3>1. PICK j \in 1 .. k : i = L + j
      <4>1. i - L \in 1 .. k /\ i = L + (i - L)
        BY <2>0, <2>2, <1>n, <1>L
      <4> QED BY <4>1
    <3>2. bufferedMsgs'[a][i] = msgs[j].payload
      BY <3>1, <1>l
    <3>3. /\ msgs[j].payload.by = p /\ msgs[j].payload.lo + msgs[j].payload.len <= wrote[p] + 1
          /\ msgs[j].payload.len = 0 => readSeqno[a] + j = writeSeqno[p] /\ Stopped(p)
      BY <1>m DEF Piece
    <3>4. msgs[j].payload.len = 0 => j = k
      <4>1. k \in 1 .. k
        BY <1>n
      <4>2. readSeqno[a] + k <= writeSeqno[p]
        BY <4>1, <1>w
      <4> QED BY <4>2, <3>3, <1>e, <1>n
    <3>5. i = 1 => msgs[j].payload.lo = Len(got[a]) + 1
      <4> SUFFICES ASSUME i = 1 PROVE msgs[j].payload.lo = Len(got[a]) + 1
        OBVIOUS
      <4>1. L = 0 /\ j = 1 /\ k > 0
        BY <3>1, <1>L, <1>n
      <4>2. bufferedMsgs[a] = << >>
        BY <4>1, <1>L, <1>e, EmptySeq
      <4> QED BY <4>1, <4>2, <1>g DEF After
    <3>6. i < L + k => bufferedMsgs'[a][i + 1].lo = msgs[j].payload.lo + msgs[j].payload.len
      <4> SUFFICES ASSUME i < L + k
                   PROVE  bufferedMsgs'[a][i + 1].lo = msgs[j].payload.lo + msgs[j].payload.len
        OBVIOUS
      <4>0. j \in Nat /\ L \in Nat /\ k \in Nat /\ j >= 1 /\ L + j < L + k
        BY <3>1, <1>n, <1>L
      <4>1. j < k /\ j + 1 \in 1 .. k /\ i + 1 = L + (j + 1)
        BY <4>0, <3>1
      <4>2. bufferedMsgs'[a][i + 1] = msgs[j + 1].payload
        BY <4>1, <1>l
      <4> QED BY <4>1, <4>2, <1>f
    <3>7. msgs[j].payload.len = 0 =>
            i = Len(bufferedMsgs'[a]) /\ readSeqno'[a] = writeSeqno'[p] /\ Stopped(p)'
      BY <3>1, <3>3, <3>4, <1>l, <1>c DEF Stopped
    <3> QED BY <3>2, <3>3, <3>5, <3>6, <3>7, <1>c, <1>l DEF Link
  <2> QED BY <2>0, <2>1, <2>2, <1>L
<1>6. InOrder(a)' /\ Ended(a)'
  BY <1>c, <1>r, <1>t DEF ReadInv, InOrder, Ended
<1>7. \A e \in Ends : e # a => Same(e)
  BY <1>c, <1>r DEF Same
<1> QED BY <1>3, <1>4, <1>5, <1>6, <1>7, <1>r, <1>b, ReaderLemma

(* The bytes handed out are the next ones, and what is left goes on after  *)
(* them.                                                                   *)
LEMMA CopyInv ==
  ASSUME IInv, NEW a \in Ends, Copy(a)
  PROVE  IInv'
<1> DEFINE p == Other(a)
<1>t. /\ TypeOK /\ Pieces /\ ReadInv(a) /\ Other(a) \in Ends /\ Other(a) # a
      /\ \A e \in Ends : e # a => e = Other(a)
  BY TwoEnds DEF IInv
<1>e. /\ readSeqno[a] \in Nat /\ writeSeqno[p] \in Nat /\ wrote[p] \in Nat /\ After(a) \in Nat
      /\ room[a] \in Nat /\ bufferedMsgs[a] \in Seq(Payloads) /\ got[a] \in Seq(Bytes)
  BY <1>t, NumberTypes, AfterType
<1>G. PICK G \in Nat : G = Len(got[a])
  BY <1>t, NumberTypes
<1>L. PICK L \in Nat : L = Len(bufferedMsgs[a]) /\ L # 0
  BY <1>t, <1>e, NumberTypes, EmptySeq DEF Copy
<1>0. L \in Nat /\ L >= 1 /\ G \in Nat
  BY <1>G, <1>L
<1>1. L = Len(bufferedMsgs[a]) /\ G = Len(got[a]) /\ L \in Nat /\ L >= 1
  BY <1>G, <1>L
<1>2. PICK front : front = Head(bufferedMsgs[a]) /\ front = bufferedMsgs[a][1]
  BY <1>1, <1>e DEF Copy
<1>3. /\ front \in Payloads /\ front.by = p /\ front.lo = G + 1 /\ front.len \in Nat
      /\ front.lo + front.len <= wrote[p] + 1
      /\ 1 < L => bufferedMsgs[a][2].lo = front.lo + front.len
  <2>1. 1 \in 1 .. Len(bufferedMsgs[a])
    BY <1>1
  <2>2. Link(a, 1)
    BY <2>1, <1>t DEF ReadInv, Buffered
  <2> QED BY <1>1, <1>2, <2>1, <2>2, <1>t, BufferTypes DEF Link
<1>4. PICK n : n = Smaller(room[a], front.len)
  OBVIOUS
<1>5. n \in Nat /\ n >= 1 /\ n <= front.len /\ n <= room[a]
  BY <1>2, <1>3, <1>4, <1>e DEF Copy, Smaller
<1> DEFINE add == [i \in 1 .. n |-> Byte(front.by, front.lo + i - 1)]
<1>6. /\ got' = [got EXCEPT ![a] = @ \o add]
      /\ bufferedMsgs' = [bufferedMsgs EXCEPT ![a] = Rest(front, n) \o Tail(@)]
      /\ room' = [room EXCEPT ![a] = @ - n]
      /\ reader' = [reader EXCEPT ![a] = "more"]
      /\ UNCHANGED <<readSeqno, readErr, writing>> /\ reader[a] # "idle"
  BY <1>2, <1>4 DEF Copy
<1>a. /\ add \in Seq(Bytes) /\ Len(add) = n
      /\ \A i \in 1 .. n : add[i] = Byte(p, G + i)
  <2>1. \A i \in 1 .. n : Byte(front.by, front.lo + i - 1) = Byte(p, G + i)
    BY <1>1, <1>3, <1>5
  <2>2. \A i \in 1 .. n : Byte(p, G + i) \in Bytes
    BY <1>1, <1>5, <1>t DEF Byte, Bytes
  <2> QED BY <2>1, <2>2, <1>5
<1> HIDE DEF add
<1>c. /\ got'[a] = got[a] \o add /\ bufferedMsgs'[a] = Rest(front, n) \o Tail(bufferedMsgs[a])
      /\ \A e \in Ends : e # a => /\ bufferedMsgs'[e] = bufferedMsgs[e] /\ got'[e] = got[e]
                                  /\ reader'[e] = reader[e]
      /\ readSeqno' = readSeqno /\ readErr' = readErr /\ wrote' = wrote
      /\ writeSeqno' = writeSeqno /\ posted' = posted
      /\ closed' = closed /\ writer' = writer /\ writeErr' = writeErr
  BY <1>6, <1>t DEF TypeOK, writing
<1>g. /\ got'[a] \in Seq(Bytes) /\ Len(got'[a]) = G + n
      /\ \A i \in 1 .. G + n : got'[a][i] = Byte(p, i)
  <2>1. /\ got[a] \o add \in Seq(Bytes) /\ Len(got[a] \o add) = G + n
        /\ \A i \in 1 .. G + n : (got[a] \o add)[i] = IF i <= G THEN got[a][i] ELSE add[i - G]
    <3>1. /\ got[a] \o add \in Seq(Bytes) /\ Len(got[a] \o add) = Len(got[a]) + Len(add)
          /\ \A i \in 1 .. Len(got[a]) + Len(add) : (got[a] \o add)[i] =
               IF i <= Len(got[a]) THEN got[a][i] ELSE add[i - Len(got[a])]
      BY <1>a, <1>e, ConcatProperties
    <3> QED BY <3>1, <1>G, <1>a
  <2>2. ASSUME NEW i \in 1 .. G + n PROVE (got[a] \o add)[i] = Byte(p, i)
    <3>1. CASE i <= G
      <4>1. i \in 1 .. G
        BY <3>1, <1>1, <1>5
      <4> QED BY <3>1, <4>1, <2>1, <1>1, <1>t DEF ReadInv, InOrder
    <3>2. CASE ~(i <= G)
      <4>1. i - G \in 1 .. n /\ G + (i - G) = i
        BY <3>2, <1>1, <1>5
      <4> QED BY <3>2, <4>1, <2>1, <1>a
    <3> QED BY <3>1, <3>2
  <2> QED BY <2>1, <2>2, <1>c
<1>b. /\ bufferedMsgs'[a] \in Seq(Payloads)
      /\ \/ /\ n = front.len /\ Len(bufferedMsgs'[a]) = L - 1
            /\ \A i \in 1 .. L - 1 : bufferedMsgs'[a][i] = bufferedMsgs[a][i + 1]
         \/ /\ n < front.len /\ Len(bufferedMsgs'[a]) = L
            /\ bufferedMsgs'[a][1] = Payload(p, front.lo + n, front.len - n)
            /\ \A i \in 2 .. L : bufferedMsgs'[a][i] = bufferedMsgs[a][i]
  <2>1. /\ Tail(bufferedMsgs[a]) \in Seq(Payloads) /\ Len(Tail(bufferedMsgs[a])) = L - 1
        /\ \A i \in 1 .. L - 1 : Tail(bufferedMsgs[a])[i] = bufferedMsgs[a][i + 1]
    BY <1>1, <1>e, HeadTailProperties, EmptySeq
  <2>2. CASE n = front.len
    <3>1. bufferedMsgs'[a] = Tail(bufferedMsgs[a])
      BY <2>1, <2>2, <1>c, ConcatEmptySeq DEF Rest
    <3> QED BY <2>1, <2>2, <3>1
  <2>3. CASE n < front.len
    <3>0. PICK x : x = Payload(p, front.lo + n, front.len - n)
      OBVIOUS
    <3>1. x \in Payloads
      BY <3>0, <2>3, <1>1, <1>3, <1>5, <1>t DEF Payloads, Payload
    <3>2. <<x>> \in Seq(Payloads) /\ Len(<<x>>) = 1 /\ <<x>>[1] = x
      BY <3>1
    <3>3. bufferedMsgs'[a] = <<x>> \o Tail(bufferedMsgs[a])
      <4>1. n # front.len
        BY <2>3, <1>3, <1>5
      <4>2. Rest(front, n) = <<x>>
        BY <4>1, <3>0, <1>3 DEF Rest
      <4> QED BY <4>2, <1>c
    <3>4. /\ bufferedMsgs'[a] \in Seq(Payloads) /\ Len(bufferedMsgs'[a]) = 1 + (L - 1)
          /\ \A i \in 1 .. 1 + (L - 1) : bufferedMsgs'[a][i] =
               IF i <= 1 THEN <<x>>[i] ELSE Tail(bufferedMsgs[a])[i - 1]
      BY <3>2, <3>3, <2>1, ConcatProperties
    <3>5. bufferedMsgs'[a][1] = x /\ Len(bufferedMsgs'[a]) = L
      BY <3>2, <3>4, <1>1
    <3>6. ASSUME NEW i \in 2 .. L PROVE bufferedMsgs'[a][i] = bufferedMsgs[a][i]
      <4>1. i \in 1 .. 1 + (L - 1) /\ ~(i <= 1) /\ i - 1 \in 1 .. L - 1 /\ (i - 1) + 1 = i
        BY <1>1
      <4> QED BY <4>1, <3>4, <2>1
    <3> QED BY <2>3, <3>0, <3>4, <3>5, <3>6
  <2> QED BY <2>2, <2>3, <1>3, <1>5
<1>r. n < front.len =>
        /\ Len(bufferedMsgs'[a]) = L
        /\ bufferedMsgs'[a][1].by = p /\ bufferedMsgs'[a][1].lo = front.lo + n
        /\ bufferedMsgs'[a][1].len = front.len - n
        /\ \A i \in 2 .. L : bufferedMsgs'[a][i] = bufferedMsgs[a][i]
  <2> SUFFICES ASSUME n < front.len
               PROVE  /\ Len(bufferedMsgs'[a]) = L
                      /\ bufferedMsgs'[a][1] = Payload(p, front.lo + n, front.len - n)
                      /\ \A i \in 2 .. L : bufferedMsgs'[a][i] = bufferedMsgs[a][i]
    BY DEF Payload
  <2>1. n # front.len
    BY <1>3, <1>5
  <2> QED BY <2>1, <1>b
<1>7. TypeOK'
  <2>1. got' \in [Ends -> Seq(Bytes)] /\ bufferedMsgs' \in [Ends -> Seq(Payloads)]
    <3>1. got[a] \o add \in Seq(Bytes) /\ Rest(front, n) \o Tail(bufferedMsgs[a]) \in Seq(Payloads)
      BY <1>g, <1>b, <1>c
    <3> QED BY <3>1, <1>6, <1>t DEF TypeOK
  <2>2. room' \in [Ends -> Nat] /\ reader' \in [Ends -> {"idle", "poll", "copy", "more"}]
    <3>1. room[a] - n \in Nat
      BY <1>5, <1>e
    <3> QED BY <3>1, <1>6, <1>t DEF TypeOK
  <2> QED BY <2>1, <2>2, <1>c, <1>t DEF TypeOK
<1>8. After(a)' = After(a)
  <2>0. After(a) = bufferedMsgs[a][L].lo + bufferedMsgs[a][L].len
    BY <1>1, EmptySeq DEF After
  <2>1. CASE n = front.len /\ L = 1
    <3>1. Len(bufferedMsgs'[a]) = 0
      BY <2>1, <1>b, <1>3, <1>5
    <3>2. bufferedMsgs'[a] = << >>
      BY <3>1, <1>b, EmptySeq
    <3>3. After(a)' = G + n + 1
      BY <3>2, <1>g DEF After
    <3> QED BY <2>0, <2>1, <3>3, <1>2, <1>3, <1>1, <1>5
  <2>2. CASE n = front.len /\ L > 1
    <3>1. Len(bufferedMsgs'[a]) = L - 1 /\ L - 1 \in 1 .. L - 1 /\ (L - 1) + 1 = L
      BY <2>2, <1>b, <1>1, <1>3, <1>5
    <3>2. bufferedMsgs'[a][L - 1] = bufferedMsgs[a][L]
      BY <2>2, <3>1, <1>b, <1>3, <1>5
    <3>3. bufferedMsgs'[a] # << >>
      BY <3>1, <2>2, EmptySeq, <1>1
    <3> QED BY <2>0, <3>1, <3>2, <3>3 DEF After
  <2>3. CASE n < front.len
    <3>1. Len(bufferedMsgs'[a]) = L /\ bufferedMsgs'[a] # << >>
      BY <2>3, <1>r, <1>1, EmptySeq
    <3>2. bufferedMsgs'[a][L].lo + bufferedMsgs'[a][L].len = bufferedMsgs[a][L].lo + bufferedMsgs[a][L].len
      <4>1. CASE L = 1
        <5>1. bufferedMsgs'[a][1].lo + bufferedMsgs'[a][1].len = front.lo + front.len
          BY <2>3, <1>r, <1>0, <1>3, <1>5
        <5> QED BY <5>1, <4>1, <1>2
      <4>2. CASE L > 1
        <5>1. L \in 2 .. L
          BY <4>2, <1>1
        <5> QED BY <5>1, <2>3, <1>r
      <4>3. L = 1 \/ L > 1
        BY <1>0
      <4> QED BY <4>1, <4>2, <4>3
    <3> QED BY <2>0, <3>1, <3>2 DEF After
  <2>4. (n = front.len \/ n < front.len) /\ (L = 1 \/ L > 1)
    BY <1>0, <1>3, <1>5
  <2> QED BY <2>1, <2>2, <2>3, <2>4
<1>9. Placed(a)'
  BY <1>8, <1>c, <1>t DEF ReadInv, Placed
<1>10. Buffered(a)'
  <2>l. \A i \in 1 .. L : Link(a, i)
    BY <1>1, <1>t DEF ReadInv, Buffered
  <2>1. CASE n = front.len
    <3>0. /\ Len(bufferedMsgs'[a]) = L - 1
          /\ \A i \in 1 .. L - 1 : bufferedMsgs'[a][i] = bufferedMsgs[a][i + 1]
      BY <2>1, <1>b, <1>3, <1>5
    <3> SUFFICES ASSUME NEW i \in 1 .. L - 1 PROVE Link(a, i)'
      BY <3>0 DEF Buffered
    <3>1. i \in Nat /\ i + 1 \in 1 .. L /\ bufferedMsgs'[a][i] = bufferedMsgs[a][i + 1]
      BY <3>0, <1>1
    <3>2. Link(a, i + 1)
      BY <2>l, <3>1
    <3>3. i = 1 => bufferedMsgs[a][i + 1].lo = G + n + 1
      <4> SUFFICES ASSUME i = 1 PROVE bufferedMsgs[a][2].lo = G + n + 1
        OBVIOUS
      <4>1. 1 < L
        BY <1>0
      <4> QED BY <4>1, <2>1, <1>0, <1>3, <1>5
    <3>4. i < L - 1 => bufferedMsgs'[a][i + 1].lo = bufferedMsgs[a][i + 1].lo + bufferedMsgs[a][i + 1].len
      <4> SUFFICES ASSUME i < L - 1
                   PROVE  bufferedMsgs'[a][i + 1].lo = bufferedMsgs[a][i + 1].lo + bufferedMsgs[a][i + 1].len
        OBVIOUS
      <4>1. i + 1 \in 1 .. L - 1 /\ i + 1 < L
        BY <3>1, <1>1
      <4> QED BY <4>1, <3>0, <3>2, <1>1 DEF Link
    <3>5. bufferedMsgs[a][i + 1].len = 0 =>
            i = L - 1 /\ readSeqno[a] = writeSeqno[p] /\ Stopped(p)
      <4> SUFFICES ASSUME bufferedMsgs[a][i + 1].len = 0
                   PROVE  i = L - 1 /\ readSeqno[a] = writeSeqno[p] /\ Stopped(p)
        OBVIOUS
      <4>1. i + 1 = L /\ readSeqno[a] = writeSeqno[p] /\ Stopped(p)
        BY <3>2, <1>L DEF Link
      <4> QED BY <4>1, <3>1, <1>0
    <3> QED BY <3>0, <3>1, <3>2, <3>3, <3>4, <3>5, <1>c, <1>g DEF Link, Stopped
  <2>2. CASE n < front.len
    <3>0. /\ Len(bufferedMsgs'[a]) = L
          /\ bufferedMsgs'[a][1].by = p /\ bufferedMsgs'[a][1].lo = front.lo + n
          /\ bufferedMsgs'[a][1].len = front.len - n
          /\ \A i \in 2 .. L : bufferedMsgs'[a][i] = bufferedMsgs[a][i]
      BY <2>2, <1>r
    <3>1. Link(a, 1)'
      <4>1. /\ bufferedMsgs'[a][1].by = p /\ bufferedMsgs'[a][1].lo = G + n + 1
            /\ bufferedMsgs'[a][1].len = front.len - n /\ bufferedMsgs'[a][1].len # 0
            /\ bufferedMsgs'[a][1].lo + bufferedMsgs'[a][1].len = front.lo + front.len
        BY <3>0, <2>2, <1>0, <1>3, <1>5
      <4>2. 1 < L => bufferedMsgs'[a][2].lo = front.lo + front.len
        <5>1. 1 < L => 2 \in 2 .. L
          BY <1>1
        <5> QED BY <5>1, <3>0, <1>3
      <4>3. front.lo + front.len <= wrote'[p] + 1 /\ Len(got'[a]) = G + n
        BY <1>3, <1>c, <1>g
      <4> QED BY <3>0, <4>1, <4>2, <4>3 DEF Link
    <3>2. ASSUME NEW i \in 2 .. L PROVE Link(a, i)'
      <4>1. i \in 1 .. L /\ i # 1 /\ bufferedMsgs'[a][i] = bufferedMsgs[a][i]
        BY <3>0, <1>1
      <4>2. Link(a, i)
        BY <2>l, <4>1
      <4>3. i < L => bufferedMsgs'[a][i + 1] = bufferedMsgs[a][i + 1]
        <5>1. i < L => i + 1 \in 2 .. L
          BY <1>1
        <5> QED BY <5>1, <3>0
      <4> QED BY <3>0, <4>1, <4>2, <4>3, <1>1, <1>c DEF Link, Stopped
    <3> QED BY <3>0, <3>1, <3>2, <1>1 DEF Buffered
  <2> QED BY <2>1, <2>2, <1>3, <1>5
<1>11. InOrder(a)'
  <2>1. G + n <= wrote[p]
    BY <1>1, <1>3, <1>5, <1>e
  <2> QED BY <2>1, <1>g, <1>c DEF InOrder
<1>12. readErr[a] = "nil" /\ Ended(a)' /\ \A e \in Ends : e # a => Same(e)
  BY <1>6, <1>c, <1>t DEF ReadInv, Quiet, Ended, Same
<1> QED BY <1>6, <1>7, <1>9, <1>10, <1>11, <1>12, ReaderLemma

-----------------------------------------------------------------------------
LEMMA NextInv == IInv /\ [Next]_vars => IInv'
<1> SUFFICES ASSUME IInv, [Next]_vars PROVE IInv'
  OBVIOUS
<1>1. CASE UNCHANGED vars
  <2>1. /\ TypeOK' /\ UNCHANGED <<writeSeqno, posted, wrote, reading>>
        /\ \A e \in Ends : (Stopped(e) => Stopped(e)') /\ Quiet(e)'
    BY <1>1 DEF vars, writing, reading, IInv, ReadInv, TypeOK, Stopped, Quiet
  <2> QED BY <2>1, FlagLemma
<1>2. CASE Next
  BY <1>2, WriteInv, CloseInv, PostReturnsInv, ReadBeginInv, PollEmptyInv, PollGetsInv, CopyInv, ReadEndsInv
  DEF Next, ReadGoesOn
<1> QED BY <1>1, <1>2

(* The inductive invariant holds in every state.                           *)
THEOREM Invariance == Spec => []IInv
BY InitInv, NextInv, PTL DEF Spec

(* The state of both connections, and what the router is given, has its    *)
(* types.                                                                  *)
THEOREM TypeCorrect == Spec => []TypeOK
<1>1. IInv => TypeOK
  BY DEF IInv
<1> QED BY <1>1, Invariance, PTL

(* Whatever the router returns, what a device reads is the beginning of    *)
(* what the other one wrote.                                               *)
THEOREM StreamIsIntactHolds == Spec => []StreamIsIntact
<1>1. IInv => StreamIsIntact
  BY DEF IInv, ReadInv, InOrder, StreamIsIntact
<1> QED BY <1>1, Invariance, PTL

(* EOF is only ever the end of all that the other device wrote.            *)
THEOREM EOFIsTheEndHolds == Spec => []EOFIsTheEnd
<1>1. IInv => EOFIsTheEnd
  BY DEF IInv, ReadInv, Ended, Stopped, EOFIsTheEnd
<1> QED BY <1>1, Invariance, PTL

(* The first error of a direction is the one that stays.                   *)
THEOREM FirstErrorStaysHolds == Spec => FirstErrorStays
<1> DEFINE Stays == \A e \in Ends : /\ readErr[e] # "nil" => readErr'[e] = readErr[e]
                                    /\ writeErr[e] # "nil" => writeErr'[e] = writeErr[e]
<1>1. IInv /\ [Next]_vars => [Stays]_vars
  <2> SUFFICES ASSUME IInv, Next PROVE Stays
    OBVIOUS
  <2>0. /\ readErr \in [Ends -> Errors] /\ writeErr \in [Ends -> Errors]
        /\ \A e \in Ends : Quiet(e)
    BY DEF IInv, ReadInv, TypeOK
  <2>1. ASSUME NEW a \in Ends, NEW len \in 0 .. MaxLen, Write(a, len) PROVE Stays
    BY <2>1 DEF Write, reading
  <2>2. ASSUME NEW a \in Ends, Close(a) PROVE Stays
    BY <2>2 DEF Close, reading
  <2>3. ASSUME NEW a \in Ends, PostReturns(a) PROVE Stays
    BY <2>0, <2>3 DEF PostReturns, reading, Quiet
  <2>4. ASSUME NEW a \in Ends, NEW n \in 0 .. MaxOut, ReadBegin(a, n) PROVE Stays
    BY <2>0, <2>4 DEF ReadBegin, getErrorForRead, setReadError, writing
  <2>5. ASSUME NEW a \in Ends, ReadGoesOn(a) PROVE Stays
    <3>1. reader[a] # "idle" /\ writeErr' = writeErr
      BY <2>5 DEF ReadGoesOn, PollEmpty, PollFails, PollGets, Copy, ReadEnds, writing
    <3>2. \A e \in Ends : e # a => readErr'[e] = readErr[e]
      BY <2>0, <2>5 DEF ReadGoesOn, PollEmpty, PollFails, PollGets, Copy, ReadEnds,
                        decryptIncomingMessages, setReadError
    <3> QED BY <2>0, <3>1, <3>2 DEF Quiet
  <2> QED BY <2>1, <2>2, <2>3, <2>4, <2>5 DEF Next
<1>2. []IInv /\ [][Next]_vars => [][Stays]_vars
  BY <1>1, PTL
<1> QED BY <1>2, Invariance, PTL DEF Spec, FirstErrorStays

=============================================================================
