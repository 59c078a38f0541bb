------------------------------ MODULE KexConn -------------------------------
(***************************************************************************)
(* The transport of the key exchange (go/kex2/transport.go): a Conn on     *)
(* each of two devices, which turns the server's message router into a     *)
(* stream of bytes in each direction.  Writes are numbered, sealed under   *)
(* the shared secret and posted to the router; reads ask the router for    *)
(* what follows, check it and hand it out, as much as fits the caller's    *)
(* buffer.  The router is not trusted: it returns what it has in any order *)
(* and as often as it likes, sends messages back to their writer, and      *)
(* makes up others.  It cannot make a message that opens under the secret. *)
(*                                                                         *)
(* A byte is named by the device that wrote it and its place in what that  *)
(* device wrote.                                                           *)
(***************************************************************************)
EXTENDS Naturals, Sequences

CONSTANTS
  MaxLen,     \* the longest buffer given to Write
  MaxOut,     \* the longest buffer given to Read
  MaxBatch,   \* how many messages the router returns at once, at most
  MaxWrites   \* bound: e calls Write MaxWrites[e] times, and then may Close

Ends == {"provisioner", "provisionee"}
Other(e) == IF e = "provisioner" THEN "provisionee" ELSE "provisioner"

ASSUME KexConnAssumption ==
  /\ MaxLen \in Nat \ {0} /\ MaxOut \in Nat \ {0} /\ MaxBatch \in Nat \ {0}
  /\ MaxWrites \in [Ends -> Nat]

VARIABLES
  writeSeqno,    \* Conn.writeSeqno
  writeErr,      \* Conn.writeErr
  closed,        \* Conn.closed
  writer,        \* writer[e]: whether Write or Close is in a Post
  readSeqno,     \* Conn.readSeqno
  bufferedMsgs,  \* Conn.bufferedMsgs
  readErr,       \* Conn.readErr
  reader,        \* reader[e]: where Read is
  room,          \* room[e]: what is left of the buffer given to Read
  posted,        \* the messages given to the router
  wrote,         \* wrote[e]: how many bytes e has written (history)
  got            \* got[e]: the bytes that e has read (history)

writing == <<writeSeqno, writeErr, closed, writer, posted, wrote>>
reading == <<readSeqno, bufferedMsgs, readErr, reader, room, got>>
vars == <<writing, reading>>

(* A payload: len bytes of e from place lo on.  An empty one says "EOF".   *)
Payload(e, lo, len) == [by |-> e, lo |-> lo, len |-> len]
Byte(e, i) == [by |-> e, at |-> i]

(* A message that passes every check but those on sender and seqno.  Junk  *)
(* stands for those that do not open, whose outside differs from their     *)
(* inside, or that are of another session.                                 *)
Packet(e, n, p) == [sender |-> e, seqno |-> n, payload |-> p]
Junk == Packet("nobody", 0, Payload("nobody", 0, 0))

Init ==
  /\ writeSeqno = [e \in Ends |-> 0]
  /\ writeErr = [e \in Ends |-> "nil"]
  /\ closed = [e \in Ends |-> FALSE]
  /\ writer = [e \in Ends |-> "idle"]
  /\ readSeqno = [e \in Ends |-> 0]
  /\ bufferedMsgs = [e \in Ends |-> << >>]
  /\ readErr = [e \in Ends |-> "nil"]
  /\ reader = [e \in Ends |-> "idle"]
  /\ room = [e \in Ends |-> 0]
  /\ posted = {}
  /\ wrote = [e \in Ends |-> 0]
  /\ got = [e \in Ends |-> << >>]

-----------------------------------------------------------------------------
(* The first error kills the whole stream, but the end of what one side    *)
(* writes leaves the other direction open.                                 *)

getErrorForWrite(e) ==
  IF readErr[e] \notin {"nil", "EOF"} THEN readErr[e] ELSE writeErr[e]

(* Mutant of getErrorForRead: only the errors of Write are asked for.      *)
getErrorForRead_Write(e) ==
  IF writeErr[e] # "EOF" THEN writeErr[e] ELSE "nil"

getErrorForRead(e) ==
  IF readErr[e] = "nil" /\ writeErr[e] # "EOF" THEN writeErr[e] ELSE readErr[e]

-----------------------------------------------------------------------------
(* Write and Close.                                                        *)

(* writeWithLock, up to Post.                                              *)
writeWithLock(e, len) ==
  /\ getErrorForWrite(e) = "nil"
  /\ writeSeqno' = [writeSeqno EXCEPT ![e] = @ + 1]
  /\ posted' = posted \cup {Packet(e, writeSeqno[e] + 1, Payload(e, wrote[e] + 1, len))}
  /\ wrote' = [wrote EXCEPT ![e] = @ + len]

(* An empty buffer is not written: it would close the connection.          *)
Write(e, len) ==
  /\ writer[e] = "idle"
  /\ len > 0
  /\ writeSeqno[e] < MaxWrites[e]
  /\ writeWithLock(e, len)
  /\ writer' = [writer EXCEPT ![e] = "write"]
  /\ UNCHANGED <<writeErr, closed, reading>>

Close(e) ==
  /\ writer[e] = "idle"
  /\ closed' = [closed EXCEPT ![e] = TRUE]
  /\ \/ /\ writeWithLock(e, 0)
        /\ writer' = [writer EXCEPT ![e] = "close"]
     \/ /\ getErrorForWrite(e) # "nil"
        /\ UNCHANGED <<writeSeqno, posted, wrote, writer>>
  /\ UNCHANGED <<writeErr, reading>>

(* Post answers, or fails; then the message may have got to the router all *)
(* the same, or may still get there.  After a Close all writes fail.       *)
PostReturns(e) ==
  /\ writer[e] # "idle"
  /\ writer' = [writer EXCEPT ![e] = "idle"]
  /\ writeErr' \in {[writeErr EXCEPT ![e] = IF writer[e] = "close" THEN "EOF" ELSE @],
                    [writeErr EXCEPT ![e] = "failed"]}
  /\ UNCHANGED <<writeSeqno, closed, posted, wrote, reading>>

-----------------------------------------------------------------------------
(* Read, under readMutex from ReadBegin until the reader is idle again.    *)

Return(e) ==
  /\ reader' = [reader EXCEPT ![e] = "idle"]
  /\ room' = [room EXCEPT ![e] = 0]

setReadError(e, err) ==
  /\ readErr' = [readErr EXCEPT ![e] = err]
  /\ Return(e)

HandsOut(e, n) ==
  bufferedMsgs[e] # << >> /\ (n > 0 \/ Head(bufferedMsgs[e]).len = 0)

(* What is buffered is handed out first (an "EOF" even to an empty         *)
(* buffer); if that gives nothing the router is asked, unless the deadline *)
(* has passed.                                                             *)
ReadBegin(e, n) ==
  /\ reader[e] = "idle"
  /\ getErrorForRead(e) = "nil"
  /\ \/ /\ HandsOut(e, n)
        /\ reader' = [reader EXCEPT ![e] = "copy"]
        /\ room' = [room EXCEPT ![e] = n]
        /\ UNCHANGED readErr
     \/ /\ ~HandsOut(e, n)
        /\ \/ /\ reader' = [reader EXCEPT ![e] = "poll"]
              /\ room' = [room EXCEPT ![e] = n]
              /\ UNCHANGED readErr
           \/ setReadError(e, "failed")
  /\ UNCHANGED <<readSeqno, bufferedMsgs, got, writing>>

(* pollLoop comes back with nothing when its time is over or the           *)
(* connection was closed.  No error stays: Read may be called again.       *)
PollEmpty(e) ==
  /\ reader[e] = "poll"
  /\ Return(e)
  /\ UNCHANGED <<readSeqno, bufferedMsgs, readErr, got, writing>>

(* Get fails, or the context is cancelled.                                 *)
PollFails(e) ==
  /\ reader[e] = "poll"
  /\ setReadError(e, "failed")
  /\ UNCHANGED <<readSeqno, bufferedMsgs, got, writing>>

(* Mutant of Acceptable: a later message will do.                          *)
Acceptable_AnyLater(e, m, i) ==
  m # Junk /\ m.sender # e /\ m.seqno >= readSeqno[e] + i

(* The checks of decryptIncomingMessage, for the i-th message of a batch.  *)
Acceptable(e, m, i) ==
  m # Junk /\ m.sender # e /\ m.seqno = readSeqno[e] + i

(* decryptIncomingMessages: the first k of the messages pass the checks    *)
(* and are buffered.  If another follows them the stream is dead.          *)
decryptIncomingMessages(e, msgs, k) ==
  /\ \A i \in 1 .. k : Acceptable(e, msgs[i], i)
  /\ k < Len(msgs) => ~Acceptable(e, msgs[k + 1], k + 1)
  /\ readSeqno' = [readSeqno EXCEPT ![e] = @ + k]
  /\ bufferedMsgs' = [bufferedMsgs EXCEPT ![e] = @ \o [i \in 1 .. k |-> msgs[i].payload]]
  /\ IF k < Len(msgs)
     THEN setReadError(e, "failed")
     ELSE /\ reader' = [reader EXCEPT ![e] = "copy"]
          /\ UNCHANGED <<readErr, room>>

(* Mutant of PollGets: bad messages are passed over.                       *)
PollGets_Skips(e) ==
  /\ reader[e] = "poll"
  /\ \E n \in 1 .. MaxBatch : \E msgs \in [1 .. n -> posted \cup {Junk}] :
     \E k \in 0 .. n : decryptIncomingMessages(e, SubSeq(msgs, 1, k), k)
  /\ UNCHANGED <<got, writing>>

PollGets(e) ==
  /\ reader[e] = "poll"
  /\ \E n \in 1 .. MaxBatch : \E msgs \in [1 .. n -> posted \cup {Junk}] :
     \E k \in 0 .. n : decryptIncomingMessages(e, msgs, k)
  /\ UNCHANGED <<got, writing>>

(* Mutant of Smaller: the whole front, whatever the room.                  *)
Smaller_Front(m, n) == n

Smaller(m, n) == IF m < n THEN m ELSE n

(* Mutant of Rest: the round recycles an empty buffer.                     *)
Rest_Recycled(front, n) == <<Payload(front.by, front.lo + n, front.len - n)>>

Rest(front, n) ==
  IF n = front.len THEN << >> ELSE <<Payload(front.by, front.lo + n, front.len - n)>>

(* readBufferedMsgsIntoBytes, a round of its loop: the front, or as much   *)
(* of it as there is room for.  Reader "copy" has copied nothing yet.      *)
Copy(e) ==
  /\ reader[e] \in {"copy", "more"}
  /\ room[e] > 0
  /\ bufferedMsgs[e] # << >>
  /\ LET front == Head(bufferedMsgs[e])
         n == Smaller(room[e], front.len)
     IN  /\ front.len > 0
         /\ got' = [got EXCEPT ![e] = @ \o [i \in 1 .. n |-> Byte(front.by, front.lo + i - 1)]]
         /\ bufferedMsgs' = [bufferedMsgs EXCEPT ![e] = Rest(front, n) \o Tail(@)]
         /\ room' = [room EXCEPT ![e] = @ - n]
  /\ reader' = [reader EXCEPT ![e] = "more"]
  /\ UNCHANGED <<readSeqno, readErr, writing>>

(* The loop ends: an empty front is the end of the stream, but not if      *)
(* something was read this time through.                                   *)
ReadEnds(e) ==
  /\ reader[e] \in {"copy", "more"}
  /\ LET empty == bufferedMsgs[e] # << >> /\ Head(bufferedMsgs[e]).len = 0 IN
     /\ room[e] = 0 \/ bufferedMsgs[e] = << >> \/ empty
     /\ IF empty /\ reader[e] = "copy"
        THEN setReadError(e, "EOF")
        ELSE Return(e) /\ UNCHANGED readErr
  /\ UNCHANGED <<readSeqno, bufferedMsgs, got, writing>>

-----------------------------------------------------------------------------
ReadGoesOn(e) ==
  \/ PollEmpty(e) \/ PollFails(e) \/ PollGets(e)
  \/ Copy(e) \/ ReadEnds(e)

Next ==
  \E e \in Ends :
    \/ \E len \in 0 .. MaxLen : Write(e, len)
    \/ Close(e)
    \/ PostReturns(e)
    \/ \E n \in 0 .. MaxOut : ReadBegin(e, n)
    \/ ReadGoesOn(e)

Spec == Init /\ [][Next]_vars

(* Somebody always reads (the packet loop of the rpc library), a Read that *)
(* was begun goes on, and the router does not only answer with nothing.    *)
Fairness ==
  \A e \in Ends :
    /\ WF_vars(ReadGoesOn(e) \/ \E n \in 1 .. MaxOut : ReadBegin(e, n))
    /\ SF_vars(PollGets(e))

FairSpec == Spec /\ Fairness

-----------------------------------------------------------------------------
(* Properties.                                                             *)

Errors == {"nil", "EOF", "failed"}
Payloads == [by : Ends, lo : Nat, len : Nat]
Bytes == [by : Ends, at : Nat]
Packets == [sender : Ends, seqno : Nat, payload : Payloads]

(* The state has its types: the errors that stay are EOF or a failure, and *)
(* no Junk is ever posted.                                                 *)
TypeOK ==
  /\ writeSeqno \in [Ends -> Nat] /\ readSeqno \in [Ends -> Nat]
  /\ writeErr \in [Ends -> Errors]
  /\ readErr \in [Ends -> Errors]
  /\ closed \in [Ends -> BOOLEAN]
  /\ writer \in [Ends -> {"idle", "write", "close"}]
  /\ reader \in [Ends -> {"idle", "poll", "copy", "more"}]
  /\ room \in [Ends -> Nat]
  /\ bufferedMsgs \in [Ends -> Seq(Payloads)]
  /\ posted \in SUBSET Packets
  /\ wrote \in [Ends -> Nat]
  /\ got \in [Ends -> Seq(Bytes)]

(* Whatever the router returns, and however the reads are cut, what a      *)
(* device has read is the beginning of what the other one wrote, byte by   *)
(* byte: nothing twice, out of order, left out or its own.                 *)
StreamIsIntact ==
  \A e \in Ends :
    /\ Len(got[e]) <= wrote[Other(e)]
    /\ \A i \in 1 .. Len(got[e]) : got[e][i] = Byte(Other(e), i)

(* A Read that ends the stream with EOF tells the truth: the other device  *)
(* has closed its side, all it wrote was read, and it writes no more.      *)
EOFIsTheEnd ==
  \A e \in Ends :
    readErr[e] = "EOF" =>
      /\ closed[Other(e)]
      /\ Len(got[e]) = wrote[Other(e)]

(* The first error stays the error of its direction.                       *)
FirstErrorStays ==
  [][\A e \in Ends : /\ readErr[e] # "nil" => readErr'[e] = readErr[e]
                     /\ writeErr[e] # "nil" => writeErr'[e] = writeErr[e]]_vars

(* While the router returns anything at all, every byte written is read,   *)
(* or the reader knows that the stream is broken: it cannot be made to     *)
(* wait forever by old, foreign or made-up messages.                       *)
NoStall ==
  \A e \in Ends : \A i \in 1 .. MaxLen * MaxWrites[Other(e)] :
    wrote[Other(e)] >= i ~> Len(got[e]) >= i \/ getErrorForRead(e) # "nil"

=============================================================================
