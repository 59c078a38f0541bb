--------------------------- MODULE DelivererProofs ---------------------------
(***************************************************************************)
(* The deliverer and the outbox lose nothing, keep the order, and          *)
(* implement the life of a message, for any number of messages,            *)
(* conversations, attempts, retries and crashes.                           *)
(***************************************************************************)
EXTENDS Deliverer, TLAPS

(* Only messages that were queued are anywhere.                            *)
Born ==
  \A m \in Msgs :
    Has(outbox, m) \/ Has(snap, m) \/ m \in inflight \/ m \in posted => m <= queued

(* A copy has seen at least as many attempts as the record.                *)
Counted ==
  \A m \in Msgs :
    Has(snap, m) /\ outbox[m].st = "sending" => outbox[m].attempts <= snap[m].attempts

(* The times and places that the record and the copy of a message have.    *)
Stamps(m) ==
  (IF Has(outbox, m) THEN {outbox[m].ctime, outbox[m].pos} ELSE {})
  \cup (IF Has(snap, m) THEN {snap[m].ctime, snap[m].pos} ELSE {})

Timed == \A m \in Msgs : \A t \in Stamps(m) : t <= Now

(* A message that was never retried comes before all that were queued      *)
(* after it, in the outbox as in the copies, sorted or not.                *)
Ordered ==
  \A m, n \in Msgs :
    m < n /\ m \notin retried => \A s \in Stamps(m), t \in Stamps(n) : s < t

(* A goroutine that is to send a message has those that hold it up in      *)
(* hand, too, unless they need not be sent any more.                       *)
Ahead ==
  \A m, n \in Msgs :
    /\ HoldsUp(m, n) /\ m \notin retried
    /\ Has(snap, n) /\ outbox[m].st = "sending"
    => Has(snap, m) \/ m \in posted

(* What holds up a message that was sent off is not going to be sent.      *)
Behind ==
  \A m, n \in Msgs :
    /\ HoldsUp(m, n) /\ m \notin retried
    /\ n \in inflight \cup posted
    /\ outbox[m].st = "sending" \/ Has(snap, m)
    => m \in posted

Inv ==
  /\ TypeOK
  /\ Born
  /\ Counted
  /\ Timed
  /\ Ordered
  /\ Ahead
  /\ Behind
  /\ NothingLost

-----------------------------------------------------------------------------
(* Records and lists of records.                                           *)

AnyRecord == Records({"absent", "sending", "error"})
Copy == Records({"absent", "sending"})

LEMMA RecordFacts ==
  ASSUME NEW rec \in AnyRecord
  PROVE  /\ rec.st \in {"absent", "sending", "error"}
         /\ rec.attempts \in 0 .. MaxAttempts
         /\ rec.ctime \in Nat /\ rec.pos \in Nat
         /\ Failed(rec) \in AnyRecord /\ Failed(rec).st = "error"
         /\ Failed(rec).ctime = rec.ctime /\ Failed(rec).pos = rec.pos
  <1>1. /\ rec.st \in {"absent", "sending", "error"}
        /\ rec.attempts \in 0 .. MaxAttempts
        /\ rec.ctime \in Nat /\ rec.pos \in Nat
    BY DEF AnyRecord, Records
  <1>2. /\ Failed(rec) \in AnyRecord /\ Failed(rec).st = "error"
        /\ Failed(rec).ctime = rec.ctime /\ Failed(rec).pos = rec.pos
    <2>1. 0 \in 0 .. MaxAttempts
      BY DelivererAssumption
    <2> QED BY <2>1 DEF AnyRecord, Records, Failed
  <1> QED BY <1>1, <1>2

LEMMA SendingFacts ==
  ASSUME NEW rec \in AnyRecord, NEW n \in 0 .. MaxAttempts
  PROVE  /\ Sending(rec, n) \in AnyRecord
         /\ Sending(rec, n).st = "sending" /\ Sending(rec, n).attempts = n
         /\ Sending(rec, n).ctime = rec.ctime /\ Sending(rec, n).pos = rec.pos
  BY DEF AnyRecord, Records, Sending

LEMMA AbsentFacts ==
  Absent \in AnyRecord /\ Absent \in Copy /\ Absent.st = "absent"
  BY DelivererAssumption DEF Absent, AnyRecord, Copy, Records

LEMMA CopyFacts ==
  ASSUME NEW rec \in Copy
  PROVE  rec \in AnyRecord /\ rec.st \in {"absent", "sending"}
  BY DEF Copy, AnyRecord, Records

(* A record added to the list, and the sort that follows.                  *)
IsAdded(new, box, m, rec) ==
  /\ new \in [Msgs -> AnyRecord]
  /\ \A k \in Msgs \ {m} :
       /\ new[k].st = box[k].st /\ new[k].attempts = box[k].attempts
       /\ new[k].ctime = box[k].ctime /\ new[k].pos = box[k].ctime
  /\ new[m].st = rec.st /\ new[m].attempts = rec.attempts
  /\ new[m].ctime = rec.ctime /\ new[m].pos = rec.ctime

LEMMA AddSortedFacts ==
  ASSUME NEW box, box \in [Msgs -> AnyRecord], NEW m \in Msgs, NEW rec \in AnyRecord
  PROVE  IsAdded(AddSorted(box, m, rec), box, m, rec)
  <1> DEFINE added == [box EXCEPT ![m] = rec]
  <1>1. /\ added \in [Msgs -> AnyRecord]
        /\ \A k \in Msgs : added[k] = IF k = m THEN rec ELSE box[k]
    OBVIOUS
  <1>2. AddSorted(box, m, rec) = [n \in Msgs |-> [added[n] EXCEPT !.pos = added[n].ctime]]
    BY DEF AddSorted
  <1> HIDE DEF added
  <1> DEFINE sorted(r) == [r EXCEPT !.pos = r.ctime]
  <1>3. ASSUME NEW r \in AnyRecord
        PROVE  /\ sorted(r) \in AnyRecord
               /\ sorted(r).st = r.st /\ sorted(r).attempts = r.attempts
               /\ sorted(r).ctime = r.ctime /\ sorted(r).pos = r.ctime
    BY DEF AnyRecord, Records
  <1>4. AddSorted(box, m, rec) = [n \in Msgs |-> sorted(added[n])]
    BY <1>2
  <1> HIDE DEF sorted
  <1> QED BY <1>1, <1>3, <1>4 DEF IsAdded

-----------------------------------------------------------------------------
(* What a step that queues, retries and copies nothing may do.             *)

Holds(m) == msg[m].kind \in {"text", "delete", "reaction"}

GoneFrom(c) == \A n \in InConv(c) : ~Has(snap', n)

(* The outbox: what is there comes from a record or from a copy, and what  *)
(* is no longer there went with a reason.                                  *)
BoxKept ==
  /\ outbox' \in [Msgs -> AnyRecord]
  /\ \A k \in Msgs : Has(outbox', k) => {outbox'[k].ctime, outbox'[k].pos} \subseteq Stamps(k)
  /\ \A k \in Msgs : Has(outbox, k) => Has(outbox', k) \/ k \in posted \cup taken' \cup dropped'
  /\ taken \subseteq taken' /\ taken' \subseteq Msgs
  /\ dropped \subseteq dropped' /\ dropped' \subseteq Msgs

(* The copies: they are only given up, and one that holds up others is     *)
(* given up together with those or when it need not be sent any more.      *)
CopiesKept ==
  /\ \A k \in Msgs : snap'[k] \in {snap[k], Absent}
  /\ Counted'
  /\ \A k \in Msgs :
       outbox'[k].st = "sending" =>
         \/ outbox[k].st = "sending"
         \/ Has(snap, k) /\ (Holds(k) => GoneFrom(msg[k].conv))
  /\ \A k \in Msgs :
       Holds(k) /\ Has(snap, k) /\ ~Has(snap', k) =>
         outbox'[k].st # "sending" \/ k \in posted \/ GoneFrom(msg[k].conv)
  /\ \A k \in inflight' : k \in inflight \/ \E c \in Convs : IsFirst(c, k)

Kept ==
  /\ TypeOK'
  /\ BoxKept
  /\ CopiesKept
  /\ UNCHANGED <<msg, queued, posted, retries, retried>>

LEMMA KeptInv == ASSUME Inv, Kept PROVE Inv'
  <1>0. /\ msg' = msg /\ queued' = queued /\ posted' = posted
        /\ retries' = retries /\ retried' = retried
    BY DEF Kept
  <1>1. \A k \in Msgs : Has(snap', k) => Has(snap, k) /\ snap'[k] = snap[k]
    BY AbsentFacts DEF Kept, CopiesKept, Has
  <1>2. \A k \in Msgs : Stamps(k)' \subseteq Stamps(k)
    BY <1>1 DEF Kept, BoxKept, Stamps, Has
  <1>3. \A k \in Msgs : Has(outbox', k) => Has(outbox, k) \/ Has(snap, k)
    BY DEF Kept, BoxKept, Stamps
  <1>4. Born'
    BY <1>0, <1>1, <1>3 DEF Inv, TypeOK, Born, Kept, CopiesKept, IsFirst, Has
  <1>5. Timed'
    BY <1>0, <1>2 DEF Inv, Timed, Now
  <1>6. Ordered'
    BY <1>0, <1>2 DEF Inv, Ordered
  <1>7. \A m, n \in Msgs : HoldsUp(m, n)' => HoldsUp(m, n) /\ Holds(m) /\ n \in InConv(msg[m].conv)
    BY <1>0 DEF HoldsUp, Holds, InConv
  <1>8. Ahead'
    <2> SUFFICES ASSUME NEW m \in Msgs, NEW n \in Msgs, HoldsUp(m, n), m \notin retried,
                        Holds(m), n \in InConv(msg[m].conv),
                        Has(snap', n), outbox'[m].st = "sending"
                 PROVE  Has(snap', m) \/ m \in posted
      BY <1>0, <1>7 DEF Ahead, Has
    <2>1. ~GoneFrom(msg[m].conv)
      BY DEF GoneFrom
    <2>2. outbox[m].st = "sending"
      BY <2>1 DEF Kept, CopiesKept
    <2>3. Has(snap, m) \/ m \in posted
      BY <1>1, <2>2 DEF Inv, Ahead
    <2> QED BY <2>1, <2>3 DEF Kept, CopiesKept
  <1>9. Behind'
    <2> SUFFICES ASSUME NEW m \in Msgs, NEW n \in Msgs, HoldsUp(m, n), m \notin retried,
                        n \in inflight' \cup posted,
                        outbox'[m].st = "sending" \/ Has(snap', m)
                 PROVE  m \in posted
      BY <1>0, <1>7 DEF Behind, Has
    <2>1. outbox[m].st = "sending" \/ Has(snap, m)
      BY <1>1 DEF Kept, CopiesKept
    <2>2. CASE n \in inflight \cup posted
      BY <2>1, <2>2 DEF Inv, Behind
    <2>3. ASSUME NEW c \in Convs, IsFirst(c, n)
          PROVE  m \in posted
      <3>1. Has(snap, n) /\ msg[n].conv = c /\ msg[m].conv = c /\ m < n
        BY <2>3 DEF IsFirst, HoldsUp
      <3>2. ~Has(snap, m)
        <4> SUFFICES ASSUME Has(snap, m) PROVE FALSE
          OBVIOUS
        <4>1. snap[n].pos <= snap[m].pos
          BY <2>3, <3>1 DEF IsFirst, InConv
        <4>2. snap[m].pos < snap[n].pos
          BY <3>1 DEF Inv, Ordered, Stamps
        <4>3. snap[m].pos \in Nat /\ snap[n].pos \in Nat
          BY CopyFacts, RecordFacts DEF Inv, TypeOK, Copy
        <4> QED BY <4>1, <4>2, <4>3
      <3> QED BY <2>1, <3>1, <3>2 DEF Inv, Ahead
    <2> QED BY <2>2, <2>3 DEF Kept, CopiesKept
  <1>10. NothingLost'
    <2>1. 1 .. queued \subseteq Msgs
      BY DelivererAssumption DEF Inv, TypeOK, Msgs
    <2> QED BY <1>0, <2>1 DEF Inv, NothingLost, Kept, BoxKept, Has
  <1> QED BY <1>4, <1>5, <1>6, <1>8, <1>9, <1>10 DEF Inv, Kept, CopiesKept

-----------------------------------------------------------------------------
(* The goroutines.                                                         *)

(* The message at hand is taken out of the copies.                         *)
LEMMA RemoveAllFacts ==
  ASSUME TypeOK, NEW ms \in SUBSET Msgs
  PROVE  /\ RemoveAll(snap, ms) \in [Msgs -> Copy]
         /\ RemoveAll(outbox, ms) \in [Msgs -> AnyRecord]
         /\ \A k \in Msgs : /\ RemoveAll(snap, ms)[k] = IF k \in ms THEN Absent ELSE snap[k]
                            /\ RemoveAll(outbox, ms)[k] = IF k \in ms THEN Absent ELSE outbox[k]
  BY AbsentFacts DEF TypeOK, RemoveAll, Copy, AnyRecord

LEMMA BreakLoopFacts ==
  ASSUME TypeOK, NEW c \in Convs, NEW m \in InConv(c), BreakLoop(c, m)
  PROVE  /\ snap' \in [Msgs -> Copy]
         /\ pc' \in [Convs -> {"next", "abort", "post", "await"}]
         /\ \A k \in Msgs : snap'[k] \in {snap[k], Absent}
         /\ snap'[m] = Absent
         /\ msg[m].kind # "unfurl" => GoneFrom(c)
         /\ \A k \in Msgs \ {m} : snap'[k] = Absent => snap[k] = Absent \/ (GoneFrom(c) /\ k \in InConv(c))
  <1>1. InConv(c) \in SUBSET Msgs /\ m \in Msgs
    BY DEF InConv
  <1>2. pc' \in [Convs -> {"next", "abort", "post", "await"}]
    BY DEF BreakLoop, TypeOK
  <1>3. CASE msg[m].kind = "unfurl" /\ snap' = RemoveAll(snap, {m})
    <2>1. {m} \in SUBSET Msgs
      BY <1>1
    <2>2. /\ snap' \in [Msgs -> Copy]
          /\ \A k \in Msgs : snap'[k] = IF k \in {m} THEN Absent ELSE snap[k]
      BY <1>3, <2>1, RemoveAllFacts
    <2> QED BY <1>1, <1>2, <1>3, <2>2
  <1>4. CASE msg[m].kind # "unfurl" /\ snap' = RemoveAll(snap, InConv(c))
    <2>1. /\ snap' \in [Msgs -> Copy]
          /\ \A k \in Msgs : snap'[k] = IF k \in InConv(c) THEN Absent ELSE snap[k]
      BY <1>1, <1>4, RemoveAllFacts
    <2>2. GoneFrom(c)
      BY <1>1, <2>1, AbsentFacts DEF GoneFrom, Has
    <2> QED BY <1>1, <1>2, <2>1, <2>2
  <1> QED BY <1>3, <1>4 DEF BreakLoop

(* What a failed attempt at m does to the outbox.                          *)
FailureBox(m) ==
  /\ BoxKept
  /\ \A k \in Msgs \ {m} :
       outbox'[k].st = "sending" => outbox[k].st = "sending" /\ outbox'[k].attempts = outbox[k].attempts

LEMMA OneChanged ==
  ASSUME NEW m \in Msgs, outbox' \in [Msgs -> AnyRecord],
         \A k \in Msgs \ {m} :
           /\ outbox'[k].st = outbox[k].st /\ outbox'[k].attempts = outbox[k].attempts
           /\ outbox'[k].ctime = outbox[k].ctime
           /\ outbox'[k].pos \in {outbox[k].ctime, outbox[k].pos},
         Has(outbox', m) => {outbox'[m].ctime, outbox'[m].pos} \subseteq Stamps(m),
         Has(outbox, m) => Has(outbox', m) \/ m \in posted \cup taken' \cup dropped',
         taken \subseteq taken', taken' \subseteq Msgs,
         dropped \subseteq dropped', dropped' \subseteq Msgs
  PROVE  FailureBox(m)
  <1>1. ASSUME NEW k \in Msgs \ {m}, Has(outbox', k)
        PROVE  {outbox'[k].ctime, outbox'[k].pos} \subseteq Stamps(k)
    <2>1. Has(outbox, k)
      BY <1>1 DEF Has
    <2> QED BY <2>1 DEF Stamps
  <1>2. \A k \in Msgs : Has(outbox', k) => {outbox'[k].ctime, outbox'[k].pos} \subseteq Stamps(k)
    BY <1>1
  <1>3. \A k \in Msgs : Has(outbox, k) => Has(outbox', k) \/ k \in posted \cup taken' \cup dropped'
    BY DEF Has
  <1> QED BY <1>2, <1>3 DEF FailureBox, BoxKept

LEMMA FailureBoxHolds ==
  ASSUME Inv, NEW c \in Convs, NEW m \in InConv(c), Has(snap, m), NEW err,
         Failure(c, m, err), UNCHANGED <<posted, dropped>>
  PROVE  FailureBox(m)
  <1>0. /\ m \in Msgs /\ msg[m].conv = c
        /\ outbox \in [Msgs -> AnyRecord] /\ snap \in [Msgs -> Copy]
        /\ snap[m] \in AnyRecord /\ snap[m].st = "sending"
        /\ taken \subseteq Msgs /\ dropped \subseteq Msgs
    BY CopyFacts DEF InConv, Inv, TypeOK, AnyRecord, Copy, Has
  <1>1. \A k \in Msgs : Has(outbox, k) => {outbox[k].ctime, outbox[k].pos} \subseteq Stamps(k)
    BY DEF Stamps
  <1>2. {snap[m].ctime, snap[m].pos} \subseteq Stamps(m)
    BY <1>0 DEF Stamps
  <1>3. CASE outbox' = MarkConvAsError(outbox, c) /\ UNCHANGED taken
    <2>1. \A k \in Msgs : outbox'[k] \in {outbox[k]} \cup (IF Has(outbox, k) THEN {Failed(outbox[k])} ELSE {})
      BY <1>3 DEF MarkConvAsError
    <2>2. outbox' \in [Msgs -> AnyRecord]
      BY <1>0, <1>3, RecordFacts DEF MarkConvAsError
    <2>3. ASSUME NEW k \in Msgs
          PROVE  /\ Has(outbox', k) => {outbox'[k].ctime, outbox'[k].pos} \subseteq Stamps(k)
                 /\ Has(outbox, k) => Has(outbox', k)
                 /\ outbox'[k].st = "sending" => outbox'[k] = outbox[k]
      <3>1. outbox[k] \in AnyRecord
        BY <1>0
      <3>2. CASE outbox'[k] = outbox[k]
        BY <3>2, <1>1 DEF Has
      <3>3. CASE Has(outbox, k) /\ outbox'[k] = Failed(outbox[k])
        <4>1. /\ outbox'[k].st = "error"
              /\ outbox'[k].ctime = outbox[k].ctime /\ outbox'[k].pos = outbox[k].pos
          BY <3>1, <3>3, RecordFacts
        <4> QED BY <1>1, <3>3, <4>1 DEF Has
      <3> QED BY <2>1, <3>2, <3>3
    <2> QED BY <1>0, <1>3, <2>2, <2>3 DEF FailureBox, BoxKept
  <1>4. CASE outbox' = MarkAsError(outbox, m, snap[m]) /\ UNCHANGED taken
    <2>1. CASE Has(outbox, m)
      <3>1. outbox' = [outbox EXCEPT ![m] = Failed(outbox[m])]
        BY <1>4, <2>1 DEF MarkAsError
      <3>2. /\ outbox'[m] = Failed(outbox[m])
            /\ \A k \in Msgs \ {m} : outbox'[k] = outbox[k]
        BY <1>0, <3>1
      <3>3. /\ Failed(outbox[m]) \in AnyRecord /\ Failed(outbox[m]).st = "error"
            /\ Failed(outbox[m]).ctime = outbox[m].ctime /\ Failed(outbox[m]).pos = outbox[m].pos
        BY <1>0, RecordFacts
      <3>4. outbox' \in [Msgs -> AnyRecord]
        BY <1>0, <3>1, <3>3
      <3>5. Has(outbox', m) /\ {outbox'[m].ctime, outbox'[m].pos} \subseteq Stamps(m)
        BY <1>0, <1>1, <2>1, <3>2, <3>3 DEF Has
      <3> QED BY <1>0, <1>4, <3>2, <3>4, <3>5, OneChanged
    <2>2. CASE ~Has(outbox, m)
      <3>1. outbox' = AddSorted(outbox, m, Failed(snap[m]))
        BY <1>4, <2>2 DEF MarkAsError
      <3>2. Failed(snap[m]) \in AnyRecord /\ Failed(snap[m]).st = "error"
            /\ Failed(snap[m]).ctime = snap[m].ctime
        BY <1>0, RecordFacts
      <3>3. /\ outbox' \in [Msgs -> AnyRecord]
            /\ \A k \in Msgs \ {m} :
                 /\ outbox'[k].st = outbox[k].st /\ outbox'[k].attempts = outbox[k].attempts
                 /\ outbox'[k].ctime = outbox[k].ctime /\ outbox'[k].pos = outbox[k].ctime
            /\ outbox'[m].st = "error"
            /\ outbox'[m].ctime = snap[m].ctime /\ outbox'[m].pos = snap[m].ctime
        <4> DEFINE rec == Failed(snap[m])
        <4> HIDE DEF rec
        <4>1. /\ rec \in AnyRecord /\ rec.st = "error" /\ rec.ctime = snap[m].ctime
              /\ outbox' = AddSorted(outbox, m, rec)
          BY <3>1, <3>2 DEF rec
        <4>2. IsAdded(AddSorted(outbox, m, rec), outbox, m, rec)
          BY <1>0, <4>1, AddSortedFacts, Zenon
        <4> QED BY <4>1, <4>2 DEF IsAdded
      <3>4. Has(outbox', m) /\ {outbox'[m].ctime, outbox'[m].pos} \subseteq Stamps(m)
        BY <1>2, <3>3 DEF Has
      <3> QED BY <1>0, <1>4, <3>3, <3>4, OneChanged
    <2> QED BY <2>1, <2>2
  <1>5. CASE outbox' = RemoveMessage(outbox, m) /\ taken' = taken \cup ({m} \ posted)
    <2>1. outbox' = [outbox EXCEPT ![m] = Absent]
      BY <1>5 DEF RemoveMessage
    <2>2. /\ outbox' \in [Msgs -> AnyRecord]
          /\ outbox'[m] = Absent
          /\ \A k \in Msgs \ {m} : outbox'[k] = outbox[k]
      BY <1>0, <2>1, AbsentFacts
    <2>3. ~Has(outbox', m)
      BY <2>2, AbsentFacts DEF Has
    <2> QED BY <1>0, <1>5, <2>2, <2>3, OneChanged
  <1>6. CASE outbox' = RecordFailedAttempt(outbox, m, snap[m]) /\ UNCHANGED taken
             /\ snap[m].attempts < MaxAttempts
    <2>1. CASE outbox[m].st = "sending"
      <3>1. outbox' = [outbox EXCEPT ![m] = Sending(outbox[m], outbox[m].attempts + 1)]
        BY <1>6, <2>1 DEF RecordFailedAttempt
      <3>2. outbox[m].attempts + 1 \in 0 .. MaxAttempts
        <4>1. outbox[m].attempts <= snap[m].attempts
          BY <1>0, <2>1 DEF Inv, Counted, Has
        <4>2. outbox[m].attempts \in Nat /\ snap[m].attempts \in Nat
          BY <1>0, RecordFacts
        <4> QED BY <1>6, <4>1, <4>2, DelivererAssumption
      <3>3. LET rec == Sending(outbox[m], outbox[m].attempts + 1)
            IN  /\ rec \in AnyRecord /\ rec.st = "sending"
                /\ rec.ctime = outbox[m].ctime /\ rec.pos = outbox[m].pos
        <4>1. outbox[m] \in AnyRecord
          BY <1>0
        <4> QED BY <3>2, <4>1, SendingFacts
      <3>4. /\ outbox' \in [Msgs -> AnyRecord]
            /\ outbox'[m] = Sending(outbox[m], outbox[m].attempts + 1)
            /\ \A k \in Msgs \ {m} : outbox'[k] = outbox[k]
        BY <1>0, <3>1, <3>3
      <3>5. Has(outbox', m) /\ {outbox'[m].ctime, outbox'[m].pos} \subseteq Stamps(m)
        BY <1>0, <1>1, <2>1, <3>3, <3>4 DEF Has
      <3> QED BY <1>0, <1>6, <3>4, <3>5, OneChanged
    <2>2. CASE outbox[m].st = "error"
      <3>1. outbox' = outbox
        BY <1>6, <2>2 DEF RecordFailedAttempt
      <3> QED BY <1>0, <1>1, <1>6, <3>1 DEF FailureBox, BoxKept, Has
    <2>3. CASE outbox[m].st = "absent"
      <3>1. outbox' = AddSorted(outbox, m, Sending(snap[m], snap[m].attempts + 1))
        BY <1>6, <2>3 DEF RecordFailedAttempt
      <3>2. snap[m].attempts + 1 \in 0 .. MaxAttempts
        <4>1. snap[m].attempts \in 0 .. MaxAttempts
          BY <1>0, RecordFacts
        <4> QED BY <1>6, <4>1, DelivererAssumption
      <3> DEFINE rec == Sending(snap[m], snap[m].attempts + 1)
      <3>3. rec \in AnyRecord /\ rec.st = "sending" /\ rec.ctime = snap[m].ctime
        BY <1>0, <3>2, SendingFacts
      <3> HIDE DEF rec
      <3>4. /\ outbox' \in [Msgs -> AnyRecord]
            /\ \A k \in Msgs \ {m} :
                 /\ outbox'[k].st = outbox[k].st /\ outbox'[k].attempts = outbox[k].attempts
                 /\ outbox'[k].ctime = outbox[k].ctime /\ outbox'[k].pos = outbox[k].ctime
            /\ outbox'[m].st = "sending"
            /\ outbox'[m].ctime = snap[m].ctime /\ outbox'[m].pos = snap[m].ctime
        <4>1. outbox' = AddSorted(outbox, m, rec)
          BY <3>1 DEF rec
        <4>2. IsAdded(AddSorted(outbox, m, rec), outbox, m, rec)
          BY <1>0, <3>3, AddSortedFacts, Zenon
        <4> QED BY <3>3, <4>1, <4>2 DEF IsAdded
      <3>5. Has(outbox', m) /\ {outbox'[m].ctime, outbox'[m].pos} \subseteq Stamps(m)
        BY <1>2, <3>4 DEF Has
      <3> QED BY <1>0, <1>6, <3>4, <3>5, OneChanged
    <2> QED BY <1>0, <2>1, <2>2, <2>3, RecordFacts
  <1>7. CASE UNCHANGED <<outbox, taken>>
    BY <1>0, <1>1, <1>7 DEF FailureBox, BoxKept, Has
  <1> QED BY <1>3, <1>4, <1>5, <1>6, <1>7 DEF Failure

(* A failed attempt, whatever the error, is a step that keeps.             *)
LEMMA FailureKept ==
  ASSUME Inv, NEW c \in Convs, NEW m \in Msgs, IsFirst(c, m), NEW err, Failure(c, m, err),
         UNCHANGED <<deliverUnchanged, inflight, dropped>>
  PROVE  Kept
  <1>0. /\ m \in InConv(c) /\ Has(snap, m) /\ msg[m].conv = c
        /\ TypeOK /\ BreakLoop(c, m)
        /\ UNCHANGED <<msg, queued, connected, loop, posted, retries, restarts, retried,
                       inflight, dropped>>
    BY DEF IsFirst, InConv, Inv, Failure, deliverUnchanged
  <1>1. FailureBox(m)
    BY <1>0, FailureBoxHolds
  <1>2. BoxKept
    BY <1>1 DEF FailureBox
  <1>3. /\ snap' \in [Msgs -> Copy]
        /\ pc' \in [Convs -> {"next", "abort", "post", "await"}]
        /\ \A k \in Msgs : snap'[k] \in {snap[k], Absent}
        /\ snap'[m] = Absent
        /\ msg[m].kind # "unfurl" => GoneFrom(c)
        /\ \A k \in Msgs \ {m} : snap'[k] = Absent => snap[k] = Absent \/ (GoneFrom(c) /\ k \in InConv(c))
    BY <1>0, BreakLoopFacts
  <1>4. TypeOK'
    BY <1>0, <1>2, <1>3 DEF TypeOK, BoxKept, AnyRecord, Copy
  <1>5. ~Has(snap', m) /\ \A k \in Msgs : Has(snap', k) => snap'[k] = snap[k] /\ Has(snap, k) /\ k # m
    BY <1>3, AbsentFacts DEF Has
  <1>6. \A k \in Msgs \ {m} :
          outbox'[k].st = "sending" => outbox[k].st = "sending" /\ outbox'[k].attempts = outbox[k].attempts
    BY <1>1 DEF FailureBox
  <1>7. Counted'
    BY <1>5, <1>6 DEF Inv, Counted, Has
  <1>8. Holds(m) => GoneFrom(msg[m].conv)
    BY <1>0, <1>3 DEF Holds
  <1>9. ASSUME NEW k \in Msgs, outbox'[k].st = "sending"
        PROVE  \/ outbox[k].st = "sending"
               \/ Has(snap, k) /\ (Holds(k) => GoneFrom(msg[k].conv))
    BY <1>0, <1>6, <1>8, <1>9
  <1>10. ASSUME NEW k \in Msgs, Holds(k), Has(snap, k), ~Has(snap', k)
         PROVE  GoneFrom(msg[k].conv)
    <2>1. CASE k = m
      BY <1>8, <1>10, <2>1
    <2>2. CASE k # m
      <3>1. snap'[k] = Absent /\ snap[k] # Absent
        BY <1>3, <1>10, AbsentFacts DEF Has
      <3>2. GoneFrom(c) /\ msg[k].conv = c
        BY <1>3, <2>2, <3>1 DEF InConv
      <3> QED BY <3>2
    <2> QED BY <2>1, <2>2
  <1>11. CopiesKept
    BY <1>0, <1>3, <1>7, <1>9, <1>10 DEF CopiesKept
  <1> QED BY <1>0, <1>2, <1>4, <1>11 DEF Kept

(* A step that gives up the copy of m and leaves the other records alone,  *)
(* or takes them out with a reason.                                        *)
LEMMA ContinueKept ==
  ASSUME Inv, NEW c \in Convs, NEW m \in Msgs, IsFirst(c, m), Continue(c, m),
         \A k \in Msgs : outbox'[k] \in {outbox[k], Absent},
         outbox' \in [Msgs -> AnyRecord],
         \A k \in Msgs : Has(outbox, k) => Has(outbox', k) \/ k \in posted \cup taken' \cup dropped',
         taken \subseteq taken', taken' \subseteq Msgs,
         dropped \subseteq dropped', dropped' \subseteq Msgs,
         Holds(m) => outbox'[m].st # "sending" \/ m \in posted,
         UNCHANGED <<deliverUnchanged, inflight>>
  PROVE  Kept
  <1>0. /\ TypeOK
        /\ UNCHANGED <<msg, queued, connected, loop, posted, retries, restarts, retried, inflight>>
    BY DEF Inv, deliverUnchanged
  <1>1. snap' = [snap EXCEPT ![m] = Absent] /\ pc' = [pc EXCEPT ![c] = "next"]
    BY DEF Continue
  <1>2. /\ snap' \in [Msgs -> Copy] /\ snap'[m] = Absent
        /\ \A k \in Msgs \ {m} : snap'[k] = snap[k]
    BY <1>0, <1>1, AbsentFacts DEF TypeOK, Copy
  <1>3. pc' \in [Convs -> {"next", "abort", "post", "await"}]
    BY <1>0, <1>1 DEF TypeOK
  <1>4. TypeOK'
    BY <1>0, <1>2, <1>3 DEF TypeOK, AnyRecord, Copy
  <1>5. \A k \in Msgs : Has(outbox', k) => outbox'[k] = outbox[k] /\ Has(outbox, k)
    BY AbsentFacts DEF Has
  <1>6. BoxKept
    BY <1>5 DEF BoxKept, Stamps
  <1>7. \A k \in Msgs : outbox'[k].st = "sending" => outbox'[k] = outbox[k]
    BY AbsentFacts
  <1>8. \A k \in Msgs : Has(snap', k) => snap'[k] = snap[k] /\ Has(snap, k)
    BY <1>2, AbsentFacts DEF Has
  <1>9. Counted'
    BY <1>7, <1>8 DEF Inv, Counted, Has
  <1>10. \A k \in Msgs : Has(snap, k) /\ ~Has(snap', k) => k = m
    BY <1>2 DEF Has
  <1>11. CopiesKept
    BY <1>0, <1>2, <1>7, <1>9, <1>10 DEF CopiesKept
  <1> QED BY <1>0, <1>4, <1>6, <1>11 DEF Kept

(* A step that goes on with m, and keeps its copy.                         *)
LEMMA GoesOnKept ==
  ASSUME Inv, NEW c \in Convs, NEW m \in Msgs, IsFirst(c, m),
         NEW where \in {"next", "abort", "post", "await"}, pc' = [pc EXCEPT ![c] = where],
         BoxKept, UNCHANGED <<snap, deliverUnchanged>>,
         \A k \in Msgs \ {m} : outbox'[k] \in {outbox[k], Absent},
         \/ outbox'[m] = outbox[m]
         \/ ~Holds(m) /\ outbox'[m].attempts = snap[m].attempts,
         inflight' \in {inflight, inflight \cup {m}}
  PROVE  Kept
  <1>0. /\ TypeOK /\ Has(snap, m) /\ snap[m] \in AnyRecord
        /\ UNCHANGED <<msg, queued, connected, loop, posted, retries, restarts, retried, snap>>
    BY CopyFacts DEF Inv, TypeOK, Copy, IsFirst, deliverUnchanged
  <1>1. pc' \in [Convs -> {"next", "abort", "post", "await"}]
    BY <1>0 DEF TypeOK
  <1>2. TypeOK'
    BY <1>0, <1>1 DEF TypeOK, BoxKept, AnyRecord
  <1>3. Counted'
    <2> SUFFICES ASSUME NEW k \in Msgs, Has(snap, k), outbox'[k].st = "sending"
                 PROVE  outbox'[k].attempts <= snap[k].attempts
      BY <1>0 DEF Counted, Has
    <2>1. CASE outbox'[k] = outbox[k]
      BY <2>1 DEF Inv, Counted
    <2>2. CASE k = m /\ outbox'[m].attempts = snap[m].attempts
      BY <1>0, <2>2, RecordFacts
    <2> QED BY <2>1, <2>2, AbsentFacts
  <1>4. \A k \in Msgs :
          outbox'[k].st = "sending" => outbox[k].st = "sending" \/ (k = m /\ ~Holds(k))
    BY AbsentFacts
  <1>5. CopiesKept
    BY <1>0, <1>3, <1>4 DEF CopiesKept, Has
  <1> QED BY <1>0, <1>2, <1>5 DEF Kept

(* Every step of a goroutine keeps.                                        *)
LEMMA DeliverKept ==
  ASSUME Inv, NEW c \in Convs, NEW m \in Msgs, Deliver(c, m)
  PROVE  Kept
  <1>0. /\ TypeOK
        /\ outbox \in [Msgs -> AnyRecord] /\ snap \in [Msgs -> Copy]
        /\ taken \subseteq Msgs /\ dropped \subseteq Msgs
    BY DEF Inv, TypeOK, AnyRecord, Copy
  <1>1. IsFirst(c, m)
    BY DEF Deliver, NotSent, ProcessBackgroundTask, TaskInProgress,
           CancelPendingDuplicateReactions, RemoveItself, NothingToPrepare, Send,
           SendSucceeds, SendFails, ConnectionRace
  <1>a. Has(snap, m) /\ m \in InConv(c)
    BY <1>1 DEF IsFirst, InConv
  <1>2. \A k \in Msgs : Has(outbox, k) => {outbox[k].ctime, outbox[k].pos} \subseteq Stamps(k)
    BY DEF Stamps
  <1>3. UNCHANGED <<outbox, taken, dropped>> => BoxKept
    BY <1>0, <1>2 DEF BoxKept
  <1>4. CASE NotSent(c, m)
    BY <1>1, <1>4, FailureKept DEF NotSent
  <1>5. CASE ProcessBackgroundTask(c, m)
    <2>1. CASE \E err \in {"temporary", "permanent"} : Failure(c, m, err)
      BY <1>1, <1>5, <2>1, FailureKept DEF ProcessBackgroundTask
    <2>2. CASE /\ outbox' = UpdateMessage(outbox, m, snap[m])
               /\ pc' = [pc EXCEPT ![c] = "post"]
               /\ UNCHANGED <<snap, taken>>
      <3>0. UNCHANGED <<deliverUnchanged, inflight, dropped>> /\ ~Holds(m)
        BY <1>5 DEF ProcessBackgroundTask, Holds
      <3>1. CASE ~Has(outbox, m)
        <4>1. outbox' = outbox
          BY <2>2, <3>1 DEF UpdateMessage
        <4>2. BoxKept
          BY <1>3, <2>2, <3>0, <4>1
        <4>3. UNCHANGED <<snap, deliverUnchanged>> /\ inflight' = inflight
          BY <2>2, <3>0
        <4> QED BY <1>1, <2>2, <4>1, <4>2, <4>3, GoesOnKept
      <3>2. CASE Has(outbox, m)
        <4> DEFINE rec == [snap[m] EXCEPT !.pos = outbox[m].pos]
        <4>1. /\ rec \in AnyRecord /\ rec.attempts = snap[m].attempts
              /\ rec.ctime = snap[m].ctime /\ rec.pos = outbox[m].pos
              /\ rec.st = snap[m].st
          <5>1. snap[m] \in AnyRecord /\ outbox[m].pos \in Nat
            BY <1>0, CopyFacts, RecordFacts
          <5> QED BY <5>1 DEF AnyRecord, Records
        <4>2. outbox' = [outbox EXCEPT ![m] = rec]
          BY <2>2, <3>2 DEF UpdateMessage
        <4> HIDE DEF rec
        <4>3. /\ outbox' \in [Msgs -> AnyRecord] /\ outbox'[m] = rec
              /\ \A k \in Msgs \ {m} : outbox'[k] = outbox[k]
          BY <1>0, <4>1, <4>2
        <4>4. {rec.ctime, rec.pos} \subseteq Stamps(m)
          BY <1>a, <3>2, <4>1 DEF Stamps
        <4>5. Has(outbox', m)
          BY <1>a, <4>1, <4>3 DEF Has
        <4>6. BoxKept
          <5>1. \A k \in Msgs : Has(outbox', k) => {outbox'[k].ctime, outbox'[k].pos} \subseteq Stamps(k)
            BY <1>2, <4>3, <4>4 DEF Has
          <5>2. \A k \in Msgs : Has(outbox, k) => Has(outbox', k)
            BY <4>3, <4>5 DEF Has
          <5> QED BY <1>0, <2>2, <3>0, <4>3, <5>1, <5>2 DEF BoxKept
        <4>7. UNCHANGED <<snap, deliverUnchanged>> /\ inflight' = inflight
          BY <2>2, <3>0
        <4>8. outbox'[m].attempts = snap[m].attempts /\ ~Holds(m)
          BY <3>0, <4>1, <4>3
        <4> QED BY <1>1, <2>2, <4>3, <4>6, <4>7, <4>8, GoesOnKept
      <3> QED BY <3>1, <3>2
    <2> QED BY <1>5, <2>1, <2>2 DEF ProcessBackgroundTask
  <1>6. CASE TaskInProgress(c, m)
    BY <1>0, <1>1, <1>6, ContinueKept DEF TaskInProgress, Holds
  <1>7. CASE CancelPendingDuplicateReactions(c, m)
    <2> DEFINE dups == {n \in InConv(c) \ {m} : /\ Has(outbox, n)
                                                /\ msg[n].kind = "reaction"
                                                /\ msg[n].body = msg[m].body}
    <2>1. /\ outbox' = RemoveAll(outbox, dups)
          /\ dropped' = dropped \cup dups
          /\ UNCHANGED <<deliverUnchanged, inflight, taken>>
          /\ dups \in SUBSET Msgs /\ m \notin dups
      BY <1>7 DEF CancelPendingDuplicateReactions, InConv
    <2>2. \/ ~Has(outbox, m) /\ Continue(c, m)
          \/ /\ \E where \in {"abort", "post"} : pc' = [pc EXCEPT ![c] = where]
             /\ UNCHANGED snap
      BY <1>7 DEF CancelPendingDuplicateReactions
    <2> HIDE DEF dups
    <2>3. /\ outbox' \in [Msgs -> AnyRecord]
          /\ \A k \in Msgs : outbox'[k] = IF k \in dups THEN Absent ELSE outbox[k]
      BY <1>0, <2>1, RemoveAllFacts
    <2>4. \A k \in Msgs : Has(outbox, k) => Has(outbox', k) \/ k \in posted \cup taken' \cup dropped'
      BY <2>1, <2>3 DEF Has
    <2>5. CASE ~Has(outbox, m) /\ Continue(c, m)
      <3>1. outbox'[m].st # "sending"
        BY <2>1, <2>3, <2>5 DEF Has
      <3> QED BY <1>0, <1>1, <2>1, <2>3, <2>4, <2>5, <3>1, ContinueKept
    <2>6. CASE /\ \E where \in {"abort", "post"} : pc' = [pc EXCEPT ![c] = where]
               /\ UNCHANGED snap
      <3>1. BoxKept
        <4>1. \A k \in Msgs : Has(outbox', k) => {outbox'[k].ctime, outbox'[k].pos} \subseteq Stamps(k)
          BY <1>2, <2>3, AbsentFacts DEF Has
        <4> QED BY <1>0, <2>1, <2>3, <2>4, <4>1 DEF BoxKept
      <3>2. UNCHANGED <<snap, deliverUnchanged>> /\ inflight' = inflight
        BY <2>1, <2>6
      <3>3. /\ \A k \in Msgs \ {m} : outbox'[k] \in {outbox[k], Absent}
            /\ outbox'[m] = outbox[m]
        BY <2>1, <2>3
      <3> QED BY <1>1, <2>6, <3>1, <3>2, <3>3, GoesOnKept
    <2> QED BY <2>2, <2>5, <2>6
  <1>8. CASE RemoveItself(c, m) \/ SendSucceeds(c, m)
    <2>1. /\ outbox' = [outbox EXCEPT ![m] = Absent] /\ Continue(c, m)
          /\ UNCHANGED <<deliverUnchanged, inflight, taken>>
          /\ dropped' \in {dropped, dropped \cup {m}}
          /\ m \in posted \cup dropped'
      BY <1>8 DEF RemoveItself, SendSucceeds, RemoveMessage
    <2>2. /\ outbox' \in [Msgs -> AnyRecord] /\ outbox'[m] = Absent
          /\ \A k \in Msgs \ {m} : outbox'[k] = outbox[k]
      BY <1>0, <2>1, AbsentFacts
    <2>3. \A k \in Msgs : Has(outbox, k) => Has(outbox', k) \/ k \in posted \cup taken' \cup dropped'
      BY <2>1, <2>2 DEF Has
    <2>4. outbox'[m].st # "sending"
      BY <2>2, AbsentFacts
    <2>5. dropped \subseteq dropped' /\ dropped' \subseteq Msgs /\ taken \subseteq taken' /\ taken' \subseteq Msgs
      BY <1>0, <2>1
    <2> QED BY <1>1, <2>1, <2>2, <2>3, <2>4, <2>5, ContinueKept
  <1>9. CASE NothingToPrepare(c, m)
    BY <1>1, <1>3, <1>9, GoesOnKept DEF NothingToPrepare
  <1>10. CASE Send(c, m)
    <2>1. CASE \E err \in {"temporary", "permanent"} : Failure(c, m, err) /\ UNCHANGED inflight
      BY <1>1, <1>10, <2>1, FailureKept DEF Send
    <2>2. CASE /\ inflight' = IF m \in posted THEN inflight ELSE inflight \cup {m}
               /\ pc' = [pc EXCEPT ![c] = "await"]
               /\ UNCHANGED <<outbox, snap, taken>>
      <3>1. UNCHANGED <<outbox, taken, dropped, snap, deliverUnchanged>>
        BY <1>10, <2>2 DEF Send
      <3>2. BoxKept
        BY <1>3, <3>1
      <3> QED BY <1>1, <2>2, <3>1, <3>2, GoesOnKept
    <2> QED BY <1>10, <2>1, <2>2 DEF Send
  <1>11. CASE SendFails(c, m)
    <2>1. \E err \in {"temporary", "permanent", "moot"} : Failure(c, m, err)
      BY <1>11 DEF SendFails
    <2> QED BY <1>1, <1>11, <2>1, FailureKept DEF SendFails
  <1>12. CASE ConnectionRace(c, m)
    BY <1>1, <1>12, FailureKept DEF ConnectionRace
  <1> QED BY <1>4, <1>5, <1>6, <1>7, <1>8, <1>9, <1>10, <1>11, <1>12 DEF Deliver

-----------------------------------------------------------------------------
(* The other steps.                                                        *)

(* The user or the purge takes records out.                                *)
LEMMA TakenKept ==
  ASSUME Inv, NEW ms \in SUBSET Msgs,
         \A k \in Msgs : outbox'[k] = IF k \in ms THEN Absent ELSE outbox[k],
         outbox' \in [Msgs -> AnyRecord],
         taken' = taken \cup ms,
         UNCHANGED <<queued, retries, retried, unseen>>
  PROVE  Kept
  <1>0. /\ TypeOK
        /\ UNCHANGED <<queued, retries, retried, msg, connected, loop, snap, pc, inflight, posted,
                       restarts, dropped>>
    BY DEF Inv, unseen
  <1>1. TypeOK'
    BY <1>0 DEF TypeOK, AnyRecord
  <1>2. \A k \in Msgs : Has(outbox', k) => outbox'[k] = outbox[k] /\ Has(outbox, k)
    BY AbsentFacts DEF Has
  <1>3. \A k \in Msgs : outbox'[k].st = "sending" => outbox'[k] = outbox[k]
    BY AbsentFacts
  <1>4. BoxKept
    <2>1. \A k \in Msgs : Has(outbox', k) => {outbox'[k].ctime, outbox'[k].pos} \subseteq Stamps(k)
      BY <1>2 DEF Stamps
    <2>2. \A k \in Msgs : Has(outbox, k) => Has(outbox', k) \/ k \in taken'
      BY DEF Has
    <2> QED BY <1>0, <2>1, <2>2 DEF BoxKept, TypeOK
  <1>5. CopiesKept
    BY <1>0, <1>3 DEF CopiesKept, Inv, Counted, Has
  <1> QED BY <1>0, <1>1, <1>4, <1>5 DEF Kept

(* The records stay as they are, and the copies stay or are all gone.      *)
LEMMA IdleKept ==
  ASSUME Inv, TypeOK', UNCHANGED <<msg, outbox, queued, inflight, posted, retries, retried, taken, dropped>>,
         snap' = snap \/ \A m \in Msgs : snap'[m] = Absent
  PROVE  Kept
  <1>0. outbox \in [Msgs -> AnyRecord] /\ taken \subseteq Msgs /\ dropped \subseteq Msgs
    BY DEF Inv, TypeOK, AnyRecord
  <1>1. BoxKept
    BY <1>0 DEF BoxKept, Stamps, Has
  <1>2. CASE snap' = snap
    <2>1. CopiesKept
      BY <1>2 DEF CopiesKept, Inv, Counted, Has
    <2> QED BY <1>1, <2>1 DEF Kept
  <1>3. CASE \A m \in Msgs : snap'[m] = Absent
    <2>1. \A m \in Msgs : ~Has(snap', m)
      BY <1>3, AbsentFacts DEF Has
    <2>2. \A c : GoneFrom(c)
      BY <2>1 DEF GoneFrom, InConv
    <2>3. CopiesKept
      BY <1>3, <2>1, <2>2 DEF CopiesKept, Counted, Has
    <2> QED BY <1>1, <2>3 DEF Kept
  <1> QED BY <1>2, <1>3

LEMMA UserKept ==
  ASSUME Inv, \/ \E m \in Msgs : CancelPost(m)
              \/ \E old \in SUBSET Msgs : OutboxPurge(old)
  PROVE  Kept
  <1>0. TypeOK /\ outbox \in [Msgs -> AnyRecord]
    BY DEF Inv, TypeOK, AnyRecord
  <1>1. ASSUME NEW m \in Msgs, CancelPost(m) PROVE Kept
    <2>1. /\ \A k \in Msgs : outbox'[k] = IF k \in {m} THEN Absent ELSE outbox[k]
          /\ outbox' \in [Msgs -> AnyRecord]
      BY <1>0, <1>1, AbsentFacts DEF CancelPost, RemoveMessage
    <2> QED BY <1>1, <2>1, TakenKept DEF CancelPost
  <1>2. ASSUME NEW old \in SUBSET Msgs, OutboxPurge(old) PROVE Kept
    <2>1. /\ \A k \in Msgs : outbox'[k] = IF k \in old THEN Absent ELSE outbox[k]
          /\ outbox' \in [Msgs -> AnyRecord]
      BY <1>0, <1>2, RemoveAllFacts DEF OutboxPurge
    <2> QED BY <1>2, <2>1, TakenKept DEF OutboxPurge
  <1> QED BY <1>1, <1>2

LEMMA LoopKept ==
  ASSUME Inv, Connected \/ Disconnected \/ EndPass \/ Stop \/ Start \/ Crash
  PROVE  Kept
  <1>1. CASE Connected \/ Disconnected \/ EndPass \/ Stop \/ Start
    <2>1. /\ UNCHANGED <<msg, outbox, queued, snap, pc, inflight, posted, retries, retried, taken, dropped>>
          /\ restarts' \in {restarts, restarts + 1}
          /\ loop' \in {loop, "waiting", "stopped"}
          /\ connected' = connected \/ connected' = TRUE \/ connected' = FALSE
      BY <1>1 DEF Connected, Disconnected, EndPass, Stop, Start
    <2>a. connected' \in BOOLEAN
      BY <2>1, Zenon DEF Inv, TypeOK
    <2>b. restarts' \in Nat /\ loop' \in {"waiting", "delivering", "stopped"}
      BY <2>1 DEF Inv, TypeOK
    <2>2. TypeOK'
      BY <2>1, <2>a, <2>b DEF Inv, TypeOK
    <2> QED BY <2>1, <2>2, IdleKept
  <1>2. CASE Crash
    <2>1. TypeOK'
      <3>1. snap' \in [Msgs -> Copy] /\ pc' \in [Convs -> {"next", "abort", "post", "await"}]
        BY <1>2, AbsentFacts DEF Crash
      <3>2. connected' \in BOOLEAN
        BY <1>2, Zenon DEF Crash
      <3>3. restarts' \in Nat
        BY <1>2 DEF Crash, Inv, TypeOK
      <3> QED BY <1>2, <3>1, <3>2, <3>3 DEF Crash, Inv, TypeOK, Copy
    <2> QED BY <1>2, <2>1, IdleKept DEF Crash
  <1> QED BY <1>1, <1>2

LEMMA ServerPostInv == ASSUME Inv, NEW m \in Msgs, ServerPost(m) PROVE Inv'
  <1>0. /\ posted' = posted \cup {m} /\ inflight' = inflight \ {m} /\ m \in inflight
        /\ UNCHANGED <<msg, outbox, queued, connected, loop, snap, pc,
                       retries, restarts, retried, taken, dropped>>
    BY DEF ServerPost
  <1>1. TypeOK'
    BY <1>0 DEF Inv, TypeOK
  <1>2. Born' /\ Counted' /\ Timed' /\ Ordered'
    BY <1>0 DEF Inv, Born, Counted, Timed, Ordered, Stamps, Has, Now
  <1>3. Ahead' /\ Behind'
    BY <1>0 DEF Inv, Ahead, Behind, HoldsUp, Has
  <1>4. NothingLost'
    BY <1>0 DEF Inv, NothingLost, Has
  <1> QED BY <1>1, <1>2, <1>3, <1>4 DEF Inv

LEMMA BeginPassInv == ASSUME Inv, BeginPass PROVE Inv'
  <1>0. /\ snap' = PullAllConversations(outbox) /\ loop' = "delivering"
        /\ UNCHANGED <<msg, outbox, queued, connected, pc, inflight, posted,
                       retries, restarts, retried, taken, dropped>>
        /\ TypeOK /\ outbox \in [Msgs -> AnyRecord]
    BY DEF BeginPass, Inv, TypeOK, AnyRecord
  <1>1. snap' = [m \in Msgs |-> IF outbox[m].st = "sending" THEN outbox[m] ELSE Absent]
    BY <1>0 DEF PullAllConversations
  <1>2. \A m \in Msgs : IF outbox[m].st = "sending" THEN snap'[m] = outbox[m] ELSE snap'[m] = Absent
    BY <1>1
  <1>3. \A m \in Msgs : Has(snap', m) <=> outbox[m].st = "sending"
    BY <1>2, AbsentFacts DEF Has
  <1>4. TypeOK'
    <2>1. \A m \in Msgs : outbox[m].st = "sending" => outbox[m] \in Copy
      BY <1>0 DEF AnyRecord, Copy, Records
    <2>2. snap' \in [Msgs -> Copy]
      BY <1>1, <2>1, AbsentFacts
    <2> QED BY <1>0, <2>2 DEF TypeOK, Copy
  <1>5. Born'
    BY <1>0, <1>3 DEF Inv, Born, Has
  <1>6. Counted'
    BY <1>0, <1>2, <1>3, RecordFacts DEF Counted, Has
  <1>7. \A m \in Msgs : Stamps(m)' \subseteq Stamps(m)
    BY <1>0, <1>2, <1>3 DEF Stamps, Has
  <1>8. Timed' /\ Ordered'
    BY <1>0, <1>7 DEF Inv, Timed, Ordered, Now
  <1>9. Ahead' /\ Behind'
    BY <1>0, <1>3 DEF Inv, Ahead, Behind, HoldsUp, Has
  <1>10. NothingLost'
    BY <1>0 DEF Inv, NothingLost, Has
  <1> QED BY <1>4, <1>5, <1>6, <1>8, <1>9, <1>10 DEF Inv

LEMMA QueueInv == ASSUME Inv, Queue PROVE Inv'
  <1>0. /\ queued + 1 \in Msgs /\ queued \in Nat /\ retries \in Nat
        /\ Msgs \subseteq Nat /\ queued' = queued + 1
    BY DelivererAssumption DEF Queue, Inv, TypeOK, Msgs
  <1> PICK m0 \in Msgs : m0 = queued + 1
    BY <1>0
  <1> DEFINE rec == [st |-> "sending", attempts |-> 0, ctime |-> Now + 1, pos |-> Now + 1]
  <1>1. /\ outbox' = [outbox EXCEPT ![m0] = rec]
        /\ UNCHANGED <<msg, connected, loop, snap, pc, inflight, posted, restarts, dropped,
                       retries, retried, taken>>
        /\ TypeOK /\ outbox \in [Msgs -> AnyRecord]
    BY DEF Queue, PushMessage, unseen, Inv, TypeOK, AnyRecord
  <1>2. /\ rec \in AnyRecord /\ rec.st = "sending"
        /\ rec.ctime = Now + 1 /\ rec.pos = Now + 1
    BY <1>0, DelivererAssumption DEF AnyRecord, Records, Now
  <1> HIDE DEF rec
  <1>3. /\ outbox' \in [Msgs -> AnyRecord] /\ outbox'[m0] = rec
        /\ \A k \in Msgs \ {m0} : outbox'[k] = outbox[k]
    BY <1>0, <1>1, <1>2
  <1>4. /\ ~Has(outbox, m0) /\ ~Has(snap, m0) /\ m0 \notin inflight /\ m0 \notin posted
    BY <1>0 DEF Inv, Born
  <1>5. /\ Has(outbox', m0)
        /\ \A k \in Msgs \ {m0} : Has(outbox', k) <=> Has(outbox, k)
    BY <1>2, <1>3 DEF Has
  <1>6. TypeOK'
    <2>1. queued' \in 0 .. NumMsgs
      BY <1>0, DelivererAssumption DEF Msgs
    <2> QED BY <1>1, <1>3, <2>1 DEF TypeOK, AnyRecord
  <1>7. Born'
    <2>1. \A m \in Msgs : m <= queued => m <= m0
      BY <1>0
    <2> QED BY <1>0, <1>1, <1>5, <2>1 DEF Inv, Born, Has
  <1>8. Counted'
    BY <1>1, <1>3, <1>4 DEF Inv, Counted, Has
  <1>9. /\ Stamps(m0)' = {Now + 1}
        /\ \A k \in Msgs \ {m0} : Stamps(k)' = Stamps(k)
    <2>1. Stamps(m0)' = {Now + 1}
      BY <1>1, <1>2, <1>3, <1>4, <1>5 DEF Stamps, Has
    <2>2. \A k \in Msgs \ {m0} : Stamps(k)' = Stamps(k)
      BY <1>1, <1>3 DEF Stamps, Has
    <2> QED BY <2>1, <2>2
  <1>10. Now \in Nat /\ Now' = Now + 1 /\ \A k \in Msgs : \A t \in Stamps(k) : t \in Nat /\ t <= Now
    <2>1. Now \in Nat /\ Now' = Now + 1
      BY <1>0, <1>1 DEF Now
    <2>2. \A k \in Msgs : \A t \in Stamps(k) : t \in Nat
      BY <1>1, RecordFacts, CopyFacts DEF Stamps, TypeOK, Copy
    <2> QED BY <2>1, <2>2 DEF Inv, Timed
  <1>11. Timed'
    BY <1>9, <1>10 DEF Timed
  <1>12. Ordered'
    <2> SUFFICES ASSUME NEW m \in Msgs, NEW n \in Msgs, m < n, m \notin retried,
                        NEW s \in Stamps(m)', NEW t \in Stamps(n)'
                 PROVE  s < t
      BY <1>1 DEF Ordered
    <2>1. CASE n = m0
      BY <1>0, <1>9, <1>10, <2>1
    <2>2. CASE m = m0
      <3>1. ~Has(outbox, n) /\ ~Has(snap, n)
        BY <1>0, <2>2 DEF Inv, Born
      <3>2. Stamps(n)' = {}
        BY <1>0, <1>9, <2>2, <3>1 DEF Stamps
      <3> QED BY <3>2
    <2>3. CASE m # m0 /\ n # m0
      BY <1>9, <2>3 DEF Inv, Ordered
    <2> QED BY <2>1, <2>2, <2>3
  <1>13. \A m, n \in Msgs : HoldsUp(m, n)' => HoldsUp(m, n) /\ m < n
    BY <1>1 DEF HoldsUp
  <1>14. Ahead'
    <2> SUFFICES ASSUME NEW m \in Msgs, NEW n \in Msgs, HoldsUp(m, n), m < n, m \notin retried,
                        Has(snap, n), outbox'[m].st = "sending"
                 PROVE  Has(snap, m) \/ m \in posted
      BY <1>1, <1>13 DEF Ahead, Has
    <2>1. m # m0
      BY <1>0 DEF Inv, Born
    <2> QED BY <1>3, <2>1 DEF Inv, Ahead
  <1>15. Behind'
    <2> SUFFICES ASSUME NEW m \in Msgs, NEW n \in Msgs, HoldsUp(m, n), m < n, m \notin retried,
                        n \in inflight \cup posted, outbox'[m].st = "sending" \/ Has(snap, m)
                 PROVE  m \in posted
      BY <1>1, <1>13 DEF Behind, Has
    <2>1. m # m0
      BY <1>0 DEF Inv, Born
    <2> QED BY <1>3, <2>1 DEF Inv, Behind
  <1>16. NothingLost'
    <2> SUFFICES ASSUME NEW m \in 1 .. m0
                 PROVE  Has(outbox', m) \/ m \in posted \/ m \in taken \cup dropped
      BY <1>0, <1>1 DEF NothingLost, Has
    <2>1. m \in Msgs /\ (m = m0 \/ m \in 1 .. queued)
      BY <1>0, DelivererAssumption DEF Msgs
    <2> QED BY <1>5, <2>1 DEF Inv, NothingLost
  <1> QED BY <1>6, <1>7, <1>8, <1>11, <1>12, <1>14, <1>15, <1>16 DEF Inv

LEMMA RetryPostInv == ASSUME Inv, NEW m0 \in Msgs, RetryPost(m0) PROVE Inv'
  <1> DEFINE rec == [Sending(outbox[m0], 0) EXCEPT !.ctime = Now + 1]
  <1>0. /\ outbox' = [outbox EXCEPT ![m0] = rec]
        /\ retries' = retries + 1 /\ retried' = retried \cup {m0} /\ Has(outbox, m0)
        /\ UNCHANGED <<msg, connected, loop, snap, pc, inflight, posted, restarts, dropped, queued, taken>>
        /\ TypeOK /\ outbox \in [Msgs -> AnyRecord] /\ retries \in Nat /\ queued \in Nat
    BY DelivererAssumption DEF RetryPost, RetryMessage, unseen, Inv, TypeOK, AnyRecord
  <1>1. /\ rec \in AnyRecord /\ rec.st = "sending" /\ rec.attempts = 0
        /\ rec.ctime = Now + 1 /\ rec.pos = outbox[m0].pos
    <2>1. 0 \in 0 .. MaxAttempts /\ Now + 1 \in Nat
      BY <1>0, DelivererAssumption DEF Now
    <2>2. LET s == Sending(outbox[m0], 0)
          IN  s \in AnyRecord /\ s.st = "sending" /\ s.attempts = 0 /\ s.pos = outbox[m0].pos
      BY <1>0, <2>1, SendingFacts
    <2> QED BY <2>1, <2>2 DEF AnyRecord, Records
  <1> HIDE DEF rec
  <1>2. /\ outbox' \in [Msgs -> AnyRecord] /\ outbox'[m0] = rec
        /\ \A k \in Msgs \ {m0} : outbox'[k] = outbox[k]
    BY <1>0, <1>1
  <1>3. \A k \in Msgs : Has(outbox', k) <=> Has(outbox, k)
    BY <1>0, <1>1, <1>2 DEF Has
  <1>4. TypeOK'
    BY <1>0, <1>2 DEF TypeOK, AnyRecord
  <1>5. Born'
    BY <1>0, <1>3 DEF Inv, Born, Has
  <1>6. Counted'
    <2>1. \A k \in Msgs : snap[k].attempts \in Nat
      BY <1>0, CopyFacts, RecordFacts DEF TypeOK, Copy
    <2>2. rec.attempts <= snap[m0].attempts
      BY <1>1, <2>1
    <2> QED BY <1>0, <1>2, <2>2 DEF Inv, Counted, Has
  <1>7. /\ Stamps(m0)' \subseteq Stamps(m0) \cup {Now + 1}
        /\ \A k \in Msgs \ {m0} : Stamps(k)' = Stamps(k)
    <2>1. Stamps(m0)' \subseteq Stamps(m0) \cup {Now + 1}
      BY <1>0, <1>1, <1>2 DEF Stamps, Has
    <2>2. \A k \in Msgs \ {m0} : Stamps(k)' = Stamps(k)
      BY <1>0, <1>2 DEF Stamps, Has
    <2> QED BY <2>1, <2>2
  <1>8. Now \in Nat /\ Now' = Now + 1 /\ \A k \in Msgs : \A t \in Stamps(k) : t \in Nat /\ t <= Now
    <2>1. Now \in Nat /\ Now' = Now + 1
      BY <1>0 DEF Now
    <2>2. \A k \in Msgs : \A t \in Stamps(k) : t \in Nat
      BY <1>0, RecordFacts, CopyFacts DEF Stamps, TypeOK, Copy
    <2> QED BY <2>1, <2>2 DEF Inv, Timed
  <1>9. Timed'
    BY <1>7, <1>8 DEF Timed
  <1>10. Ordered'
    <2> SUFFICES ASSUME NEW m \in Msgs, NEW n \in Msgs, m < n, m \notin retried, m # m0,
                        NEW s \in Stamps(m)', NEW t \in Stamps(n)'
                 PROVE  s < t
      BY <1>0 DEF Ordered
    <2>1. s \in Stamps(m) /\ s \in Nat /\ s <= Now
      BY <1>7, <1>8
    <2>2. CASE t = Now + 1
      BY <1>8, <2>1, <2>2
    <2>3. CASE t \in Stamps(n)
      BY <2>1, <2>3 DEF Inv, Ordered
    <2> QED BY <1>7, <2>2, <2>3
  <1>11. \A m, n \in Msgs : HoldsUp(m, n)' => HoldsUp(m, n)
    BY <1>0 DEF HoldsUp
  <1>12. Ahead' /\ Behind'
    BY <1>0, <1>2, <1>11 DEF Inv, Ahead, Behind, Has
  <1>13. NothingLost'
    <2>1. 1 .. queued \subseteq Msgs
      BY <1>0, DelivererAssumption DEF TypeOK, Msgs
    <2> QED BY <1>0, <1>3, <2>1 DEF Inv, NothingLost, Has
  <1> QED BY <1>4, <1>5, <1>6, <1>9, <1>10, <1>12, <1>13 DEF Inv

LEMMA InitInv == Init => Inv
  <1> SUFFICES ASSUME Init PROVE Inv
    OBVIOUS
  <1>1. \A m \in Msgs : outbox[m] = Absent /\ snap[m] = Absent /\ ~Has(outbox, m) /\ ~Has(snap, m)
    BY AbsentFacts DEF Init, Has
  <1>2. TypeOK
    <2>1. outbox \in [Msgs -> AnyRecord] /\ snap \in [Msgs -> Copy]
      BY AbsentFacts DEF Init
    <2>2. queued \in 0 .. NumMsgs
      BY DelivererAssumption DEF Init
    <2>3. pc \in [Convs -> {"next", "abort", "post", "await"}]
      BY DEF Init
    <2>4. connected \in BOOLEAN
      BY Zenon DEF Init
    <2> QED BY <2>1, <2>2, <2>3, <2>4 DEF Init, TypeOK, AnyRecord, Copy
  <1>3. Born /\ Counted /\ Timed /\ Ordered /\ Ahead /\ Behind
    BY <1>1 DEF Init, Born, Counted, Timed, Ordered, Stamps, Ahead, Behind
  <1>4. NothingLost
    BY DEF Init, NothingLost
  <1> QED BY <1>2, <1>3, <1>4 DEF Inv

(* A step queues, retries, copies or posts, or it keeps.                   *)
LEMMA StepKinds ==
  ASSUME Inv, Next
  PROVE  Queue \/ (\E m \in Msgs : RetryPost(m) \/ ServerPost(m)) \/ BeginPass \/ Kept
  <1>1. ASSUME NEW c \in Convs, NEW m \in Msgs, Deliver(c, m) PROVE Kept
    BY <1>1, DeliverKept
  <1> QED BY <1>1, UserKept, LoopKept DEF Next

LEMMA NextInv == Inv /\ [Next]_vars => Inv'
  <1> SUFFICES ASSUME Inv, [Next]_vars PROVE Inv'
    OBVIOUS
  <1>1. CASE UNCHANGED vars
    <2>1. UNCHANGED <<msg, outbox, queued, connected, loop, snap, pc, inflight, posted,
                      retries, restarts, retried, taken, dropped>>
      BY <1>1 DEF vars
    <2>2. TypeOK'
      BY <2>1 DEF Inv, TypeOK
    <2>3. Kept
      BY <2>1, <2>2, IdleKept
    <2> QED BY <2>3, KeptInv
  <1>2. CASE Next
    BY <1>2, StepKinds, KeptInv, QueueInv, RetryPostInv, ServerPostInv, BeginPassInv
  <1> QED BY <1>1, <1>2

(* Inv is an invariant of the deliverer.                                   *)
THEOREM Invariance == Spec => []Inv
  BY InitInv, NextInv, PTL DEF Spec

(* Every variable keeps its type: a record is tried at most as often as    *)
(* deliverMaxAttempts allows, whatever copies of it are around.            *)
THEOREM TypeCorrect == Spec => []TypeOK
  <1>1. Inv => TypeOK
    BY DEF Inv
  <1> QED BY <1>1, Invariance, PTL

(* A queued message is in the outbox until the server has it or there is a *)
(* reason to take it out, however attempts fail and crashes come.          *)
THEOREM NothingLostHolds == Spec => []NothingLost
  <1>1. Inv => NothingLost
    BY DEF Inv
  <1> QED BY <1>1, Invariance, PTL

(* What needs only to be sent is not overtaken in its conversation.        *)
THEOREM InOrderHolds == Spec => []InOrder
  <1>1. Inv => InOrder
    BY DEF Inv, Behind, InOrder
  <1> QED BY <1>1, Invariance, PTL

-----------------------------------------------------------------------------
(* The deliverer implements MessageLife.                                   *)

(* The conditions that tell the statuses apart.                            *)
Told ==
  \A m \in Msgs :
    /\ m > queued <=> StatusOf(m) = "new"
    /\ m <= queued /\ m \in posted <=> StatusOf(m) = "sent"
    /\ m <= queued /\ m \notin posted /\ outbox[m].st = "sending" <=> StatusOf(m) = "waiting"
    /\ m <= queued /\ m \notin posted /\ ~Has(outbox, m) /\ ~Has(snap, m) /\ m \notin inflight
         <=> StatusOf(m) = "withdrawn"
    /\ StatusOf(m) \in Life!Statuses

LEMMA StatusFacts == Inv => Told
  <1> SUFFICES ASSUME Inv, NEW m \in Msgs
               PROVE  /\ m > queued <=> StatusOf(m) = "new"
                      /\ m <= queued /\ m \in posted <=> StatusOf(m) = "sent"
                      /\ m <= queued /\ m \notin posted /\ outbox[m].st = "sending"
                           <=> StatusOf(m) = "waiting"
                      /\ m <= queued /\ m \notin posted /\ ~Has(outbox, m) /\ ~Has(snap, m)
                         /\ m \notin inflight
                           <=> StatusOf(m) = "withdrawn"
                      /\ StatusOf(m) \in Life!Statuses
    BY DEF Told
  <1>1. m \in Nat /\ queued \in Nat
    BY DelivererAssumption DEF Inv, TypeOK, Msgs
  <1>2. outbox[m].st \in {"absent", "sending", "error"}
    BY RecordFacts DEF Inv, TypeOK, AnyRecord
  <1>3. CASE m > queued
    BY <1>1, <1>3 DEF StatusOf, Life!Statuses
  <1>4. CASE m <= queued /\ m \in posted
    BY <1>1, <1>4 DEF StatusOf, Life!Statuses
  <1>5. CASE m <= queued /\ m \notin posted /\ outbox[m].st = "sending"
    BY <1>1, <1>5 DEF StatusOf, Life!Statuses, Has
  <1>6. CASE m <= queued /\ m \notin posted /\ outbox[m].st = "error"
    BY <1>1, <1>6 DEF StatusOf, Life!Statuses, Has
  <1>7. CASE m <= queued /\ m \notin posted /\ outbox[m].st = "absent"
    BY <1>1, <1>7 DEF StatusOf, Life!Statuses, Has
  <1> QED BY <1>1, <1>2, <1>3, <1>4, <1>5, <1>6, <1>7

(* What a step may do to a message, as far as its status is concerned.     *)
Lives ==
  /\ queued <= queued'
  /\ \A m \in Msgs : m > queued /\ m <= queued' => outbox'[m].st = "sending" /\ m \notin posted'
  /\ posted \subseteq posted' /\ posted' \subseteq posted \cup inflight
  /\ \A m \in Msgs :
       ~Has(outbox, m) /\ ~Has(snap, m) /\ m \notin inflight /\ m <= queued =>
         ~Has(outbox', m) /\ ~Has(snap', m) /\ m \notin inflight'
  /\ msg' = msg
  /\ retried \subseteq retried'

LEMMA NextLives == ASSUME Inv, Next PROVE Lives
  <1>0. /\ Msgs \subseteq Nat /\ queued \in Nat
        /\ outbox \in [Msgs -> AnyRecord]
    BY DelivererAssumption DEF Inv, TypeOK, Msgs, AnyRecord
  <1>1. CASE Kept
    <2>1. /\ msg' = msg /\ queued' = queued /\ posted' = posted /\ retried' = retried
      BY <1>1 DEF Kept
    <2>2. \A m \in Msgs : Has(outbox', m) => Has(outbox, m) \/ Has(snap, m)
      BY <1>1 DEF Kept, BoxKept, Stamps
    <2>3. \A m \in Msgs : Has(snap', m) => Has(snap, m)
      BY <1>1, AbsentFacts DEF Kept, CopiesKept, Has
    <2>4. \A m \in Msgs : m \in inflight' => m \in inflight \/ Has(snap, m)
      BY <1>1 DEF Kept, CopiesKept, IsFirst
    <2> QED BY <1>0, <2>1, <2>2, <2>3, <2>4 DEF Lives
  <1>2. CASE Queue
    <2> DEFINE rec == [st |-> "sending", attempts |-> 0, ctime |-> Now + 1, pos |-> Now + 1]
    <2>1. /\ queued' = queued + 1 /\ queued + 1 \in Msgs
          /\ outbox' = [outbox EXCEPT ![queued + 1] = rec]
          /\ UNCHANGED <<msg, snap, inflight, posted, retried>>
      BY <1>0, <1>2, DelivererAssumption DEF Queue, PushMessage, unseen, Msgs
    <2>2. rec.st = "sending"
      OBVIOUS
    <2> HIDE DEF rec
    <2>3. \A m \in Msgs : IF m = queued + 1 THEN outbox'[m] = rec ELSE outbox'[m] = outbox[m]
      BY <1>0, <2>1
    <2>4. \A m \in Msgs : m > queued /\ m <= queued' => m = queued + 1
      BY <1>0, <2>1
    <2>5. queued + 1 \notin posted
      BY <1>0, <2>1 DEF Inv, Born
    <2>6. \A m \in Msgs : m <= queued => outbox'[m] = outbox[m]
      BY <1>0, <2>3
    <2> QED BY <1>0, <2>1, <2>2, <2>3, <2>4, <2>5, <2>6 DEF Lives, Has
  <1>3. ASSUME NEW n \in Msgs, RetryPost(n) PROVE Lives
    <2>1. /\ \E rec : outbox' = [outbox EXCEPT ![n] = rec]
          /\ Has(outbox, n) /\ retried \subseteq retried'
          /\ UNCHANGED <<msg, queued, snap, inflight, posted>>
      BY <1>3 DEF RetryPost, RetryMessage, unseen
    <2>2. \A m \in Msgs : ~Has(outbox, m) => outbox'[m] = outbox[m]
      BY <1>0, <2>1
    <2> QED BY <1>0, <2>1, <2>2 DEF Lives, Has
  <1>4. ASSUME NEW n \in Msgs, ServerPost(n) PROVE Lives
    BY <1>0, <1>4 DEF Lives, ServerPost, Has
  <1>5. CASE BeginPass
    <2>1. \A m \in Msgs : Has(snap', m) => Has(outbox, m)
      BY <1>5, AbsentFacts DEF BeginPass, PullAllConversations, Has
    <2> QED BY <1>0, <1>5, <2>1 DEF Lives, BeginPass, Has
  <1> QED BY <1>1, <1>2, <1>3, <1>4, <1>5, StepKinds

LEMMA InitLife == Init => Life!Init
  <1> SUFFICES ASSUME Init PROVE Life!Init
    OBVIOUS
  <1>1. \A m \in Msgs : StatusOf(m) = "new"
    <2>1. \A m \in Msgs : m > queued
      BY DelivererAssumption DEF Init, Msgs
    <2> QED BY <2>1, InitInv, StatusFacts DEF Told
  <1> QED BY <1>1 DEF Life!Init, Init

LEMMA NextLife == ASSUME Inv, Inv', Next PROVE Life!Next
  <1>0. /\ Lives /\ Msgs \subseteq Nat /\ queued \in Nat /\ queued' \in Nat
    BY NextLives, DelivererAssumption DEF Inv, TypeOK, Msgs
  <1>1. Told
    BY StatusFacts
  <1>2. Told'
    BY StatusFacts, PTL
  <1> DEFINE old == [m \in Msgs |-> StatusOf(m)]
             new == [m \in Msgs |-> StatusOf(m)']
  <1>3. \A m \in Msgs : old[m] = StatusOf(m) /\ new[m] = StatusOf(m)'
    OBVIOUS
  <1>4. \A m \in Msgs :
          /\ m > queued <=> old[m] = "new"
          /\ m <= queued /\ m \in posted <=> old[m] = "sent"
          /\ m <= queued /\ m \notin posted /\ outbox[m].st = "sending" <=> old[m] = "waiting"
          /\ m <= queued /\ m \notin posted /\ ~Has(outbox, m) /\ ~Has(snap, m) /\ m \notin inflight
               <=> old[m] = "withdrawn"
          /\ old[m] \in Life!Statuses
    BY <1>1, <1>3 DEF Told
  <1>5. \A m \in Msgs :
          /\ m > queued' <=> new[m] = "new"
          /\ m <= queued' /\ m \in posted' <=> new[m] = "sent"
          /\ m <= queued' /\ m \notin posted' /\ outbox'[m].st = "sending" <=> new[m] = "waiting"
          /\ m <= queued' /\ m \notin posted' /\ ~Has(outbox', m) /\ ~Has(snap', m) /\ m \notin inflight'
               <=> new[m] = "withdrawn"
          /\ new[m] \in Life!Statuses
    BY <1>2, <1>3 DEF Told, Has, Life!Statuses
  <1> HIDE DEF old, new
  <1>6. \A m \in Msgs : new[m] = old[m] \/ <<old[m], new[m]>> \in Life!Moves
    <2> SUFFICES ASSUME NEW m \in Msgs, old[m] # new[m]
                 PROVE  <<old[m], new[m]>> \in Life!Moves
      OBVIOUS
    <2>1. CASE m > queued
      <3>1. old[m] = "new" /\ new[m] = "waiting"
        BY <1>0, <1>4, <1>5, <2>1 DEF Lives
      <3> QED BY <3>1 DEF Life!Moves
    <2>2. CASE m <= queued
      <3>1. old[m] # "new" /\ new[m] # "new"
        BY <1>0, <1>4, <1>5, <2>2 DEF Lives
      <3>2. old[m] # "sent"
        BY <1>0, <1>4, <1>5, <2>2 DEF Lives
      <3>3. old[m] # "withdrawn"
        BY <1>0, <1>4, <1>5, <2>2 DEF Lives
      <3>4. /\ old[m] \in {"waiting", "failed", "leaving"}
            /\ new[m] \in {"waiting", "failed", "leaving", "withdrawn", "sent"}
        BY <1>4, <1>5, <3>1, <3>2, <3>3 DEF Life!Statuses
      <3> QED BY <3>4 DEF Life!Moves
    <2> QED BY <1>0, <2>1, <2>2
  <1>7. ASSUME NEW m \in Msgs, NEW n \in Msgs, old[n] # "sent", new[n] = "sent",
               HoldsUp(m, n), m \notin retried
        PROVE  old[m] # "waiting"
    <2>1. n \in inflight
      BY <1>0, <1>4, <1>5, <1>7 DEF Lives
    <2> QED BY <1>4, <1>7, <2>1 DEF Inv, Behind
  <1>8. ASSUME NEW m \in Msgs, NEW n \in Msgs, HoldsUp(m, n), old[n] = "sent", new[m] = "waiting"
        PROVE  m \in retried'
    <2>1. HoldsUp(m, n)' /\ n \in posted'
      BY <1>0, <1>4, <1>8 DEF Lives, HoldsUp
    <2> QED BY <1>5, <1>8, <2>1 DEF Inv, Behind
  <1>9. \A p \in Msgs \X Msgs : HoldsUp(p[1], p[2])' <=> HoldsUp(p[1], p[2])
    BY <1>0 DEF Lives, HoldsUp
  <1>10. \A m, n \in Msgs :
           <<m, n>> \in {p \in Msgs \X Msgs : HoldsUp(p[1], p[2])} => HoldsUp(m, n)
    OBVIOUS
  <1>11. Life!EachMoves
    BY <1>6 DEF Life!EachMoves, old, new
  <1>12. Life!SentInOrder
    BY <1>7, <1>10 DEF Life!SentInOrder, old, new
  <1>13. Life!ComesBack
    BY <1>8, <1>10 DEF Life!ComesBack, old, new
  <1>14. retried \subseteq retried'
    BY <1>0 DEF Lives
  <1> QED BY <1>9, <1>11, <1>12, <1>13, <1>14 DEF Life!Next

(* The deliverer implements the life of a message, for any number of       *)
(* messages: sent and withdrawn are final, and nothing that holds others   *)
(* up is overtaken, but by the user's own retry.                           *)
THEOREM ImplementsLifeHolds == Spec => ImplementsLife
  <1>1. Inv /\ Inv' /\ [Next]_vars => [Life!Next]_(Life!vars)
    <2>1. CASE UNCHANGED vars
      BY <2>1 DEF vars, Life!vars, StatusOf, HoldsUp, Has
    <2>2. ASSUME Inv, Inv', Next PROVE Life!Next
      BY <2>2, NextLife
    <2> QED BY <2>1, <2>2
  <1> QED BY InitLife, <1>1, Invariance, PTL DEF Spec, ImplementsLife, Life!Spec
=============================================================================
