----------------------------- MODULE Deliverer -----------------------------
(***************************************************************************)
(* The Deliverer (go/chat/deliverer.go) and the Outbox that it empties     *)
(* (go/chat/storage/outbox.go).  A message is pushed onto the outbox, which *)
(* is on disk, and Queue returns; a loop wakes up, takes a copy of all      *)
(* records that are not in error, and delivers those of every conversation  *)
(* in a goroutine of its own.  Meanwhile the user queues, cancels and       *)
(* retries messages, the connection comes and goes, requests and answers    *)
(* are lost or late, and the process may be killed and started again.       *)
(*                                                                          *)
(* The outbox is a list.  Here it is a function of the message, and the     *)
(* place of a record in the list is its field pos: a message is appended    *)
(* with its creation time, the latest so far, and a sort by creation time   *)
(* gives every record its ctime for a place.                                *)
(*                                                                          *)
(* The loop also wakes up by a timer, so that a pass may start at any time: *)
(* the signals of msgSentCh and reconnectCh are left out.                   *)
(***************************************************************************)
EXTENDS Naturals, FiniteSets

CONSTANTS
  NumMsgs,        \* messages the user writes; message m is the m-th queued
  Convs,          \* conversations
  Bodies,         \* what a reaction says
  Scenarios,      \* what the messages may be: each gives a record per message
  MaxAttempts,    \* deliverMaxAttempts
  MaxUpsets       \* bound: retries, and stops and crashes of the loop, in all

Msgs == 1 .. NumMsgs

(* The kinds of message the loop tells apart: a deletion may come too late; *)
(* "task" is an attachment or a flip, which waits for a background task,    *)
(* as an unfurl does, whose failure does not hold up what follows it.       *)
Kinds == {"text", "delete", "reaction", "task", "unfurl"}

ASSUME DelivererAssumption ==
  /\ NumMsgs \in Nat
  /\ MaxAttempts \in Nat
  /\ MaxUpsets \in Nat
  /\ Scenarios \subseteq [Msgs -> [kind : Kinds, body : Bodies, conv : Convs]]

VARIABLES
  msg,        \* the messages, fixed from the start
  outbox,     \* diskOutbox.Records; survives a crash
  queued,     \* how many messages have been queued
  connected,  \* Deliverer.connected
  loop,       \* deliverLoop: waits in its select, delivers, or is stopped
  snap,       \* the copies of records the goroutines have still to handle
  pc,         \* where deliverForConv is with the first of its copies
  inflight,   \* posts the server has not handled yet, and may never
  posted,     \* messages in the server's thread
  retries,    \* calls of RetryPost so far
  restarts,   \* stops and crashes so far
  retried,    \* history: messages that RetryPost was called for
  taken,      \* history: messages taken out of the outbox by the user or the
              \* purge, or on the server's word that they are moot
  dropped     \* history: reactions dropped because they cancel each other

vars == <<msg, outbox, queued, connected, loop, snap, pc, inflight,
          posted, retries, restarts, retried, taken, dropped>>

Absent == [st |-> "absent", attempts |-> 0, ctime |-> 0, pos |-> 0]
Sending(rec, n) == [rec EXCEPT !.st = "sending", !.attempts = n]
Failed(rec) == [rec EXCEPT !.st = "error", !.attempts = 0]

Has(box, m) == box[m].st # "absent"
(* The latest creation time given: one for each message, and one for each   *)
(* retry.                                                                   *)
Now == queued + retries

InConv(c) == {m \in Msgs : msg[m].conv = c}

-----------------------------------------------------------------------------
(* The operations of the outbox, each under locks.Outbox: the new list as   *)
(* a function of the old one.                                               *)

PushMessage(box, m, now) ==
  [box EXCEPT ![m] = [st |-> "sending", attempts |-> 0, ctime |-> now, pos |-> now]]

RemoveMessage(box, m) == [box EXCEPT ![m] = Absent]

(* Mutant of AddSorted: the record is only appended. *)
AddSorted_Unsorted(box, m, rec) == [box EXCEPT ![m] = [rec EXCEPT !.pos = Now + 1]]

(* append, then sort.Sort(ByCtimeOrder) *)
AddSorted(box, m, rec) ==
  LET added == [box EXCEPT ![m] = rec]
  IN  [n \in Msgs |-> [added[n] EXCEPT !.pos = added[n].ctime]]

(* Mutant of RecordFailedAttempt: the attempt is not counted. *)
RecordFailedAttempt_Uncounted(box, m, copy) ==
  IF Has(box, m) THEN box ELSE AddSorted(box, m, copy)

(* A record that is no longer there is added again, from the copy. *)
RecordFailedAttempt(box, m, copy) ==
  CASE box[m].st = "sending" ->
         [box EXCEPT ![m] = Sending(box[m], box[m].attempts + 1)]
    [] box[m].st = "error"   -> box
    [] box[m].st = "absent"  ->
         AddSorted(box, m, Sending(copy, copy.attempts + 1))

MarkAsError(box, m, copy) ==
  IF Has(box, m) THEN [box EXCEPT ![m] = Failed(box[m])]
                 ELSE AddSorted(box, m, Failed(copy))

MarkConvAsError(box, c) ==
  [m \in Msgs |-> IF msg[m].conv = c /\ Has(box, m) THEN Failed(box[m]) ELSE box[m]]

(* The state and the creation time come from the copy, the place stays. *)
UpdateMessage(box, m, copy) ==
  IF Has(box, m) THEN [box EXCEPT ![m] = [copy EXCEPT !.pos = box[m].pos]] ELSE box

RetryMessage(box, m, now) ==
  [box EXCEPT ![m] = [Sending(box[m], 0) EXCEPT !.ctime = now]]

RemoveAll(box, ms) == [m \in Msgs |-> IF m \in ms THEN Absent ELSE box[m]]

(* Mutant of PullAllConversations: includeErrors is set. *)
PullAllConversations_WithErrors(box) == box

(* PullAllConversations without errors *)
PullAllConversations(box) ==
  [m \in Msgs |-> IF box[m].st = "sending" THEN box[m] ELSE Absent]

-----------------------------------------------------------------------------
Init ==
  /\ msg \in Scenarios
  /\ outbox = [m \in Msgs |-> Absent]
  /\ queued = 0
  /\ connected = FALSE
  /\ loop = "waiting"
  /\ snap = [m \in Msgs |-> Absent]
  /\ pc = [c \in Convs |-> "next"]
  /\ inflight = {}
  /\ posted = {}
  /\ retries = 0
  /\ restarts = 0
  /\ retried = {}
  /\ taken = {}
  /\ dropped = {}

-----------------------------------------------------------------------------
(* What the user, the connection and the purge timer do.                    *)

unseen == <<msg, connected, loop, snap, pc, inflight, posted, restarts, dropped>>

(* Deliverer.Queue *)
Queue ==
  /\ loop # "stopped"
  /\ queued < NumMsgs
  /\ queued' = queued + 1
  /\ outbox' = PushMessage(outbox, queued + 1, Now + 1)
  /\ UNCHANGED <<retries, retried, taken, unseen>>

(* Server.CancelPost *)
CancelPost(m) ==
  /\ loop # "stopped"
  /\ Has(outbox, m)
  /\ outbox' = RemoveMessage(outbox, m)
  /\ taken' = taken \cup {m}
  /\ UNCHANGED <<queued, retries, retried, unseen>>

(* Server.RetryPost *)
RetryPost(m) ==
  /\ loop # "stopped"
  /\ retries + restarts < MaxUpsets
  /\ Has(outbox, m)
  /\ outbox' = RetryMessage(outbox, m, Now + 1)
  /\ retries' = retries + 1
  /\ retried' = retried \cup {m}
  /\ UNCHANGED <<queued, taken, unseen>>

(* Outbox.OutboxPurge: failed records that are older than the cutoff for    *)
(* their kind                                                               *)
OutboxPurge(old) ==
  /\ \A m \in old : outbox[m].st = "error"
  /\ outbox' = RemoveAll(outbox, old)
  /\ taken' = taken \cup old
  /\ UNCHANGED <<queued, retries, retried, unseen>>

Connected ==
  /\ ~connected
  /\ connected' = TRUE
  /\ UNCHANGED <<msg, outbox, queued, loop, snap, pc, inflight, posted,
                 retries, restarts, retried, taken, dropped>>

Disconnected ==
  /\ connected
  /\ connected' = FALSE
  /\ UNCHANGED <<msg, outbox, queued, loop, snap, pc, inflight, posted,
                 retries, restarts, retried, taken, dropped>>

(* The chat server takes in a post.  It knows a message by its outbox ID:   *)
(* a second post of a message leaves the thread as it is.                   *)
ServerPost(m) ==
  /\ m \in inflight
  /\ posted' = posted \cup {m}
  /\ inflight' = inflight \ {m}
  /\ UNCHANGED <<msg, outbox, queued, connected, loop, snap, pc,
                 retries, restarts, retried, taken, dropped>>

-----------------------------------------------------------------------------
(* deliverLoop.                                                             *)

BeginPass ==
  /\ loop = "waiting"
  /\ loop' = "delivering"
  /\ snap' = PullAllConversations(outbox)
  /\ UNCHANGED <<msg, outbox, queued, connected, pc, inflight, posted,
                 retries, restarts, retried, taken, dropped>>

(* eg.Wait *)
EndPass ==
  /\ loop = "delivering"
  /\ \A m \in Msgs : ~Has(snap, m)
  /\ loop' = "waiting"
  /\ UNCHANGED <<msg, outbox, queued, connected, snap, pc, inflight, posted,
                 retries, restarts, retried, taken, dropped>>

(* The loop takes notice of shutdownCh only in its select. *)
Stop ==
  /\ loop = "waiting"
  /\ retries + restarts < MaxUpsets
  /\ loop' = "stopped"
  /\ restarts' = restarts + 1
  /\ UNCHANGED <<msg, outbox, queued, connected, snap, pc, inflight, posted,
                 retries, retried, taken, dropped>>

Start ==
  /\ loop = "stopped"
  /\ loop' = "waiting"
  /\ UNCHANGED <<msg, outbox, queued, connected, snap, pc, inflight, posted,
                 retries, restarts, retried, taken, dropped>>

(* The process is killed and started again: the outbox is what is left. *)
Crash ==
  /\ retries + restarts < MaxUpsets
  /\ restarts' = restarts + 1
  /\ connected' = FALSE
  /\ loop' = "waiting"
  /\ snap' = [m \in Msgs |-> Absent]
  /\ pc' = [c \in Convs |-> "next"]
  /\ UNCHANGED <<msg, outbox, queued, inflight, posted, retries, retried, taken, dropped>>

-----------------------------------------------------------------------------
(* deliverForConv.  Each goroutine works on the first of its copies.        *)

IsFirst(c, m) ==
  /\ msg[m].conv = c
  /\ Has(snap, m)
  /\ \A n \in InConv(c) : Has(snap, n) => snap[m].pos <= snap[n].pos

(* The goroutine is done with m and turns to the next copy. *)
Continue(c, m) ==
  /\ snap' = [snap EXCEPT ![m] = Absent]
  /\ pc' = [pc EXCEPT ![c] = "next"]

(* Mutant of BreakLoop: no failure holds up the next message. *)
BreakLoop_Never(c, m) == Continue(c, m)

(* shouldBreakLoop: the rest of the conversation waits for the next pass,   *)
(* unless it was an unfurl that failed.                                     *)
BreakLoop(c, m) ==
  /\ snap' = IF msg[m].kind = "unfurl" THEN RemoveAll(snap, {m})
                                      ELSE RemoveAll(snap, InConv(c))
  /\ pc' = [pc EXCEPT ![c] = "next"]

(* doNotRetryFailure and failMessage, on the attempts of the copy.  "moot"  *)
(* is the server's answer to a post of a message it has, or to a deletion   *)
(* of what is already deleted; "race" is ErrDuplicateConnection.            *)
Failure(c, m, err) ==
  /\ \/ /\ snap[m].attempts >= MaxAttempts
        /\ outbox' = MarkConvAsError(outbox, c)
        /\ UNCHANGED taken
     \/ /\ snap[m].attempts < MaxAttempts
        /\ \/ err = "permanent"
           \/ ~connected              \* and has been for ten minutes
        /\ outbox' = MarkAsError(outbox, m, snap[m])
        /\ UNCHANGED taken
     \/ /\ snap[m].attempts < MaxAttempts
        /\ err = "moot"
        /\ outbox' = RemoveMessage(outbox, m)
        /\ taken' = taken \cup ({m} \ posted)
     \/ /\ snap[m].attempts < MaxAttempts
        /\ err = "temporary"
        /\ outbox' = RecordFailedAttempt(outbox, m, snap[m])
        /\ UNCHANGED taken
     \/ /\ snap[m].attempts < MaxAttempts
        /\ err = "race"
        /\ UNCHANGED <<outbox, taken>>
  /\ BreakLoop(c, m)

deliverUnchanged == <<msg, queued, connected, loop, posted,
                      retries, restarts, retried>>

(* Without a connection the attempt fails; after an hour the message does.  *)
NotSent(c, m) ==
  /\ pc[c] = "next"
  /\ IsFirst(c, m)
  /\ \/ ~connected /\ Failure(c, m, "temporary")
     \/ connected /\ Failure(c, m, "permanent")
  /\ UNCHANGED <<deliverUnchanged, inflight, dropped>>

(* processBackgroundTaskMessage: the task is done, and the message with it, *)
(* or has failed.                                                           *)
ProcessBackgroundTask(c, m) ==
  /\ pc[c] = "next"
  /\ IsFirst(c, m)
  /\ connected
  /\ msg[m].kind \in {"task", "unfurl"}
  /\ \/ /\ outbox' = UpdateMessage(outbox, m, snap[m])
        /\ pc' = [pc EXCEPT ![c] = "post"]
        /\ UNCHANGED <<snap, taken>>
     \/ \E err \in {"temporary", "permanent"} : Failure(c, m, err)
  /\ UNCHANGED <<deliverUnchanged, inflight, dropped>>

(* The task still runs (delivererBackgroundTaskError): the message waits for *)
(* the next pass and lets the ones after it go ahead.                        *)
TaskInProgress(c, m) ==
  /\ pc[c] = "next"
  /\ IsFirst(c, m)
  /\ connected
  /\ msg[m].kind \in {"task", "unfurl"}
  /\ Continue(c, m)
  /\ UNCHANGED <<deliverUnchanged, outbox, inflight, taken, dropped>>

(* cancelPendingDuplicateReactions, up to the removal of the message itself *)
CancelPendingDuplicateReactions(c, m) ==
  LET dups == {n \in InConv(c) \ {m} : /\ Has(outbox, n)
                                       /\ msg[n].kind = "reaction"
                                       /\ msg[n].body = msg[m].body}
  IN  /\ pc[c] = "next"
      /\ IsFirst(c, m)
      /\ connected
      /\ msg[m].kind = "reaction"
      /\ outbox' = RemoveAll(outbox, dups)
      /\ dropped' = dropped \cup dups
      /\ \/ ~Has(outbox, m) /\ Continue(c, m)
         \/ /\ Has(outbox, m)
            /\ pc' = [pc EXCEPT ![c] = IF Cardinality(dups) % 2 = 1 THEN "abort" ELSE "post"]
            /\ UNCHANGED snap
      /\ UNCHANGED <<deliverUnchanged, inflight, taken>>

RemoveItself(c, m) ==
  /\ pc[c] = "abort"
  /\ IsFirst(c, m)
  /\ outbox' = RemoveMessage(outbox, m)
  /\ dropped' = dropped \cup {m}
  /\ Continue(c, m)
  /\ UNCHANGED <<deliverUnchanged, inflight, taken>>

NothingToPrepare(c, m) ==
  /\ pc[c] = "next"
  /\ IsFirst(c, m)
  /\ connected
  /\ msg[m].kind \in {"text", "delete"}
  /\ pc' = [pc EXCEPT ![c] = "post"]
  /\ UNCHANGED <<deliverUnchanged, outbox, snap, inflight, taken, dropped>>

(* Mutant of Send: the message is taken out of the outbox as it is sent off. *)
Send_RemovesFirst(c, m) ==
  /\ pc[c] = "post"
  /\ IsFirst(c, m)
  /\ inflight' = IF m \in posted THEN inflight ELSE inflight \cup {m}
  /\ pc' = [pc EXCEPT ![c] = "await"]
  /\ outbox' = RemoveMessage(outbox, m)
  /\ UNCHANGED <<deliverUnchanged, snap, taken, dropped>>

(* BlockingSender.Send up to PostRemote: the message is boxed and sent off, *)
(* or an error comes up before it is.                                       *)
Send(c, m) ==
  /\ pc[c] = "post"
  /\ IsFirst(c, m)
  /\ \/ /\ inflight' = IF m \in posted THEN inflight ELSE inflight \cup {m}
        /\ pc' = [pc EXCEPT ![c] = "await"]
        /\ UNCHANGED <<outbox, snap, taken>>
     \/ /\ \E err \in {"temporary", "permanent"} : Failure(c, m, err)
        /\ UNCHANGED inflight
  /\ UNCHANGED <<deliverUnchanged, dropped>>

(* PostRemote returns without an error; Send and deliverForConv take the    *)
(* message out of the outbox.                                               *)
SendSucceeds(c, m) ==
  /\ pc[c] = "await"
  /\ IsFirst(c, m)
  /\ m \in posted
  /\ outbox' = RemoveMessage(outbox, m)
  /\ Continue(c, m)
  /\ UNCHANGED <<deliverUnchanged, inflight, taken, dropped>>

(* PostRemote fails: the server refuses, or no answer comes, in which case  *)
(* it may have taken the message in, or may yet.                            *)
SendFails(c, m) ==
  /\ pc[c] = "await"
  /\ IsFirst(c, m)
  /\ \/ m \in posted /\ Failure(c, m, "moot")
     \/ msg[m].kind = "delete" /\ Failure(c, m, "moot")
     \/ \E err \in {"temporary", "permanent"} : Failure(c, m, err)
  /\ UNCHANGED <<deliverUnchanged, inflight, dropped>>

(* ErrDuplicateConnection: threads race to reconnect.  shouldRecordError    *)
(* does not count it as an attempt.                                         *)
ConnectionRace(c, m) ==
  /\ pc[c] = "await"
  /\ IsFirst(c, m)
  /\ Failure(c, m, "race")
  /\ UNCHANGED <<deliverUnchanged, inflight, dropped>>

Deliver(c, m) ==
  \/ NotSent(c, m)
  \/ ProcessBackgroundTask(c, m)
  \/ TaskInProgress(c, m)
  \/ CancelPendingDuplicateReactions(c, m)
  \/ RemoveItself(c, m)
  \/ NothingToPrepare(c, m)
  \/ Send(c, m)
  \/ SendSucceeds(c, m)
  \/ SendFails(c, m)
  \/ ConnectionRace(c, m)

Next ==
  \/ Queue
  \/ \E m \in Msgs : CancelPost(m) \/ RetryPost(m) \/ ServerPost(m)
  \/ \E old \in SUBSET Msgs \ {{}} : OutboxPurge(old)
  \/ Connected \/ Disconnected
  \/ BeginPass \/ EndPass \/ Stop \/ Start \/ Crash
  \/ \E c \in Convs, m \in Msgs : Deliver(c, m)

(* The goroutines run on, and the loop has its timer.  Threads do not race   *)
(* to reconnect for ever, and a background task does not run for ever.      *)
Fairness ==
  /\ WF_vars(BeginPass \/ EndPass)
  /\ \A c \in Convs :
       /\ WF_vars(\E m \in Msgs : Deliver(c, m))
       /\ SF_vars(\E m \in Msgs : SendSucceeds(c, m) \/ SendFails(c, m))
       /\ SF_vars(\E m \in Msgs : ProcessBackgroundTask(c, m))

Spec == Init /\ [][Next]_vars

FairSpec == Spec /\ Fairness

-----------------------------------------------------------------------------
Records(sts) == [st : sts, attempts : 0 .. MaxAttempts, ctime : Nat, pos : Nat]

(* A record has been tried at most as often as deliverMaxAttempts says,     *)
(* and only records that are to be sent are copied.                         *)
TypeOK ==
  /\ msg \in Scenarios
  /\ outbox \in [Msgs -> Records({"absent", "sending", "error"})]
  /\ queued \in 0 .. NumMsgs
  /\ connected \in BOOLEAN
  /\ loop \in {"waiting", "delivering", "stopped"}
  /\ snap \in [Msgs -> Records({"absent", "sending"})]
  /\ pc \in [Convs -> {"next", "abort", "post", "await"}]
  /\ inflight \subseteq Msgs
  /\ posted \subseteq Msgs
  /\ retries \in Nat
  /\ restarts \in Nat
  /\ retried \subseteq Msgs
  /\ taken \subseteq Msgs
  /\ dropped \subseteq Msgs

(* Whatever fails and whenever the process is killed, a message that was    *)
(* queued is in the outbox until the server has it, or the user, the purge  *)
(* or a reason to drop it (a duplicate, a deletion come too late) took it   *)
(* out.                                                                     *)
NothingLost ==
  \A m \in 1 .. queued : Has(outbox, m) \/ m \in posted \/ m \in taken \cup dropped

HoldsUp(m, n) ==
  /\ m < n
  /\ msg[m].conv = msg[n].conv
  /\ msg[m].kind \in {"text", "delete", "reaction"}

(* A message that only needs to be sent holds up what was written after it  *)
(* in its conversation: none of that reaches the server while the message   *)
(* is waiting, unless the user asked to retry it, which may move it back.   *)
InOrder ==
  \A m, n \in Msgs :
    /\ HoldsUp(m, n)
    /\ m \notin retried
    /\ outbox[m].st = "sending"
    /\ n \in posted
    => m \in posted

(* A message does not stay in the sending state: it is sent, taken out or   *)
(* marked as failed, connected or not, as long as the loop runs.            *)
SendingEnds ==
  \A m \in Msgs : outbox[m].st = "sending" ~> outbox[m].st # "sending" \/ loop = "stopped"

(* Reactions are toggles: those that cancelPendingDuplicateReactions drops  *)
(* cancel each other, so that the reaction is what the user last asked for, *)
(* as long as none of them was taken out of the outbox for another reason.  *)
Toggles(c, b) == {m \in InConv(c) : msg[m].kind = "reaction" /\ msg[m].body = b}

DroppedCancelOut ==
  \A c \in Convs, b \in Bodies :
    pc[c] # "abort" /\ taken \cap Toggles(c, b) = {} =>
      Cardinality(dropped \cap Toggles(c, b)) % 2 = 0

-----------------------------------------------------------------------------
(* What the deliverer promises for each message.                            *)

StatusOf(m) ==
  CASE m > queued -> "new"
    [] m <= queued /\ m \in posted -> "sent"
    [] m <= queued /\ m \notin posted /\ outbox[m].st = "sending" -> "waiting"
    [] m <= queued /\ m \notin posted /\ outbox[m].st = "error" -> "failed"
    [] m <= queued /\ m \notin posted /\ outbox[m].st = "absent" ->
         IF Has(snap, m) \/ m \in inflight THEN "leaving" ELSE "withdrawn"

Life == INSTANCE MessageLife WITH
          status <- [m \in Msgs |-> StatusOf(m)],
          holdsUp <- {p \in Msgs \X Msgs : HoldsUp(p[1], p[2])}

(* The deliverer implements the life of a message: sent and withdrawn are   *)
(* final, and nothing is sent past a message that holds it up.              *)
ImplementsLife == Life!Spec
=============================================================================
