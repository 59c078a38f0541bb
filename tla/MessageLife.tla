---------------------------- MODULE MessageLife ----------------------------
(***************************************************************************)
(* What the chat client promises for a message that the user writes,       *)
(* without the outbox, the passes of the delivery loop and the copies they *)
(* work on.                                                                *)
(***************************************************************************)
EXTENDS Naturals

CONSTANT Msgs

VARIABLES
  status,     \* what has become of each message
  holdsUp,    \* pairs <<m, n>>: n may not be sent past m
  retried     \* messages the user has asked to retry

vars == <<status, holdsUp, retried>>

Statuses == {"new", "waiting", "failed", "leaving", "withdrawn", "sent"}

(* A message that is taken out while an attempt is under way is leaving:    *)
(* the attempt may still send it, or put it back.                           *)
Moves ==
  {<<"new", "waiting">>}
  \cup {"waiting", "failed", "leaving"} \X {"waiting", "failed", "leaving", "withdrawn", "sent"}

Init ==
  /\ status = [m \in Msgs |-> "new"]
  /\ holdsUp \subseteq Msgs \X Msgs
  /\ retried = {}

(* Every message stays or moves; nothing leaves "sent" and "withdrawn". *)
EachMoves ==
  \A m \in Msgs : status'[m] = status[m] \/ <<status[m], status'[m]>> \in Moves

(* A message is sent when no message that holds it up is waiting. *)
SentInOrder ==
  \A m, n \in Msgs :
    /\ status[n] # "sent"
    /\ status'[n] = "sent"
    /\ <<m, n>> \in holdsUp
    /\ m \notin retried
    => status[m] # "waiting"

(* Once a message was sent past it, a message comes back to wait only on    *)
(* the user's word.                                                         *)
ComesBack ==
  \A m, n \in Msgs :
    /\ <<m, n>> \in holdsUp
    /\ status[n] = "sent"
    /\ status[m] # "waiting"
    /\ status'[m] = "waiting"
    => m \in retried'

Next ==
  /\ EachMoves
  /\ SentInOrder
  /\ ComesBack
  /\ retried \subseteq retried'
  /\ UNCHANGED holdsUp

Spec == Init /\ [][Next]_vars
=============================================================================
