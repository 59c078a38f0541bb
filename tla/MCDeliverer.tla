---------------------------- MODULE MCDeliverer ----------------------------
(* Model-checking instances of Deliverer: what the user writes.             *)
EXTENDS Deliverer

In(c, kind) == [kind |-> kind, body |-> "+1", conv |-> c]

(* Messages that hold up the next one, that wait for a task, that let the   *)
(* next one pass, that cancel each other, and a conversation beside another. *)
Pairs == {<<In("c", "delete"), In("c", "text")>>,
          <<In("c", "unfurl"), In("c", "task")>>,
          <<In("c", "reaction"), In("c", "reaction")>>,
          <<In("c", "text"), In("d", "text")>>}

Reactions == {<<In("c", "reaction"), In("c", "reaction"), In("c", "reaction")>>}
=============================================================================
