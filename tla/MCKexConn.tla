----------------------------- MODULE MCKexConn ------------------------------
(* The instance for TLC: the provisionee answers little, so that the other *)
(* direction can be long enough to be cut in every way.                    *)
EXTENDS KexConn

MCMaxWrites == [e \in Ends |-> IF e = "provisioner" THEN 2 ELSE 0]
=============================================================================
