---------------------------- MODULE MCServerIOCP ----------------------------
(* A server with one client and one worker, and a message of three bytes.  *)
EXTENDS ServerIOCP

MCWorkloads == {[c \in Client |-> 3]}
=============================================================================
