--------------------------- MODULE MCChatEndpoint ---------------------------
(* A small instance of ChatEndpoint: the requests of one caller. *)
EXTENDS ChatEndpoint

CONSTANTS r1, r2, r3, caller

MCKeyOf == [r \in Requests |-> caller]
=============================================================================
