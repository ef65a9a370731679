--------------------------- MODULE MCApplication ---------------------------
(* A bounded instance of Lifecycle: three clients that race to initialise   *)
(* the application and to open three channels.                              *)
EXTENDS Lifecycle

CONSTANTS c1, c2, c3

MCClients == {c1, c2, c3}
=============================================================================
