------------------------------ MODULE MCBaseApp ------------------------------
(* A bounded instance of BaseApp: two submitters, two packets each way.      *)
EXTENDS BaseApp

CONSTANTS c1, c2, d1, d2, d3

MCClients == {c1, c2}

Send(c, d) == [type |-> "send", data |-> d, signer |-> c]
Recv(c, s, d) == [type |-> "recv", seq |-> s, data |-> d, signer |-> c]
Ack(c, s) == [type |-> "acknowledge", seq |-> s, signer |-> c]

\* Single messages and pairs that depend on each other or fail half-way.  What
\* the second of a pair carries (d3) no other transaction does, so that losing the
\* first message is not mistaken for running another transaction.
TxsOf(c, d) ==
  { << Send(c, d) >>, << Send(c, d), Send(c, d3) >>,
    << Recv(c, 1, d) >>, << Recv(c, 1, d), Recv(c, 2, d) >>,
    << Recv(c, 1, d), Recv(c, 1, d3) >>,
    << Send(c, d), Ack(c, 1) >>, << Ack(c, 1), Ack(c, 1) >>, << Ack(c, 1) >>,
    << Send(c, d), [type |-> "fail", signer |-> c] >>,
    << Send(c, d), [type |-> "odd", data |-> d, signer |-> c] >>,
    << >>, << [type |-> "invalid", signer |-> c] >> }

MCTxs == TxsOf(c1, d1) \cup TxsOf(c2, d2) \cup {<< Send(c1, d1), Send(c2, d2) >>}
==============================================================================
