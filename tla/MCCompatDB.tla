------------------------------ MODULE MCCompatDB -----------------------------
(* Bounded instance of CompatDB with bytes of two binary digits.             *)
EXTENDS CompatDB

\* Two stores, one with the name of the other as a prefix of its own, and keys of
\* the chaincode between and after the hexadecimal ones.
MCStoreNames == {<< 1 >>, << 1, 2 >>}
MCSubKeys == {<< 1 >>, << 1, 0 >>, << 3 >>}
MCRawKeys == {<< 2, 0 >>, << 3 >>}
==============================================================================
