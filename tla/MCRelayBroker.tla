--------------------------- MODULE MCRelayBroker ---------------------------
(* RelayBroker on small instances. *)
EXTENDS RelayBroker, TLC

ReaderSymmetry == Permutations(Reader)
=============================================================================
