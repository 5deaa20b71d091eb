-------------------------- MODULE MCRemoteSession --------------------------
(* RemoteSession on small instances. *)
EXTENDS RemoteSession, TLC

ConnSymmetry == Permutations(Conn)
=============================================================================
