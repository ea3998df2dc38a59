---------------------------- MODULE MCRemoteClient ----------------------------
(* Small instances of RemoteClient for TLC. *)
EXTENDS RemoteClient
=============================================================================
