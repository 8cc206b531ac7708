-------------------------- MODULE MCRelayStream --------------------------
(* Instances of the file relay for TLC.                                    *)
EXTENDS RelayStream

MCDaemon == {"daemon"}
=============================================================================
