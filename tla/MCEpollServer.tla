----------------------------- MODULE MCEpollServer -----------------------------
(* Instances of EpollServer for TLC. *)
EXTENDS EpollServer
================================================================================
