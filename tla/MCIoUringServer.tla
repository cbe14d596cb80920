---------------------------- MODULE MCIoUringServer ----------------------------
(* Instances of IoUringServer for TLC. *)
EXTENDS IoUringServer
================================================================================
