------------------------------ MODULE MCHttp2Conn ------------------------------
(* Instances of Http2Conn for TLC. *)
EXTENDS Http2Conn
================================================================================
