----------------------------- MODULE MCIocpServer ------------------------------
(* Instances of IocpServer for TLC. *)
EXTENDS IocpServer
================================================================================
