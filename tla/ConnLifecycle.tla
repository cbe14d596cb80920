----------------------------- MODULE ConnLifecycle -----------------------------
(***************************************************************************)
(* What conn.go promises to the callbacks registered with TCPServer, one   *)
(* connection at a time and whatever the backend: Connect first, Data at   *)
(* most once, Disconnect last and exactly once, no connection closed       *)
(* without it, no callback on a connection that was never accepted, none   *)
(* after Disconnect.  Only a Data callback that closes the connection      *)
(* itself sees Disconnect come after the close.  The order is the one      *)
(* TestTCPCallbackOrder and TestTCPDisconnectOnEmptyRead observe.  Where a *)
(* loop departs from it, its module says so beside its properties.         *)
(***************************************************************************)

CONSTANT Conns              \* the TCP connections clients may open

VARIABLES
  status,                   \* status[c]: "new", "open" or "closed"
  stage                     \* stage[c]: the last callback fired for c

lifecycleVars == <<status, stage>>

Stages == {"none", "connect", "data", "disconnect"}

LifecycleTypeOK ==
  /\ status \in [Conns -> {"new", "open", "closed"}]
  /\ stage \in [Conns -> Stages]

Init ==
  /\ status = [c \in Conns |-> "new"]
  /\ stage = [c \in Conns |-> "none"]

(* The kernel hands the connection to the server. *)
Accept(c) ==
  /\ status[c] = "new"
  /\ status' = [status EXCEPT ![c] = "open"]
  /\ UNCHANGED stage

FireConnect(c) ==
  /\ status[c] = "open"
  /\ stage[c] = "none"
  /\ stage' = [stage EXCEPT ![c] = "connect"]
  /\ UNCHANGED status

FireData(c) ==
  /\ status[c] = "open"
  /\ stage[c] = "connect"
  /\ stage' = [stage EXCEPT ![c] = "data"]
  /\ UNCHANGED status

(* The Data callback may itself call conn.Disconnect(). *)
CloseInData(c) ==
  /\ status[c] = "open"
  /\ stage[c] = "data"
  /\ status' = [status EXCEPT ![c] = "closed"]
  /\ UNCHANGED stage

(* Disconnect is fired, and the server closes what is still open. *)
FireDisconnect(c) ==
  /\ \/ status[c] = "open" /\ stage[c] \in {"connect", "data"}
     \/ status[c] = "closed" /\ stage[c] = "data"
  /\ stage' = [stage EXCEPT ![c] = "disconnect"]
  /\ status' = [status EXCEPT ![c] = "closed"]

Next ==
  \E c \in Conns : \/ Accept(c) \/ FireConnect(c) \/ FireData(c)
                   \/ CloseInData(c) \/ FireDisconnect(c)

Spec == Init /\ [][Next]_lifecycleVars
================================================================================
