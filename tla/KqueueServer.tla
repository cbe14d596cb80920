------------------------------ MODULE KqueueServer ------------------------------
(***************************************************************************)
(* The macOS backend: kqueueServer.Run and handleConn of                   *)
(* src/server_darwin.go.                                                   *)
(*                                                                         *)
(* It is the loop of EpollServer with other system calls, and one          *)
(* difference that reaches the state: a client's descriptor stays in the   *)
(* kqueue while handleConn works on it, and only close(2) takes it out.    *)
(* The module extends EpollServer: interest[s] is now the client           *)
(* descriptors in the kqueue of s, and an action that the two sources      *)
(* write alike is the action of EpollServer under the name of the call     *)
(* made here.                                                              *)
(***************************************************************************)
EXTENDS EpollServer

--------------------------------------------------------------------------------

(* A slip a change to this code could make. *)
HandleNoDelete(s, f) ==
  /\ f \in batch[s]
  /\ Goto(s, "dispatch", "read")
  /\ batch' = [batch EXCEPT ![s] = @ \ {f}]
  /\ cur' = [cur EXCEPT ![s] = f]
  /\ serving' = [serving EXCEPT ![s] = fdtab[f]]
  /\ Fire(fdtab[f], "connect")
  /\ UNCHANGED <<clientVars, fdtab, interest, deadlines, nextSweep, early, age,
                 replies>>

(* Socket, SetsockoptInt, SetNonblock, Bind, Listen, Kqueue, and kqueueAdd *)
(* of the listener; each may fail, and Run then returns.                   *)
Listening(s) == Start(s)
ListeningFails(s) == StartFails(s)

(* Kevent: what is ready, or nothing after the time left to the sweep.     *)
(* EINTR repeats the call; any other error ends Run.                       *)
Kevent(s) == EpollWait(s)
KeventFails(s) == EpollWaitFails(s)

(* efd == fd: accept until any error of accept.                            *)
ListenerEvent(s) == TakeListener(s)
Accept(s, c, f) == Accept4(s, c, f)
AcceptBreaks(s) == AcceptStops(s)

(* SetNonblock, whose error is ignored, then kqueueAdd and the deadline;   *)
(* or kqueueAdd fails and the socket is closed.                            *)
KqueueAdd(s) == Register(s)
KqueueAddFails(s) == RegisterFails(s)

(* A client's event: delete(deadlines, efd), and handleConn starts with    *)
(* the Connect callback.  The descriptor stays in the kqueue.              *)
HandleConn(s, f) ==
  /\ f \in batch[s]
  /\ Goto(s, "dispatch", "read")
  /\ batch' = [batch EXCEPT ![s] = @ \ {f}]
  /\ deadlines' = [deadlines EXCEPT ![s][f] = None]
  /\ cur' = [cur EXCEPT ![s] = f]
  /\ serving' = [serving EXCEPT ![s] = fdtab[f]]
  /\ Fire(fdtab[f], "connect")
  /\ UNCHANGED <<clientVars, fdtab, interest, nextSweep, early, age, replies>>

(* The rest of handleConn: Read, Data, Disconnect, and the close that also *)
(* takes the descriptor out of the kqueue.                                 *)
HandleRead(s) == ReadBytes(s) \/ ReadNothing(s)
HandleData(s) == DataCallback(s) \/ EarlyClose(s)
HandleClose(s) == FinishConn(s)

(* After the batch: close what is past its deadline, if a sweep is due.    *)
SweepIdle(s) == Sweep(s) \/ NoSweep(s)

KqLoop(s) ==
  \/ Listening(s) \/ ListeningFails(s)
  \/ Kevent(s) \/ KeventFails(s)
  \/ ListenerEvent(s)
  \/ \E c \in Conns, f \in Fds : Accept(s, c, f)
  \/ AcceptBreaks(s) \/ KqueueAdd(s) \/ KqueueAddFails(s)
  \/ \E f \in Fds : HandleConn(s, f)
  \/ HandleRead(s) \/ HandleData(s) \/ HandleClose(s)
  \/ SweepIdle(s)

KqNext ==
  \/ \E s \in Servers : KqLoop(s)
  \/ \E c \in Conns, s \in Servers : ClientConnect(c, s)
  \/ \E c \in Conns : ClientSend(c) \/ ClientClose(c)
  \/ Tick
  \/ AllReturned

KqSpec == Init /\ [][KqNext]_vars

--------------------------------------------------------------------------------
(***************************************************************************)
(* Properties: those of EpollServer, and                                   *)
(***************************************************************************)

(* What the epoll set of s would hold at the same point of its loop.       *)
InHandler(s) == pc[s] \in {"read", "data", "early", "finish"}
EpollSet ==
  [s \in Servers |-> interest[s] \ (IF InHandler(s) THEN {cur[s]} ELSE {})]

(* The epoll loop, by way of the module with its theorems, which then hold *)
(* of this loop too (KqueueServer_proofs).                                 *)
Epoll == INSTANCE EpollServer_proofs WITH interest <- EpollSet

(* Leaving the descriptor in the kqueue while the handler runs changes     *)
(* nothing a client or a callback can see: every step of this loop is a    *)
(* step of the epoll loop, which takes the descriptor out first ("closing  *)
(* the fd removes it from kqueue, no kevent DEL needed",                   *)
(* server_darwin.go:111).                                                  *)
ImplementsEpoll == Epoll!Spec
================================================================================
