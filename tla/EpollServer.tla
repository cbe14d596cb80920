------------------------------ MODULE EpollServer ------------------------------
(***************************************************************************)
(* The Linux readiness backend: epollServer.Run and handleConn of          *)
(* src/server_linux.go with the Conn of src/conn_unix.go.                  *)
(*                                                                         *)
(* Each server is one goroutine running Run.  Several may run in one       *)
(* process (the tests start about ten); they share nothing but the         *)
(* process's descriptor table, so that table is the only variable without  *)
(* a server index.  A step is one system call of a loop with the           *)
(* bookkeeping around it, one step of a client, or the passing of time.    *)
(*                                                                         *)
(* Instants are kept as the time left until them: deadlines[s][f] and      *)
(* nextSweep[s] count down, and stop once the code can no longer tell the  *)
(* values apart (-1: now.After(dl); 0: !now.Before(nextSweep)).  No clock  *)
(* has to be bounded.                                                      *)
(***************************************************************************)
EXTENDS Integers, FiniteSets

CONSTANTS
  Servers,        \* the epollServer instances of the process
  EarlyClosers,   \* those whose Data callback may call conn.Disconnect()
  Conns,          \* the TCP connections clients may open
  Fds,            \* descriptor numbers a client socket can be given
  Listener,       \* stands for the listening descriptor in a batch of events
  None,           \* no connection, no descriptor, no deadline
  Backlog,        \* second argument of listen(2): 128 in the code
  MaxEvents,      \* length of the events buffer: 64 in the code
  IdleTimeout,    \* timeout.go, in units of time
  SweepTick

ASSUME EpollAssumption ==
  /\ EarlyClosers \subseteq Servers
  /\ {Backlog, MaxEvents, IdleTimeout, SweepTick} \subseteq Nat \ {0}
  /\ None \notin Conns \cup Fds \cup Servers \cup Int
  /\ Listener \notin Fds \cup {None}

VARIABLES
  \* the clients and the kernel
  phase,          \* phase[c]: "new", "backlog" (not accepted yet) or "accepted"
  at,             \* at[c]: the server whose port c was opened to
  sent,           \* the connections with request bytes to read
  gone,           \* the connections whose client closed or reset them
  fdtab,          \* the descriptor table: fdtab[f] is the open connection f names
  interest,       \* interest[s]: the client descriptors in the epoll set of s
  \* the loop of each server
  pc,             \* where the loop of s stands
  batch,          \* the events of the last epoll_wait still to be handled
  deadlines,      \* the map deadlines, None where it has no entry
  nextSweep,
  cur,            \* cfd in the accept loop, conn.fd in handleConn
  serving,        \* the connection cur stood for when its event was taken
  early,          \* the Data callback has closed conn itself
  \* history
  stage,          \* the last callback fired for a connection
  age,            \* time since an open connection was accepted
  replies         \* <<c, d>>: an answer to c was written to connection d

clientVars == <<phase, at, sent, gone>>
loopVars == <<pc, batch, deadlines, nextSweep, cur, serving, early>>
historyVars == <<stage, age, replies>>
vars == <<phase, at, sent, gone, fdtab, interest, pc, batch, deadlines,
          nextSweep, cur, serving, early, stage, age, replies>>

PcValues == {"start", "wait", "dispatch", "accept", "register",
             "read", "data", "early", "finish", "returned"}

(* Where the loop works on the descriptor cur. *)
Holding == {"register", "read", "data", "early", "finish"}

TypeOK ==
  /\ phase \in [Conns -> {"new", "backlog", "accepted"}]
  /\ at \in [Conns -> Servers \cup {None}]
  /\ sent \in SUBSET Conns
  /\ gone \in SUBSET Conns
  /\ fdtab \in [Fds -> Conns \cup {None}]
  /\ interest \in [Servers -> SUBSET Fds]
  /\ pc \in [Servers -> PcValues]
  /\ batch \in [Servers -> SUBSET (Fds \cup {Listener})]
  /\ deadlines \in [Servers -> [Fds -> (-1..IdleTimeout) \cup {None}]]
  /\ nextSweep \in [Servers -> 0..SweepTick]
  /\ cur \in [Servers -> Fds \cup {None}]
  /\ \A s \in Servers : pc[s] \in Holding => cur[s] \in Fds
  /\ serving \in [Servers -> Conns \cup {None}]
  /\ early \in [Servers -> BOOLEAN]
  /\ stage \in [Conns -> {"none", "connect", "data", "disconnect"}]
  /\ age \in [Conns -> 0..(IdleTimeout + 1)]
  /\ replies \in SUBSET (Conns \X Conns)

Init ==
  /\ phase = [c \in Conns |-> "new"]
  /\ at = [c \in Conns |-> None]
  /\ sent = {}
  /\ gone = {}
  /\ fdtab = [f \in Fds |-> None]
  /\ interest = [s \in Servers |-> {}]
  /\ pc = [s \in Servers |-> "start"]
  /\ batch = [s \in Servers |-> {}]
  /\ deadlines = [s \in Servers |-> [f \in Fds |-> None]]
  /\ nextSweep = [s \in Servers |-> SweepTick]
  /\ cur = [s \in Servers |-> None]
  /\ serving = [s \in Servers |-> None]
  /\ early = [s \in Servers |-> FALSE]
  /\ stage = [c \in Conns |-> "none"]
  /\ age = [c \in Conns |-> 0]
  /\ replies = {}

--------------------------------------------------------------------------------
(***************************************************************************)
(* What the kernel keeps                                                   *)
(***************************************************************************)

IsOpen(c) == \E f \in Fds : fdtab[f] = c

(* The connections in the accept queue of s. *)
Waiting(s) == {c \in Conns : phase[c] = "backlog" /\ at[c] = s}

(* EPOLLIN, EPOLLHUP or EPOLLERR on a client socket. *)
Readable(f) == fdtab[f] \in sent \cup gone

Ready(s) ==
  {f \in interest[s] : Readable(f)}
    \cup (IF Waiting(s) # {} THEN {Listener} ELSE {})

--------------------------------------------------------------------------------
(***************************************************************************)
(* Small pieces of the loop                                                *)
(***************************************************************************)

(* Slips a change to this code could make; the mutants of PROJECT.json put *)
(* each in the place of the definition it is named after.                  *)
UnwatchKeepsDeadline(s, f) ==
  /\ interest' = [interest EXCEPT ![s] = @ \ {f}]
  /\ UNCHANGED deadlines
WatchNoDeadline(s, f) ==
  /\ interest' = [interest EXCEPT ![s] = @ \cup {f}]
  /\ UNCHANGED deadlines
WatchTickLonger(s, f) ==
  /\ interest' = [interest EXCEPT ![s] = @ \cup {f}]
  /\ deadlines' = [deadlines EXCEPT ![s][f] = IdleTimeout + SweepTick]
ExpiredAtDeadline(s) == {f \in Fds : deadlines[s][f] \in {-1, 0}}
ExpiredNever(s) == {}
RearmAfterIdle(s) == nextSweep' = [nextSweep EXCEPT ![s] = SweepTick + IdleTimeout]
FireNoEmptyDisconnect(c, cb) ==
  stage' = [d \in Conns |->
              IF d = c /\ <<stage[d], cb>> # <<"connect", "disconnect">>
                THEN cb ELSE stage[d]]

(* close(2) of the descriptors in F: EBADF for the ones that are not open; *)
(* an open one leaves the table and every epoll set it is in.              *)
Close(F) ==
  /\ fdtab' = [f \in Fds |-> IF f \in F THEN None ELSE fdtab[f]]
  /\ interest' = [s \in Servers |-> interest[s] \ F]
  /\ age' = [c \in Conns |-> IF \E f \in F : fdtab[f] = c THEN 0 ELSE age[c]]

(* delete(deadlines, efd), with EPOLL_CTL_DEL before it. *)
Unwatch(s, f) ==
  /\ interest' = [interest EXCEPT ![s] = @ \ {f}]
  /\ deadlines' = [deadlines EXCEPT ![s][f] = None]

(* epollAdd(epfd, cfd) succeeded; deadlines[cfd] = now + idleTimeout. *)
Watch(s, f) ==
  /\ interest' = [interest EXCEPT ![s] = @ \cup {f}]
  /\ deadlines' = [deadlines EXCEPT ![s][f] = IdleTimeout]

(* The entries of deadlines the sweep removes: now.After(dl). *)
Expired(s) == {f \in Fds : deadlines[s][f] = -1}

(* nextSweep = now.Add(sweepTick) *)
Rearm(s) == nextSweep' = [nextSweep EXCEPT ![s] = SweepTick]

(* The callback cb is fired with a Conn that stands for connection c. *)
Fire(c, cb) == stage' = [d \in Conns |-> IF d = c THEN cb ELSE stage[d]]

(* conn.Send reaches the connection the descriptor names at that moment.   *)
Answer(s) ==
  (Conns \cap {serving[s]}) \X (Conns \cap {fdtab[cur[s]]})

Goto(s, from, to) ==
  /\ pc[s] = from
  /\ pc' = [pc EXCEPT ![s] = to]

--------------------------------------------------------------------------------
(***************************************************************************)
(* The event loop of server s                                              *)
(***************************************************************************)

(* Socket, SetsockoptInt, Bind, Listen, EpollCreate1 and the registration  *)
(* of the listener, up to the first iteration of the loop.                 *)
Start(s) ==
  /\ Goto(s, "start", "wait")
  /\ Rearm(s)
  /\ UNCHANGED <<clientVars, fdtab, interest, batch, deadlines, cur, serving,
                 early, historyVars>>

(* Any of these calls fails: Run returns the error. *)
StartFails(s) ==
  /\ Goto(s, "start", "returned")
  /\ UNCHANGED <<clientVars, fdtab, interest, batch, deadlines, nextSweep, cur,
                 serving, early, historyVars>>

(* epoll_wait reports what is ready, at most MaxEvents of it, or nothing   *)
(* once the time to the next sweep has run out.  EINTR repeats the call    *)
(* and changes nothing.                                                    *)
EpollWait(s) ==
  /\ Goto(s, "wait", "dispatch")
  /\ \/ /\ Ready(s) = {}
        /\ nextSweep[s] = 0
        /\ batch' = [batch EXCEPT ![s] = {}]
     \/ \E b \in SUBSET Ready(s) :
          /\ b # {}
          /\ b # Ready(s) => Cardinality(b) = MaxEvents
          /\ Cardinality(b) <= MaxEvents
          /\ batch' = [batch EXCEPT ![s] = b]
  /\ UNCHANGED <<clientVars, fdtab, interest, deadlines, nextSweep, cur,
                 serving, early, historyVars>>

(* Any other error of epoll_wait: Run returns, closing nothing. *)
EpollWaitFails(s) ==
  /\ Goto(s, "wait", "returned")
  /\ UNCHANGED <<clientVars, fdtab, interest, batch, deadlines, nextSweep, cur,
                 serving, early, historyVars>>

(* The event is the listener's: enter the accept loop. *)
TakeListener(s) ==
  /\ Listener \in batch[s]
  /\ Goto(s, "dispatch", "accept")
  /\ batch' = [batch EXCEPT ![s] = @ \ {Listener}]
  /\ UNCHANGED <<clientVars, fdtab, interest, deadlines, nextSweep, cur,
                 serving, early, historyVars>>

(* accept4 gives connection c the free descriptor f. *)
Accept4(s, c, f) ==
  /\ c \in Waiting(s)
  /\ fdtab[f] = None
  /\ Goto(s, "accept", "register")
  /\ fdtab' = [fdtab EXCEPT ![f] = c]
  /\ phase' = [phase EXCEPT ![c] = "accepted"]
  /\ cur' = [cur EXCEPT ![s] = f]
  /\ UNCHANGED <<at, sent, gone, interest, batch, deadlines, nextSweep,
                 serving, early, historyVars>>

(* Any error of accept4 leaves the accept loop: EAGAIN, EMFILE when the    *)
(* descriptor table is full, ECONNABORTED, ENOBUFS.                        *)
AcceptStops(s) ==
  /\ Goto(s, "accept", "dispatch")
  /\ UNCHANGED <<clientVars, fdtab, interest, batch, deadlines, nextSweep, cur,
                 serving, early, historyVars>>

(* The accepted socket goes into the epoll set and gets its deadline. *)
Register(s) ==
  /\ Goto(s, "register", "accept")
  /\ fdtab[cur[s]] # None
  /\ Watch(s, cur[s])
  /\ cur' = [cur EXCEPT ![s] = None]
  /\ UNCHANGED <<clientVars, fdtab, batch, nextSweep, serving, early,
                 historyVars>>

(* epollAdd fails (ENOMEM, ENOSPC): the socket is closed, no deadline set. *)
RegisterFails(s) ==
  /\ Goto(s, "register", "accept")
  /\ Close({cur[s]})
  /\ cur' = [cur EXCEPT ![s] = None]
  /\ UNCHANGED <<clientVars, batch, deadlines, nextSweep, serving, early,
                 stage, replies>>

(* The event is client f's: it is taken out of the epoll set and of the    *)
(* deadlines, and handleConn starts with the Connect callback.             *)
TakeClient(s, f) ==
  /\ f \in batch[s]
  /\ Goto(s, "dispatch", "read")
  /\ batch' = [batch EXCEPT ![s] = @ \ {f}]
  /\ Unwatch(s, f)
  /\ cur' = [cur EXCEPT ![s] = f]
  /\ serving' = [serving EXCEPT ![s] = fdtab[f]]
  /\ Fire(fdtab[f], "connect")
  /\ UNCHANGED <<clientVars, fdtab, nextSweep, early, age, replies>>

(* read(2) returns bytes. *)
ReadBytes(s) ==
  /\ Goto(s, "read", "data")
  /\ fdtab[cur[s]] \in sent
  /\ UNCHANGED <<clientVars, fdtab, interest, batch, deadlines, nextSweep, cur,
                 serving, early, historyVars>>

(* read(2) returns 0 or an error: end of stream, ECONNRESET (which drops   *)
(* bytes not yet read), EAGAIN, EBADF.                                     *)
ReadNothing(s) ==
  /\ Goto(s, "read", "finish")
  /\ fdtab[cur[s]] \notin sent \/ fdtab[cur[s]] \in gone
  /\ UNCHANGED <<clientVars, fdtab, interest, batch, deadlines, nextSweep, cur,
                 serving, early, historyVars>>

(* The Data callback.  It may write an answer, which reaches whatever      *)
(* connection the descriptor names then, and may be about to call          *)
(* conn.Disconnect(), as HTTPServer.closeConn does.                        *)
DataCallback(s) ==
  /\ \/ Goto(s, "data", "finish")
     \/ s \in EarlyClosers /\ Goto(s, "data", "early")
  /\ Fire(serving[s], "data")
  /\ replies' \in {replies, replies \cup Answer(s)}
  /\ UNCHANGED <<clientVars, fdtab, interest, batch, deadlines, nextSweep, cur,
                 serving, early, age>>

(* Conn.Disconnect called by the Data callback. *)
EarlyClose(s) ==
  /\ Goto(s, "early", "finish")
  /\ Close({cur[s]})
  /\ early' = [early EXCEPT ![s] = TRUE]
  /\ UNCHANGED <<clientVars, batch, deadlines, nextSweep, cur, serving,
                 stage, replies>>

(* The end of handleConn: the Disconnect callback, then close(fd) whether  *)
(* or not the callback has closed it before.                               *)
FinishConn(s) ==
  /\ Goto(s, "finish", "dispatch")
  /\ Fire(serving[s], "disconnect")
  /\ Close({cur[s]})
  /\ cur' = [cur EXCEPT ![s] = None]
  /\ serving' = [serving EXCEPT ![s] = None]
  /\ early' = [early EXCEPT ![s] = FALSE]
  /\ UNCHANGED <<clientVars, batch, deadlines, nextSweep, replies>>

(* The batch is done and a sweep is due: close every idle connection past  *)
(* its deadline, without a callback.                                       *)
Sweep(s) ==
  /\ batch[s] = {}
  /\ nextSweep[s] = 0
  /\ Goto(s, "dispatch", "wait")
  /\ Close(Expired(s))
  /\ deadlines' = [deadlines EXCEPT ![s] =
                     [f \in Fds |-> IF f \in Expired(s) THEN None ELSE @[f]]]
  /\ Rearm(s)
  /\ UNCHANGED <<clientVars, batch, cur, serving, early, stage, replies>>

(* The batch is done and no sweep is due. *)
NoSweep(s) ==
  /\ batch[s] = {}
  /\ nextSweep[s] # 0
  /\ Goto(s, "dispatch", "wait")
  /\ UNCHANGED <<clientVars, fdtab, interest, batch, deadlines, nextSweep, cur,
                 serving, early, historyVars>>

Loop(s) ==
  \/ Start(s) \/ StartFails(s)
  \/ EpollWait(s) \/ EpollWaitFails(s)
  \/ TakeListener(s)
  \/ \E c \in Conns, f \in Fds : Accept4(s, c, f)
  \/ AcceptStops(s) \/ Register(s) \/ RegisterFails(s)
  \/ \E f \in Fds : TakeClient(s, f)
  \/ ReadBytes(s) \/ ReadNothing(s)
  \/ DataCallback(s) \/ EarlyClose(s) \/ FinishConn(s)
  \/ Sweep(s) \/ NoSweep(s)

--------------------------------------------------------------------------------
(***************************************************************************)
(* The clients and the clock                                               *)
(***************************************************************************)

ClientConnect(c, s) ==
  /\ phase[c] = "new"
  /\ pc[s] \notin {"start", "returned"}
  /\ Cardinality(Waiting(s)) < Backlog
  /\ phase' = [phase EXCEPT ![c] = "backlog"]
  /\ at' = [at EXCEPT ![c] = s]
  /\ UNCHANGED <<sent, gone, fdtab, interest, loopVars, historyVars>>

ClientSend(c) ==
  /\ phase[c] = "backlog" \/ IsOpen(c)
  /\ c \notin sent \cup gone
  /\ sent' = sent \cup {c}
  /\ UNCHANGED <<phase, at, gone, fdtab, interest, loopVars, historyVars>>

ClientClose(c) ==
  /\ phase[c] = "backlog" \/ IsOpen(c)
  /\ c \notin gone
  /\ gone' = gone \cup {c}
  /\ UNCHANGED <<phase, at, sent, fdtab, interest, loopVars, historyVars>>

(* A unit of time goes by, at any point of any loop. *)
Tick ==
  /\ deadlines' = [s \in Servers |-> [f \in Fds |->
                     IF deadlines[s][f] \in {None, -1}
                       THEN deadlines[s][f] ELSE deadlines[s][f] - 1]]
  /\ nextSweep' = [s \in Servers |->
                     IF pc[s] = "start" \/ nextSweep[s] = 0
                       THEN nextSweep[s] ELSE nextSweep[s] - 1]
  /\ age' = [c \in Conns |-> IF IsOpen(c) /\ age[c] <= IdleTimeout
                               THEN age[c] + 1 ELSE age[c]]
  /\ UNCHANGED <<clientVars, fdtab, interest, pc, batch, cur, serving, early,
                 stage, replies>>

(* Every Run has returned: the process has nothing left to do. *)
AllReturned ==
  /\ \A s \in Servers : pc[s] = "returned"
  /\ UNCHANGED vars

Next ==
  \/ \E s \in Servers : Loop(s)
  \/ \E c \in Conns, s \in Servers : ClientConnect(c, s)
  \/ \E c \in Conns : ClientSend(c) \/ ClientClose(c)
  \/ Tick
  \/ AllReturned

(* The goroutine of a loop is scheduled and its system calls return; time  *)
(* goes on; accept4 may fail any number of times with a client waiting and *)
(* a descriptor free, but not every time.  Clients owe nothing.            *)
Fairness ==
  /\ \A s \in Servers :
       /\ WF_vars(Loop(s))
       /\ SF_vars(\E c \in Conns, f \in Fds : Accept4(s, c, f))
  /\ WF_vars(Tick)

Spec == Init /\ [][Next]_vars

FairSpec == Spec /\ Fairness

--------------------------------------------------------------------------------
(***************************************************************************)
(* Properties                                                              *)
(***************************************************************************)

Accepted(c) == phase[c] = "accepted"
Closed(c) == Accepted(c) /\ ~IsOpen(c)

(* Loop s is working on descriptor f and has not closed it yet. *)
InHand(s, f) ==
  /\ cur[s] = f
  /\ pc[s] \in Holding
  /\ ~early[s]

(* No descriptor leaks: every open connection is either watched by the     *)
(* server that accepted it, with an entry in its deadlines, or in the      *)
(* hand of its loop, which will close it.  (The deadlines are there "to    *)
(* prevent an fd leak when a client hangs", server_linux.go:69-70.)        *)
NoFdLeak ==
  \A f \in Fds, s \in Servers :
    (fdtab[f] # None /\ at[fdtab[f]] = s) =>
      \/ f \in interest[s] /\ deadlines[s][f] # None
      \/ InHand(s, f)

(* An entry of deadlines never outlives its connection: it names an open   *)
(* descriptor that is still in the epoll set and belongs to this server.   *)
(* A stale one would make the sweep close whatever got the number next.    *)
DeadlinesAreLive ==
  \A s \in Servers, f \in Fds :
    deadlines[s][f] # None =>
      /\ fdtab[f] # None
      /\ at[fdtab[f]] = s
      /\ f \in interest[s]

(* The next sweep is never due later than one sweepTick after a deadline,  *)
(* whatever the order in which connections came in.                        *)
SweepScheduled ==
  \A s \in Servers, f \in Fds :
    deadlines[s][f] # None => nextSweep[s] <= deadlines[s][f] + SweepTick

(* An answer reaches the client that asked for it. *)
RepliesToAsker == \A r \in replies : r[1] = r[2]

(* A connection is closed by the loop of the server that accepted it and   *)
(* by no other.                                                            *)
ClosedByItsServer ==
  [][\A c \in Conns : IsOpen(c) /\ ~IsOpen(c)' =>
       \E s \in Servers : s = at[c] /\ pc'[s] # pc[s]]_vars

(* A connection closed without its Disconnect callback, and without being  *)
(* in its handler, has been idle for longer than idleTimeout, or could not *)
(* be registered: the sweep spares every other connection.                 *)
SweepsOnlyIdle ==
  [][\A c \in Conns :
       IsOpen(c) /\ ~IsOpen(c)' /\ pc[at[c]] = "dispatch"
         => age[c] > IdleTimeout]_vars

(* What ConnLifecycle sees of a connection: it is born when it is accepted *)
(* and lives as long as a descriptor names it.                             *)
Status ==
  [c \in Conns |-> IF ~Accepted(c) THEN "new"
                   ELSE IF IsOpen(c) THEN "open" ELSE "closed"]

Lifecycle == INSTANCE ConnLifecycle WITH status <- Status

(* Where the loop departs from it.  Connect is "fired when a new           *)
(* connection is accepted" (conn.go:16) and Disconnect "before a           *)
(* connection closes" (:11, :20); the code fires Connect at the first      *)
(* event (server_linux.go:148), and closes connections that never had one  *)
(* without any callback: in the sweep, those idle for longer than          *)
(* idleTimeout (:126), and the one in hand that could not be registered    *)
(* (:109).                                                                 *)
DropUnseen ==
  \E S \in SUBSET Conns :
    /\ \A c \in S :
         /\ IsOpen(c) /\ stage[c] = "none"
         /\ \/ age[c] > IdleTimeout
            \/ pc[at[c]] = "register" /\ fdtab[cur[at[c]]] = c
    /\ Status' = [c \in Conns |-> IF c \in S THEN "closed" ELSE Status[c]]
    /\ UNCHANGED stage

(* In every other step the loop keeps what ConnLifecycle promises the      *)
(* callbacks: a connection whose Connect was fired gets the rest, in       *)
(* order, once each, on every path through handleConn, and only a          *)
(* connection no callback knows of is ever dropped.                        *)
KeepsLifecycle ==
  Lifecycle!Init /\ [][Lifecycle!Next \/ DropUnseen]_(Lifecycle!lifecycleVars)

(* Every connection that reaches the accept queue is closed in the end,    *)
(* whether its client talks, hangs or leaves, unless Run returns.          *)
EveryConnCloses ==
  \A c \in Conns :
    phase[c] = "backlog" ~>
      Closed(c) \/ \E s \in Servers : s = at[c] /\ pc[s] = "returned"
================================================================================
