-------------------------- MODULE EpollServer_proofs --------------------------
(***************************************************************************)
(* Theorems about EpollServer, for any number of servers, connections and  *)
(* descriptors and any limits.                                             *)
(***************************************************************************)
EXTENDS EpollServer, TLAPS

--------------------------------------------------------------------------------
(* The variables keep their types: the inductive step.                     *)
LEMMA TypeStep == ASSUME TypeOK, [Next]_vars PROVE TypeOK'
<1> USE DEF clientVars, loopVars, historyVars
<1>1. ASSUME NEW s \in Servers, Loop(s)
      PROVE  TypeOK'
  <2>1. CASE Start(s)
    BY <2>1, EpollAssumption DEF TypeOK, Start, Rearm, Goto, PcValues, Holding
  <2>12. ASSUME NEW a \in PcValues, NEW b \in PcValues, Goto(s, a, b),
                b \in Holding => a \in Holding,
                UNCHANGED <<clientVars, fdtab, interest, batch, deadlines,
                            nextSweep, cur, serving, early, historyVars>>
         PROVE  TypeOK'
    BY <2>12 DEF TypeOK, Goto
  <2>13. CASE StartFails(s) \/ EpollWaitFails(s) \/ AcceptStops(s)
              \/ NoSweep(s) \/ ReadBytes(s) \/ ReadNothing(s)
    BY <2>12, <2>13
       DEF StartFails, EpollWaitFails, AcceptStops, NoSweep, ReadBytes,
           ReadNothing, PcValues, Holding
  <2>2. CASE EpollWait(s)
    <3>1. Ready(s) \in SUBSET (Fds \cup {Listener})
      BY DEF Ready, TypeOK
    <3>2. batch' \in [Servers -> SUBSET (Fds \cup {Listener})]
      BY <2>2, <3>1 DEF EpollWait, TypeOK
    <3> QED
      BY <2>2, <3>2 DEF TypeOK, EpollWait, Goto, PcValues, Holding
  <2>3. CASE TakeListener(s)
    BY <2>3 DEF TypeOK, TakeListener, Goto, PcValues, Holding
  <2>4. ASSUME NEW c \in Conns, NEW f \in Fds, Accept4(s, c, f)
        PROVE  TypeOK'
    BY <2>4 DEF TypeOK, Accept4, Goto, PcValues, Holding
  <2>5. CASE Register(s)
    <3>1. IdleTimeout \in (-1..IdleTimeout) \cup {None}
      BY EpollAssumption
    <3>2. deadlines' \in [Servers -> [Fds -> (-1..IdleTimeout) \cup {None}]]
      BY <2>5, <3>1 DEF TypeOK, Register, Watch
    <3>3. interest' \in [Servers -> SUBSET Fds]
      BY <2>5 DEF TypeOK, Register, Watch, Goto, Holding
    <3> QED
      BY <2>5, <3>2, <3>3 DEF TypeOK, Register, Goto, PcValues, Holding
  <2>6. CASE RegisterFails(s)
    BY <2>6, EpollAssumption
       DEF TypeOK, RegisterFails, Close, Goto, PcValues, Holding
  <2>7. ASSUME NEW f \in Fds, TakeClient(s, f)
        PROVE  TypeOK'
    BY <2>7 DEF TypeOK, TakeClient, Unwatch, Fire, Goto, PcValues, Holding
  <2>8. CASE DataCallback(s)
    <3>1. replies' \in SUBSET (Conns \X Conns)
      BY <2>8 DEF DataCallback, TypeOK, Answer
    <3> QED
      BY <2>8, <3>1 DEF TypeOK, DataCallback, Fire, Goto, PcValues, Holding
  <2>9. CASE EarlyClose(s)
    BY <2>9, EpollAssumption
       DEF TypeOK, EarlyClose, Close, Goto, PcValues, Holding
  <2>10. CASE FinishConn(s)
    BY <2>10, EpollAssumption
       DEF TypeOK, FinishConn, Close, Fire, Goto, PcValues, Holding
  <2>11. CASE Sweep(s)
    BY <2>11, EpollAssumption
       DEF TypeOK, Sweep, Close, Expired, Rearm, Goto, PcValues, Holding
  <2> QED
    BY <1>1, <2>1, <2>2, <2>3, <2>4, <2>5, <2>6, <2>7, <2>8, <2>9, <2>10,
       <2>11, <2>13 DEF Loop
<1>2. ASSUME NEW c \in Conns, NEW s \in Servers, ClientConnect(c, s)
      PROVE  TypeOK'
  BY <1>2 DEF TypeOK, ClientConnect
<1>3. ASSUME NEW c \in Conns, ClientSend(c) \/ ClientClose(c)
      PROVE  TypeOK'
  BY <1>3 DEF TypeOK, ClientSend, ClientClose
<1>4. CASE Tick
  <2>1. deadlines' \in [Servers -> [Fds -> (-1..IdleTimeout) \cup {None}]]
    <3>1. SUFFICES ASSUME NEW s \in Servers, NEW f \in Fds
                   PROVE  (IF deadlines[s][f] \in {None, -1}
                             THEN deadlines[s][f] ELSE deadlines[s][f] - 1)
                            \in (-1..IdleTimeout) \cup {None}
      BY <1>4 DEF Tick
    <3>2. deadlines[s][f] \in (-1..IdleTimeout) \cup {None}
      BY DEF TypeOK
    <3> QED
      BY <3>2, EpollAssumption
  <2>2. /\ nextSweep' \in [Servers -> 0..SweepTick]
        /\ age' \in [Conns -> 0..(IdleTimeout + 1)]
    BY <1>4, EpollAssumption DEF TypeOK, Tick
  <2> QED
    BY <1>4, <2>1, <2>2 DEF TypeOK, Tick
<1>5. CASE AllReturned \/ UNCHANGED vars
  BY <1>5 DEF TypeOK, AllReturned, vars
<1> QED
  BY <1>1, <1>2, <1>3, <1>4, <1>5 DEF Next

(* TypeOK, from the start and after any step.                              *)
THEOREM TypeCorrect == Spec => []TypeOK
<1>1. Init => TypeOK
  BY EpollAssumption DEF Init, TypeOK, PcValues, Holding
<1> QED
  BY <1>1, TypeStep, PTL DEF Spec

--------------------------------------------------------------------------------
(***************************************************************************)
(* The inductive invariant.  It needs one fact about the process: another  *)
(* loop can slip in between the two closes of a connection only if there   *)
(* is another loop and a callback that closes early (IoUringReuse.cfg      *)
(* shows what happens when the kernel itself is that other actor).         *)
(***************************************************************************)

SoleLoop == EarlyClosers = {} \/ \A s, t \in Servers : s = t

(* Where handleConn runs. *)
Handling == {"read", "data", "early", "finish"}

(* A connection has one descriptor, and only an accepted one has any. *)
FdsInv ==
  /\ \A f, g \in Fds : fdtab[f] # None /\ fdtab[f] = fdtab[g] => f = g
  /\ \A f \in Fds :
       fdtab[f] # None =>
         phase[fdtab[f]] = "accepted" /\ at[fdtab[f]] \in Servers

(* No callback is fired for a connection that has not been accepted. *)
FreshInv ==
  \A c \in Conns :
    /\ phase[c] # "accepted" => stage[c] = "none"
    /\ phase[c] = "backlog" => at[c] \in Servers

(* A watched descriptor has a deadline, and stands for a connection of     *)
(* this server for which nothing has been fired yet and which has been     *)
(* open at least as long as its deadline has been running.                 *)
WatchInv ==
  \A s \in Servers, f \in Fds :
    /\ f \in interest[s] <=> deadlines[s][f] # None
    /\ f \in interest[s] =>
         /\ fdtab[f] # None
         /\ at[fdtab[f]] = s
         /\ stage[fdtab[f]] = "none"
         /\ IdleTimeout <= age[fdtab[f]] + deadlines[s][f]

(* What is left of a batch of events is still watched. *)
BatchInv == \A s \in Servers : batch[s] \cap Fds \subseteq interest[s]

(* The accept loop holds an open connection nobody watches. *)
RegisterInv ==
  \A s \in Servers :
    pc[s] = "register" =>
      /\ fdtab[cur[s]] # None
      /\ at[fdtab[cur[s]]] = s
      /\ stage[fdtab[cur[s]]] = "none"
      /\ cur[s] \notin interest[s]

(* So does handleConn, until it has closed it. *)
HandleInv ==
  \A s \in Servers :
    /\ pc[s] \in Handling =>
         /\ serving[s] \in Conns
         /\ phase[serving[s]] = "accepted"
         /\ at[serving[s]] = s
         /\ cur[s] \notin interest[s]
         /\ fdtab[cur[s]] = IF early[s] THEN None ELSE serving[s]
         /\ stage[serving[s]] \in {"connect", "data"}
         /\ early[s] => stage[serving[s]] = "data"
    /\ pc[s] \in {"read", "data"} => stage[serving[s]] = "connect"
    /\ pc[s] = "early" => stage[serving[s]] = "data" /\ s \in EarlyClosers
    /\ early[s] => pc[s] = "finish" /\ s \in EarlyClosers

(* An open connection is watched or in the hand of its server. *)
HeldInv ==
  \A f \in Fds, s \in Servers :
    fdtab[f] # None /\ at[fdtab[f]] = s => f \in interest[s] \/ InHand(s, f)

IInv ==
  /\ TypeOK /\ FdsInv /\ FreshInv /\ WatchInv /\ BatchInv
  /\ RegisterInv /\ HandleInv /\ HeldInv /\ RepliesToAsker
(* Every step keeps the invariant.                                         *)
LEMMA IInvStep == ASSUME SoleLoop, IInv, [Next]_vars PROVE IInv'
<1> USE DEF clientVars, loopVars, historyVars
<1>1. ASSUME NEW s \in Servers, Start(s)
      PROVE  IInv'
  <2>1. /\ FdsInv' /\ FreshInv' /\ WatchInv' /\ BatchInv'
        /\ RegisterInv' /\ RepliesToAsker'
    BY <1>1
       DEF IInv, FdsInv, FreshInv, WatchInv, BatchInv, RegisterInv,
           RepliesToAsker, Start, Goto, Rearm
  <2>2. HandleInv'
    BY <1>1 DEF IInv, HandleInv, Handling, Start, Goto, Rearm
  <2>3. HeldInv'
    <3> SUFFICES ASSUME NEW g \in Fds, NEW t \in Servers,
                        fdtab'[g] # None, at'[fdtab'[g]] = t
                 PROVE  g \in interest'[t] \/ InHand(t, g)'
      BY DEF HeldInv
    <3>1. fdtab[g] # None /\ at[fdtab[g]] = t =>
            g \in interest[t] \/ InHand(t, g)
      BY DEF IInv, HeldInv
    <3> QED
      BY <3>1, <1>1 DEF IInv, InHand, Holding, Start, Goto, Rearm
  <2> QED
    BY <2>1, <2>2, <2>3, TypeStep DEF IInv
<1>2. ASSUME NEW s \in Servers,
             StartFails(s) \/ EpollWaitFails(s) \/ AcceptStops(s) \/ NoSweep(s)
      PROVE  IInv'
  <2>1. FdsInv' /\ FreshInv' /\ WatchInv' /\ BatchInv' /\ RepliesToAsker'
    BY <1>2
       DEF IInv, FdsInv, FreshInv, WatchInv, BatchInv, RepliesToAsker,
           StartFails, EpollWaitFails, AcceptStops, NoSweep, Goto
  <2>2. RegisterInv'
    BY <1>2
       DEF IInv, RegisterInv, TypeOK, StartFails, EpollWaitFails, AcceptStops,
           NoSweep, Goto
  <2>3. HandleInv'
    BY <1>2
       DEF IInv, HandleInv, TypeOK, Handling, StartFails, EpollWaitFails,
           AcceptStops, NoSweep, Goto
  <2>4. HeldInv'
    <3> SUFFICES ASSUME NEW g \in Fds, NEW t \in Servers,
                        fdtab'[g] # None, at'[fdtab'[g]] = t
                 PROVE  g \in interest'[t] \/ InHand(t, g)'
      BY DEF HeldInv
    <3>1. fdtab[g] # None /\ at[fdtab[g]] = t =>
            g \in interest[t] \/ InHand(t, g)
      BY DEF IInv, HeldInv
    <3> QED
      BY <3>1, <1>2
         DEF IInv, TypeOK, InHand, Holding, StartFails, EpollWaitFails,
             AcceptStops, NoSweep, Goto
  <2> QED
    BY <2>1, <2>2, <2>3, <2>4, TypeStep DEF IInv
<1>3. ASSUME NEW s \in Servers, EpollWait(s)
      PROVE  IInv'
  <2>1. FdsInv' /\ FreshInv' /\ WatchInv' /\ RegisterInv' /\ RepliesToAsker'
    BY <1>3
       DEF IInv, FdsInv, FreshInv, WatchInv, RegisterInv, RepliesToAsker,
           EpollWait, Goto, Ready
  <2>2. BatchInv'
    <3>1. Ready(s) \cap Fds \subseteq interest[s]
      BY EpollAssumption DEF Ready
    <3>2. batch'[s] \subseteq Ready(s)
      BY <1>3 DEF IInv, TypeOK, EpollWait
    <3> QED
      BY <3>1, <3>2, <1>3 DEF IInv, TypeOK, BatchInv, EpollWait
  <2>3. HandleInv'
    BY <1>3 DEF IInv, HandleInv, Handling, EpollWait, Goto, Ready
  <2>4. HeldInv'
    <3> SUFFICES ASSUME NEW g \in Fds, NEW t \in Servers,
                        fdtab'[g] # None, at'[fdtab'[g]] = t
                 PROVE  g \in interest'[t] \/ InHand(t, g)'
      BY DEF HeldInv
    <3>1. fdtab[g] # None /\ at[fdtab[g]] = t =>
            g \in interest[t] \/ InHand(t, g)
      BY DEF IInv, HeldInv
    <3> QED
      BY <3>1, <1>3 DEF IInv, InHand, Holding, EpollWait, Goto, Ready
  <2> QED
    BY <2>1, <2>2, <2>3, <2>4, TypeStep DEF IInv
<1>4. ASSUME NEW s \in Servers, TakeListener(s)
      PROVE  IInv'
  <2>1. /\ FdsInv' /\ FreshInv' /\ WatchInv' /\ BatchInv'
        /\ RegisterInv' /\ RepliesToAsker'
    BY <1>4
       DEF IInv, FdsInv, FreshInv, WatchInv, BatchInv, RegisterInv,
           RepliesToAsker, TakeListener, Goto
  <2>2. HandleInv'
    BY <1>4 DEF IInv, HandleInv, Handling, TakeListener, Goto
  <2>3. HeldInv'
    <3> SUFFICES ASSUME NEW g \in Fds, NEW t \in Servers,
                        fdtab'[g] # None, at'[fdtab'[g]] = t
                 PROVE  g \in interest'[t] \/ InHand(t, g)'
      BY DEF HeldInv
    <3>1. fdtab[g] # None /\ at[fdtab[g]] = t =>
            g \in interest[t] \/ InHand(t, g)
      BY DEF IInv, HeldInv
    <3> QED
      BY <3>1, <1>4 DEF IInv, InHand, Holding, TakeListener, Goto
  <2> QED
    BY <2>1, <2>2, <2>3, TypeStep DEF IInv
<1>5. ASSUME NEW s \in Servers, NEW c \in Conns, NEW f \in Fds, Accept4(s, c, f)
      PROVE  IInv'
  <2>1. WatchInv' /\ BatchInv' /\ RepliesToAsker'
    BY <1>5 DEF IInv, WatchInv, BatchInv, RepliesToAsker, Accept4, Goto, Waiting
  <2>2. FdsInv' /\ FreshInv'
    BY <1>5 DEF IInv, FdsInv, FreshInv, TypeOK, Accept4, Goto, Waiting
  <2>3. RegisterInv'
    <3> SUFFICES ASSUME NEW t \in Servers, pc'[t] = "register"
                 PROVE  /\ fdtab'[cur'[t]] # None
                        /\ at'[fdtab'[cur'[t]]] = t
                        /\ stage'[fdtab'[cur'[t]]] = "none"
                        /\ cur'[t] \notin interest'[t]
      BY DEF RegisterInv
    <3>1. CASE t = s
      <4>1. cur'[s] = f /\ fdtab'[f] = c /\ c # None
        BY <1>5, EpollAssumption DEF IInv, TypeOK, Accept4
      <4>2. phase[c] = "backlog" /\ at[c] = s
        BY <1>5 DEF Accept4, Waiting
      <4>4. stage[c] = "none"
        BY <4>2 DEF IInv, FreshInv
      <4>3. f \notin interest[s]
        BY <1>5 DEF IInv, WatchInv, Accept4
      <4> QED
        BY <3>1, <4>1, <4>2, <4>3, <4>4, <1>5 DEF Accept4
    <3>2. CASE t # s
      BY <3>2, <1>5, EpollAssumption
         DEF IInv, TypeOK, RegisterInv, Holding, Accept4, Goto
    <3> QED
      BY <3>1, <3>2
  <2>4. HandleInv'
    <3> SUFFICES ASSUME NEW t \in Servers
                 PROVE  HandleInv!(t)'
      BY DEF HandleInv
    <3>1. CASE t = s
      BY <3>1, <1>5 DEF IInv, TypeOK, HandleInv, Handling, Accept4, Goto
    <3>2. CASE t # s
      <4>1. ~early[t]
        BY <3>2, SoleLoop DEF IInv, HandleInv, SoleLoop
      <4>2. pc[t] \in Handling => cur[t] \in Fds \ {f} /\ serving[t] # c
        BY <4>1, <1>5, EpollAssumption
           DEF IInv, TypeOK, HandleInv, Handling, Holding, Accept4, Waiting
      <4> QED
        BY <3>2, <4>1, <4>2, <1>5
           DEF IInv, TypeOK, HandleInv, Handling, Accept4, Goto
    <3> QED
      BY <3>1, <3>2
  <2>5. HeldInv'
    <3> SUFFICES ASSUME NEW g \in Fds, NEW t \in Servers,
                        fdtab'[g] # None, at'[fdtab'[g]] = t
                 PROVE  g \in interest'[t] \/ InHand(t, g)'
      BY DEF HeldInv
    <3>1. fdtab[g] # None /\ at[fdtab[g]] = t =>
            g \in interest[t] \/ InHand(t, g)
      BY DEF IInv, HeldInv
    <3> QED
      BY <3>1, <1>5
         DEF IInv, TypeOK, HandleInv, InHand, Holding, Accept4, Goto, Waiting
  <2> QED
    BY <2>1, <2>2, <2>3, <2>4, <2>5, TypeStep DEF IInv
<1>6. ASSUME NEW s \in Servers, Register(s)
      PROVE  IInv'
  <2>1. FdsInv' /\ FreshInv' /\ BatchInv' /\ RepliesToAsker'
    BY <1>6
       DEF IInv, FdsInv, FreshInv, BatchInv, RepliesToAsker, Register, Goto,
           Watch
  <2>2. WatchInv'
    BY <1>6, EpollAssumption
       DEF IInv, WatchInv, TypeOK, RegisterInv, Register, Goto, Watch
  <2>3. RegisterInv'
    BY <1>6 DEF IInv, RegisterInv, TypeOK, Register, Goto, Watch
  <2>4. HandleInv'
    BY <1>6 DEF IInv, HandleInv, Handling, Register, Goto, Watch
  <2>5. HeldInv'
    <3> SUFFICES ASSUME NEW g \in Fds, NEW t \in Servers,
                        fdtab'[g] # None, at'[fdtab'[g]] = t
                 PROVE  g \in interest'[t] \/ InHand(t, g)'
      BY DEF HeldInv
    <3>1. fdtab[g] # None /\ at[fdtab[g]] = t =>
            g \in interest[t] \/ InHand(t, g)
      BY DEF IInv, HeldInv
    <3> QED
      BY <3>1, <1>6 DEF IInv, TypeOK, InHand, Register, Goto, Watch
  <2> QED
    BY <2>1, <2>2, <2>3, <2>4, <2>5, TypeStep DEF IInv
<1>7. ASSUME NEW s \in Servers, RegisterFails(s)
      PROVE  IInv'
  <2>1. FdsInv' /\ FreshInv' /\ RepliesToAsker'
    BY <1>7
       DEF IInv, FdsInv, FreshInv, RepliesToAsker, RegisterFails, Goto, Close
  <2>2. WatchInv'
    BY <1>7
       DEF IInv, WatchInv, TypeOK, FdsInv, RegisterInv, Holding, RegisterFails,
           Goto, Close
  <2>3. BatchInv'
    BY <1>7
       DEF IInv, BatchInv, WatchInv, RegisterInv, RegisterFails, Goto, Close
  <2>4. RegisterInv'
    BY <1>7 DEF IInv, RegisterInv, TypeOK, Holding, RegisterFails, Goto, Close
  <2>5. HandleInv'
    BY <1>7
       DEF IInv, HandleInv, TypeOK, RegisterInv, Handling, Holding,
           RegisterFails, Goto, Close
  <2>6. HeldInv'
    <3> SUFFICES ASSUME NEW g \in Fds, NEW t \in Servers,
                        fdtab'[g] # None, at'[fdtab'[g]] = t
                 PROVE  g \in interest'[t] \/ InHand(t, g)'
      BY DEF HeldInv
    <3>1. fdtab[g] # None /\ at[fdtab[g]] = t =>
            g \in interest[t] \/ InHand(t, g)
      BY DEF IInv, HeldInv
    <3> QED
      BY <3>1, <1>7 DEF IInv, InHand, RegisterFails, Goto, Close
  <2> QED
    BY <2>1, <2>2, <2>3, <2>4, <2>5, <2>6, TypeStep DEF IInv
<1>8. ASSUME NEW s \in Servers, NEW f \in Fds, TakeClient(s, f)
      PROVE  IInv'
  <2>1. RepliesToAsker'
    BY <1>8 DEF IInv, RepliesToAsker, TakeClient, Goto, Unwatch, Fire
  <2>2. FdsInv' /\ FreshInv'
    BY <1>8, EpollAssumption
       DEF IInv, FdsInv, FreshInv, TakeClient, Goto, Unwatch, Fire
  <2>3. WatchInv'
    BY <1>8
       DEF IInv, WatchInv, TypeOK, FdsInv, BatchInv, TakeClient, Goto, Unwatch,
           Fire
  <2>4. BatchInv'
    BY <1>8 DEF IInv, BatchInv, TypeOK, TakeClient, Goto, Unwatch, Fire
  <2>5. RegisterInv'
    BY <1>8
       DEF IInv, RegisterInv, TypeOK, WatchInv, BatchInv, Holding, TakeClient,
           Goto, Unwatch, Fire
  <2>6. HandleInv'
    BY <1>8
       DEF IInv, HandleInv, TypeOK, FdsInv, WatchInv, BatchInv, Handling,
           TakeClient, Goto, Unwatch, Fire
  <2>7. HeldInv'
    <3> SUFFICES ASSUME NEW g \in Fds, NEW t \in Servers,
                        fdtab'[g] # None, at'[fdtab'[g]] = t
                 PROVE  g \in interest'[t] \/ InHand(t, g)'
      BY DEF HeldInv
    <3>1. fdtab[g] # None /\ at[fdtab[g]] = t =>
            g \in interest[t] \/ InHand(t, g)
      BY DEF IInv, HeldInv
    <3> QED
      BY <3>1, <1>8
         DEF IInv, TypeOK, HandleInv, InHand, Holding, TakeClient, Goto,
             Unwatch, Fire
  <2> QED
    BY <2>1, <2>2, <2>3, <2>4, <2>5, <2>6, <2>7, TypeStep DEF IInv
<1>9. ASSUME NEW s \in Servers, ReadBytes(s)
      PROVE  IInv'
  <2>1. /\ FdsInv' /\ FreshInv' /\ WatchInv' /\ BatchInv'
        /\ RegisterInv' /\ RepliesToAsker'
    BY <1>9
       DEF IInv, FdsInv, FreshInv, WatchInv, BatchInv, RegisterInv,
           RepliesToAsker, ReadBytes, Goto
  <2>2. HandleInv'
    BY <1>9 DEF IInv, HandleInv, Handling, ReadBytes, Goto
  <2>3. HeldInv'
    <3> SUFFICES ASSUME NEW g \in Fds, NEW t \in Servers,
                        fdtab'[g] # None, at'[fdtab'[g]] = t
                 PROVE  g \in interest'[t] \/ InHand(t, g)'
      BY DEF HeldInv
    <3>1. fdtab[g] # None /\ at[fdtab[g]] = t =>
            g \in interest[t] \/ InHand(t, g)
      BY DEF IInv, HeldInv
    <3> QED
      BY <3>1, <1>9 DEF IInv, InHand, Holding, ReadBytes, Goto
  <2> QED
    BY <2>1, <2>2, <2>3, TypeStep DEF IInv
<1>10. ASSUME NEW s \in Servers, ReadNothing(s)
      PROVE  IInv'
  <2>1. /\ FdsInv' /\ FreshInv' /\ WatchInv' /\ BatchInv'
        /\ RegisterInv' /\ RepliesToAsker'
    BY <1>10
       DEF IInv, FdsInv, FreshInv, WatchInv, BatchInv, RegisterInv,
           RepliesToAsker, ReadNothing, Goto
  <2>2. HandleInv'
    BY <1>10 DEF IInv, HandleInv, Handling, ReadNothing, Goto
  <2>3. HeldInv'
    <3> SUFFICES ASSUME NEW g \in Fds, NEW t \in Servers,
                        fdtab'[g] # None, at'[fdtab'[g]] = t
                 PROVE  g \in interest'[t] \/ InHand(t, g)'
      BY DEF HeldInv
    <3>1. fdtab[g] # None /\ at[fdtab[g]] = t =>
            g \in interest[t] \/ InHand(t, g)
      BY DEF IInv, HeldInv
    <3> QED
      BY <3>1, <1>10 DEF IInv, InHand, Holding, ReadNothing, Goto
  <2> QED
    BY <2>1, <2>2, <2>3, TypeStep DEF IInv
<1>11. ASSUME NEW s \in Servers, DataCallback(s)
      PROVE  IInv'
  <2>1. BatchInv'
    BY <1>11 DEF IInv, BatchInv, DataCallback, Goto, Fire, Answer
  <2>2. FdsInv' /\ FreshInv'
    BY <1>11
       DEF IInv, FdsInv, FreshInv, HandleInv, DataCallback, Goto, Fire, Answer
  <2>3. WatchInv'
    BY <1>11
       DEF IInv, WatchInv, TypeOK, HandleInv, DataCallback, Goto, Fire, Answer
  <2>4. RegisterInv'
    BY <1>11
       DEF IInv, RegisterInv, TypeOK, HandleInv, Holding, DataCallback, Goto,
           Fire, Answer
  <2>5. HandleInv'
    BY <1>11
       DEF IInv, HandleInv, TypeOK, Handling, DataCallback, Goto, Fire, Answer
  <2>6. HeldInv'
    <3> SUFFICES ASSUME NEW g \in Fds, NEW t \in Servers,
                        fdtab'[g] # None, at'[fdtab'[g]] = t
                 PROVE  g \in interest'[t] \/ InHand(t, g)'
      BY DEF HeldInv
    <3>1. fdtab[g] # None /\ at[fdtab[g]] = t =>
            g \in interest[t] \/ InHand(t, g)
      BY DEF IInv, HeldInv
    <3> QED
      BY <3>1, <1>11
         DEF IInv, TypeOK, InHand, Holding, DataCallback, Goto, Fire, Answer
  <2>7. RepliesToAsker'
    BY <1>11
       DEF IInv, RepliesToAsker, HandleInv, Handling, Holding, DataCallback,
           Goto, Fire, Answer
  <2> QED
    BY <2>1, <2>2, <2>3, <2>4, <2>5, <2>6, <2>7, TypeStep DEF IInv
<1>12. ASSUME NEW s \in Servers, EarlyClose(s)
      PROVE  IInv'
  <2>1. FdsInv' /\ FreshInv' /\ RepliesToAsker'
    BY <1>12 DEF IInv, FdsInv, FreshInv, RepliesToAsker, EarlyClose, Goto, Close
  <2>2. WatchInv'
    BY <1>12
       DEF IInv, WatchInv, TypeOK, HandleInv, Handling, EarlyClose, Goto, Close
  <2>3. BatchInv'
    BY <1>12
       DEF IInv, BatchInv, WatchInv, HandleInv, Handling, EarlyClose, Goto,
           Close
  <2>4. RegisterInv'
    BY <1>12
       DEF IInv, RegisterInv, TypeOK, HandleInv, Handling, Holding, EarlyClose,
           Goto, Close
  <2>5. HandleInv'
    BY <1>12
       DEF IInv, HandleInv, TypeOK, Handling, Holding, EarlyClose, Goto, Close
  <2>6. HeldInv'
    <3> SUFFICES ASSUME NEW g \in Fds, NEW t \in Servers,
                        fdtab'[g] # None, at'[fdtab'[g]] = t
                 PROVE  g \in interest'[t] \/ InHand(t, g)'
      BY DEF HeldInv
    <3>1. fdtab[g] # None /\ at[fdtab[g]] = t =>
            g \in interest[t] \/ InHand(t, g)
      BY DEF IInv, HeldInv
    <3> QED
      BY <3>1, <1>12 DEF IInv, InHand, EarlyClose, Goto, Close
  <2> QED
    BY <2>1, <2>2, <2>3, <2>4, <2>5, <2>6, TypeStep DEF IInv
<1>13. ASSUME NEW s \in Servers, FinishConn(s)
      PROVE  IInv'
  <2>1. RepliesToAsker'
    BY <1>13 DEF IInv, RepliesToAsker, FinishConn, Goto, Close, Fire
  <2>2. FdsInv' /\ FreshInv'
    BY <1>13
       DEF IInv, FdsInv, FreshInv, HandleInv, Handling, FinishConn, Goto, Close,
           Fire
  <2>3. WatchInv'
    BY <1>13
       DEF IInv, WatchInv, TypeOK, HandleInv, Handling, FinishConn, Goto, Close,
           Fire
  <2>4. BatchInv'
    BY <1>13
       DEF IInv, BatchInv, WatchInv, HandleInv, Handling, FinishConn, Goto,
           Close, Fire
  <2>5. RegisterInv'
    BY <1>13
       DEF IInv, RegisterInv, TypeOK, HandleInv, Handling, Holding, FinishConn,
           Goto, Close, Fire
  <2>6. HandleInv'
    BY <1>13
       DEF IInv, HandleInv, TypeOK, Handling, Holding, FinishConn, Goto, Close,
           Fire
  <2>7. HeldInv'
    <3> SUFFICES ASSUME NEW g \in Fds, NEW t \in Servers,
                        fdtab'[g] # None, at'[fdtab'[g]] = t
                 PROVE  g \in interest'[t] \/ InHand(t, g)'
      BY DEF HeldInv
    <3>1. fdtab[g] # None /\ at[fdtab[g]] = t =>
            g \in interest[t] \/ InHand(t, g)
      BY DEF IInv, HeldInv
    <3> QED
      BY <3>1, <1>13 DEF IInv, InHand, FinishConn, Goto, Close, Fire
  <2> QED
    BY <2>1, <2>2, <2>3, <2>4, <2>5, <2>6, <2>7, TypeStep DEF IInv
<1>14. ASSUME NEW s \in Servers, Sweep(s)
      PROVE  IInv'
  <2>1. FdsInv' /\ FreshInv' /\ RepliesToAsker'
    BY <1>14
       DEF IInv, FdsInv, FreshInv, RepliesToAsker, Sweep, Goto, Close, Expired,
           Rearm
  <2>2. WatchInv'
    BY <1>14, EpollAssumption
       DEF IInv, WatchInv, TypeOK, FdsInv, Sweep, Goto, Close, Expired, Rearm
  <2>3. BatchInv'
    BY <1>14, EpollAssumption
       DEF IInv, BatchInv, WatchInv, Sweep, Goto, Close, Expired, Rearm
  <2>4. RegisterInv'
    BY <1>14, EpollAssumption
       DEF IInv, RegisterInv, TypeOK, WatchInv, Holding, Sweep, Goto, Close,
           Expired, Rearm
  <2>5. HandleInv'
    BY <1>14, EpollAssumption
       DEF IInv, HandleInv, TypeOK, WatchInv, Handling, Holding, Sweep, Goto,
           Close, Expired, Rearm
  <2>6. HeldInv'
    <3> SUFFICES ASSUME NEW g \in Fds, NEW t \in Servers,
                        fdtab'[g] # None, at'[fdtab'[g]] = t
                 PROVE  g \in interest'[t] \/ InHand(t, g)'
      BY DEF HeldInv
    <3>1. fdtab[g] # None /\ at[fdtab[g]] = t =>
            g \in interest[t] \/ InHand(t, g)
      BY DEF IInv, HeldInv
    <3> QED
      BY <3>1, <1>14
         DEF IInv, InHand, Holding, Sweep, Goto, Close, Expired, Rearm
  <2> QED
    BY <2>1, <2>2, <2>3, <2>4, <2>5, <2>6, TypeStep DEF IInv
<1>15. ASSUME NEW c \in Conns, NEW s \in Servers, ClientConnect(c, s)
      PROVE  IInv'
  <2>1. BatchInv' /\ HandleInv' /\ RepliesToAsker'
    BY <1>15 DEF IInv, BatchInv, HandleInv, RepliesToAsker, ClientConnect
  <2>2. FdsInv' /\ FreshInv'
    BY <1>15 DEF IInv, FdsInv, FreshInv, TypeOK, ClientConnect
  <2>3. WatchInv'
    BY <1>15 DEF IInv, WatchInv, FdsInv, ClientConnect
  <2>4. RegisterInv'
    BY <1>15 DEF IInv, RegisterInv, TypeOK, FdsInv, Holding, ClientConnect
  <2>5. HeldInv'
    <3> SUFFICES ASSUME NEW g \in Fds, NEW t \in Servers,
                        fdtab'[g] # None, at'[fdtab'[g]] = t
                 PROVE  g \in interest'[t] \/ InHand(t, g)'
      BY DEF HeldInv
    <3>1. fdtab[g] # None /\ at[fdtab[g]] = t =>
            g \in interest[t] \/ InHand(t, g)
      BY DEF IInv, HeldInv
    <3> QED
      BY <3>1, <1>15 DEF IInv, FdsInv, InHand, ClientConnect
  <2> QED
    BY <2>1, <2>2, <2>3, <2>4, <2>5, TypeStep DEF IInv
<1>16. ASSUME NEW c \in Conns, ClientSend(c)
      PROVE  IInv'
  <2>1. /\ FdsInv' /\ FreshInv' /\ WatchInv' /\ BatchInv'
        /\ RegisterInv' /\ HandleInv' /\ RepliesToAsker'
    BY <1>16
       DEF IInv, FdsInv, FreshInv, WatchInv, BatchInv, RegisterInv, HandleInv,
           RepliesToAsker, ClientSend
  <2>2. HeldInv'
    <3> SUFFICES ASSUME NEW g \in Fds, NEW t \in Servers,
                        fdtab'[g] # None, at'[fdtab'[g]] = t
                 PROVE  g \in interest'[t] \/ InHand(t, g)'
      BY DEF HeldInv
    <3>1. fdtab[g] # None /\ at[fdtab[g]] = t =>
            g \in interest[t] \/ InHand(t, g)
      BY DEF IInv, HeldInv
    <3> QED
      BY <3>1, <1>16 DEF IInv, InHand, ClientSend
  <2> QED
    BY <2>1, <2>2, TypeStep DEF IInv
<1>17. ASSUME NEW c \in Conns, ClientClose(c)
      PROVE  IInv'
  <2>1. /\ FdsInv' /\ FreshInv' /\ WatchInv' /\ BatchInv'
        /\ RegisterInv' /\ HandleInv' /\ RepliesToAsker'
    BY <1>17
       DEF IInv, FdsInv, FreshInv, WatchInv, BatchInv, RegisterInv, HandleInv,
           RepliesToAsker, ClientClose
  <2>2. HeldInv'
    <3> SUFFICES ASSUME NEW g \in Fds, NEW t \in Servers,
                        fdtab'[g] # None, at'[fdtab'[g]] = t
                 PROVE  g \in interest'[t] \/ InHand(t, g)'
      BY DEF HeldInv
    <3>1. fdtab[g] # None /\ at[fdtab[g]] = t =>
            g \in interest[t] \/ InHand(t, g)
      BY DEF IInv, HeldInv
    <3> QED
      BY <3>1, <1>17 DEF IInv, InHand, ClientClose
  <2> QED
    BY <2>1, <2>2, TypeStep DEF IInv
<1>18. ASSUME Tick
      PROVE  IInv'
  <2>1. /\ FdsInv' /\ FreshInv' /\ BatchInv' /\ RegisterInv'
        /\ HandleInv' /\ RepliesToAsker'
    BY <1>18
       DEF IInv, FdsInv, FreshInv, BatchInv, RegisterInv, HandleInv,
           RepliesToAsker, Tick
  <2>2. WatchInv'
    <3> SUFFICES ASSUME NEW s \in Servers, NEW f \in Fds
                 PROVE  /\ f \in interest'[s] <=> deadlines'[s][f] # None
                        /\ f \in interest'[s] =>
                             /\ fdtab'[f] # None
                             /\ at'[fdtab'[f]] = s
                             /\ stage'[fdtab'[f]] = "none"
                             /\ IdleTimeout <= age'[fdtab'[f]] + deadlines'[s][f]
      BY DEF WatchInv
    <3>1. deadlines[s][f] \in (-1..IdleTimeout) \cup {None}
      BY DEF IInv, TypeOK
    <3>2. deadlines'[s][f] = IF deadlines[s][f] \in {None, -1}
                               THEN deadlines[s][f] ELSE deadlines[s][f] - 1
      BY <1>18 DEF Tick
    <3>3. f \in interest[s] <=> deadlines'[s][f] # None
      BY <3>1, <3>2, EpollAssumption DEF IInv, WatchInv
    <3>4. ASSUME f \in interest[s]
          PROVE  IdleTimeout <= age'[fdtab[f]] + deadlines'[s][f]
      <4>1. /\ fdtab[f] \in Conns
            /\ deadlines[s][f] \in -1..IdleTimeout
            /\ IdleTimeout <= age[fdtab[f]] + deadlines[s][f]
        BY <3>1, <3>4 DEF IInv, TypeOK, WatchInv
      <4>2. age'[fdtab[f]] = IF age[fdtab[f]] <= IdleTimeout
                               THEN age[fdtab[f]] + 1 ELSE age[fdtab[f]]
        BY <4>1, <1>18 DEF Tick, IsOpen
      <4> QED
        BY <3>2, <4>1, <4>2, EpollAssumption DEF IInv, TypeOK
    <3> QED
      BY <3>3, <3>4, <1>18 DEF IInv, WatchInv, Tick
  <2>3. HeldInv'
    <3> SUFFICES ASSUME NEW g \in Fds, NEW t \in Servers,
                        fdtab'[g] # None, at'[fdtab'[g]] = t
                 PROVE  g \in interest'[t] \/ InHand(t, g)'
      BY DEF HeldInv
    <3>1. fdtab[g] # None /\ at[fdtab[g]] = t =>
            g \in interest[t] \/ InHand(t, g)
      BY DEF IInv, HeldInv
    <3> QED
      BY <3>1, <1>18 DEF IInv, InHand, Tick
  <2> QED
    BY <2>1, <2>2, <2>3, TypeStep DEF IInv
<1>19. ASSUME AllReturned \/ UNCHANGED vars
      PROVE  IInv'
  <2>1. /\ FdsInv' /\ FreshInv' /\ WatchInv' /\ BatchInv'
        /\ RegisterInv' /\ HandleInv' /\ RepliesToAsker'
    BY <1>19
       DEF IInv, FdsInv, FreshInv, WatchInv, BatchInv, RegisterInv, HandleInv,
           RepliesToAsker, AllReturned, vars
  <2>2. HeldInv'
    <3> SUFFICES ASSUME NEW g \in Fds, NEW t \in Servers,
                        fdtab'[g] # None, at'[fdtab'[g]] = t
                 PROVE  g \in interest'[t] \/ InHand(t, g)'
      BY DEF HeldInv
    <3>1. fdtab[g] # None /\ at[fdtab[g]] = t =>
            g \in interest[t] \/ InHand(t, g)
      BY DEF IInv, HeldInv
    <3> QED
      BY <3>1, <1>19 DEF IInv, InHand, AllReturned, vars
  <2> QED
    BY <2>1, <2>2, TypeStep DEF IInv
<1> QED
  BY <1>1, <1>2, <1>3, <1>4, <1>5, <1>6, <1>7, <1>8, <1>9, <1>10, <1>11, <1>12,
    <1>13, <1>14, <1>15, <1>16, <1>17, <1>18, <1>19 DEF Next, Loop

(* The invariant holds in every reachable state.                           *)
THEOREM Invariance == ASSUME SoleLoop PROVE Spec => []IInv
<1>1. Init => IInv
  BY EpollAssumption
     DEF Init, IInv, TypeOK, PcValues, Holding, FdsInv, FreshInv, WatchInv,
         BatchInv, RegisterInv, HandleInv, Handling, HeldInv, RepliesToAsker
<1>2. IInv /\ [Next]_vars => IInv'
  BY IInvStep
<1> QED
  BY <1>1, <1>2, PTL DEF Spec

(* No descriptor leaks: what is open is watched with a deadline, or in the *)
(* hand of the loop that accepted it.                                      *)
THEOREM DescriptorsAreHeld == ASSUME SoleLoop PROVE Spec => []NoFdLeak
<1>1. IInv => NoFdLeak
  BY DEF IInv, HeldInv, WatchInv, NoFdLeak
<1> QED
  BY <1>1, Invariance, PTL

(* The sweep closes no descriptor that was given to another connection.    *)
THEOREM NoStaleDeadline == ASSUME SoleLoop PROVE Spec => []DeadlinesAreLive
<1>1. IInv => DeadlinesAreLive
  BY DEF IInv, WatchInv, DeadlinesAreLive
<1> QED
  BY <1>1, Invariance, PTL

(* Every answer goes to the client that asked.                             *)
THEOREM AnswersReachAsker == ASSUME SoleLoop PROVE Spec => []RepliesToAsker
<1>1. IInv => RepliesToAsker
  BY DEF IInv
<1> QED
  BY <1>1, Invariance, PTL

--------------------------------------------------------------------------------
(* The sweep is never due later than a sweepTick after a deadline.  This   *)
(* needs no assumption on the process: each loop has its own timer.        *)

SweepInv ==
  /\ TypeOK
  /\ SweepScheduled
  /\ \A s \in Servers, f \in Fds : pc[s] = "start" => deadlines[s][f] = None

LEMMA SweepStep == ASSUME SweepInv, [Next]_vars PROVE SweepInv'
<1> USE DEF clientVars, loopVars, historyVars
<1>1. ASSUME NEW s \in Servers, Sweep(s)
      PROVE  SweepInv'
  <2>1. ASSUME NEW t \in Servers, NEW f \in Fds, deadlines'[t][f] # None
        PROVE  nextSweep'[t] <= deadlines'[t][f] + SweepTick
    <3>1. deadlines[t][f] \in (-1..IdleTimeout) \cup {None}
      BY DEF SweepInv, TypeOK
    <3>2. CASE t = s
      <4>1. deadlines'[s][f] = deadlines[s][f] /\ deadlines[s][f] # -1
        BY <1>1, <2>1, <3>2 DEF SweepInv, TypeOK, Sweep, Expired
      <4>2. nextSweep'[s] = SweepTick
        BY <1>1 DEF SweepInv, TypeOK, Sweep, Rearm
      <4> QED
        BY <2>1, <3>1, <3>2, <4>1, <4>2, EpollAssumption
    <3>3. CASE t # s
      BY <1>1, <2>1, <3>3 DEF SweepInv, TypeOK, SweepScheduled, Sweep, Rearm
    <3> QED
      BY <3>2, <3>3
  <2>2. ASSUME NEW t \in Servers, NEW f \in Fds, pc'[t] = "start"
        PROVE  deadlines'[t][f] = None
    BY <1>1, <2>2 DEF SweepInv, TypeOK, Sweep, Goto
  <2> QED
    BY <1>1, <2>1, <2>2, TypeStep DEF SweepInv, SweepScheduled, Loop, Next
<1>2. ASSUME NEW s \in Servers, Start(s)
      PROVE  SweepInv'
  BY <1>2, TypeStep, EpollAssumption
     DEF SweepInv, TypeOK, SweepScheduled, Start, Rearm, Goto
<1>3. ASSUME NEW s \in Servers, Register(s)
      PROVE  SweepInv'
  <2>1. ASSUME NEW t \in Servers, NEW f \in Fds, deadlines'[t][f] # None
        PROVE  nextSweep'[t] <= deadlines'[t][f] + SweepTick
    <3>1. nextSweep' = nextSweep /\ nextSweep[t] \in 0..SweepTick
      BY <1>3 DEF SweepInv, TypeOK, Register
    <3>2. CASE t = s /\ f = cur[s]
      <4>1. deadlines'[t][f] = IdleTimeout
        BY <1>3, <3>2 DEF SweepInv, TypeOK, Register, Watch
      <4> QED
        BY <3>1, <4>1, EpollAssumption
    <3>3. CASE ~(t = s /\ f = cur[s])
      <4>1. deadlines'[t][f] = deadlines[t][f]
        BY <1>3, <3>3 DEF SweepInv, TypeOK, Register, Watch
      <4> QED
        BY <2>1, <3>1, <4>1 DEF SweepInv, SweepScheduled
    <3> QED
      BY <3>2, <3>3
  <2>2. ASSUME NEW t \in Servers, NEW f \in Fds, pc'[t] = "start"
        PROVE  deadlines'[t][f] = None
    BY <1>3, <2>2 DEF SweepInv, TypeOK, Register, Watch, Goto
  <2> QED
    BY <1>3, <2>1, <2>2, TypeStep DEF SweepInv, SweepScheduled
<1>4. ASSUME NEW s \in Servers, NEW f \in Fds, TakeClient(s, f)
      PROVE  SweepInv'
  BY <1>4, TypeStep
     DEF SweepInv, TypeOK, SweepScheduled, TakeClient, Unwatch, Goto
<1>5. CASE Tick
  <2>1. ASSUME NEW t \in Servers, NEW f \in Fds
        PROVE  /\ deadlines'[t][f] # None =>
                    nextSweep'[t] <= deadlines'[t][f] + SweepTick
               /\ pc'[t] = "start" => deadlines'[t][f] = None
    <3>1. /\ deadlines[t][f] \in (-1..IdleTimeout) \cup {None}
          /\ nextSweep[t] \in 0..SweepTick
      BY DEF SweepInv, TypeOK
    <3>2. deadlines'[t][f] = IF deadlines[t][f] \in {None, -1}
                               THEN deadlines[t][f] ELSE deadlines[t][f] - 1
      BY <1>5 DEF Tick
    <3>3. nextSweep'[t] = IF pc[t] = "start" \/ nextSweep[t] = 0
                            THEN nextSweep[t] ELSE nextSweep[t] - 1
      BY <1>5 DEF Tick
    <3>4. pc' = pc
      BY <1>5 DEF Tick
    <3> QED
      BY <3>1, <3>2, <3>3, <3>4, EpollAssumption DEF SweepInv, SweepScheduled
  <2> QED
    BY <2>1, TypeStep DEF SweepInv, SweepScheduled
<1>6. ASSUME NEW s \in Servers, Loop(s),
             UNCHANGED <<deadlines, nextSweep>>, pc'[s] # "start"
      PROVE  SweepInv'
  <2>1. \A t \in Servers : pc'[t] = "start" => pc[t] = "start"
    BY <1>6
       DEF SweepInv, TypeOK, Loop, Goto, Start, StartFails, EpollWait,
           EpollWaitFails, TakeListener, Accept4, AcceptStops, Register,
           RegisterFails, TakeClient, ReadBytes, ReadNothing, DataCallback,
           EarlyClose, FinishConn, Sweep, NoSweep
  <2> QED
    BY <1>6, <2>1, TypeStep DEF SweepInv, SweepScheduled
<1>7. ASSUME NEW s \in Servers,
             \/ StartFails(s) \/ EpollWait(s) \/ EpollWaitFails(s)
             \/ TakeListener(s) \/ AcceptStops(s) \/ RegisterFails(s)
             \/ ReadBytes(s) \/ ReadNothing(s) \/ DataCallback(s)
             \/ EarlyClose(s) \/ FinishConn(s) \/ NoSweep(s)
             \/ \E c \in Conns, f \in Fds : Accept4(s, c, f)
      PROVE  SweepInv'
  <2>1. UNCHANGED <<deadlines, nextSweep>> /\ pc'[s] # "start"
    BY <1>7
       DEF SweepInv, TypeOK, StartFails, EpollWait, EpollWaitFails,
           TakeListener, AcceptStops, RegisterFails, ReadBytes, ReadNothing,
           DataCallback, EarlyClose, FinishConn, NoSweep, Accept4, Goto
  <2> QED
    BY <1>6, <1>7, <2>1 DEF Loop
<1>8. CASE UNCHANGED <<deadlines, nextSweep, pc>>
  BY <1>8, TypeStep DEF SweepInv, SweepScheduled
<1>9. ASSUME NEW c \in Conns, NEW s \in Servers,
             ClientConnect(c, s) \/ ClientSend(c) \/ ClientClose(c)
      PROVE  UNCHANGED <<deadlines, nextSweep, pc>>
  BY <1>9 DEF ClientConnect, ClientSend, ClientClose
<1>10. CASE AllReturned \/ UNCHANGED vars
  BY <1>8, <1>10 DEF AllReturned, vars
<1>11. ASSUME NEW c \in Conns, ClientSend(c) \/ ClientClose(c)
       PROVE  UNCHANGED <<deadlines, nextSweep, pc>>
  BY <1>11 DEF ClientSend, ClientClose
<1> QED
  BY <1>1, <1>2, <1>3, <1>4, <1>5, <1>7, <1>8, <1>9, <1>10, <1>11
     DEF Next, Loop

(* SweepScheduled holds in every reachable state.                          *)
THEOREM SweepOnTime == Spec => []SweepScheduled
<1>1. Init => SweepInv
  BY EpollAssumption
     DEF Init, SweepInv, TypeOK, PcValues, Holding, SweepScheduled
<1>2. SweepInv /\ [Next]_vars => SweepInv'
  BY SweepStep
<1>3. SweepInv => SweepScheduled
  BY DEF SweepInv
<1> QED
  BY <1>1, <1>2, <1>3, PTL DEF Spec

--------------------------------------------------------------------------------
(***************************************************************************)
(* Steps that close a connection.                                          *)
(***************************************************************************)

(* A descriptor is closed by the loop that holds it or by its sweep.       *)
LEMMA Closers ==
  ASSUME SoleLoop, IInv, [Next]_vars,
         NEW f \in Fds, fdtab[f] # None, fdtab'[f] # fdtab[f]
  PROVE  \E s \in Servers :
           /\ at[fdtab[f]] = s
           /\ \/ cur[s] = f /\ (RegisterFails(s) \/ EarlyClose(s) \/ FinishConn(s))
              \/ f \in Expired(s) /\ Sweep(s)
<1> USE DEF clientVars, loopVars, historyVars
<1>1. ASSUME NEW s \in Servers, RegisterFails(s)
      PROVE  cur[s] = f /\ at[fdtab[f]] = s
  BY <1>1 DEF IInv, TypeOK, RegisterInv, RegisterFails, Close, Goto
<1>2. ASSUME NEW s \in Servers, EarlyClose(s) \/ FinishConn(s)
      PROVE  cur[s] = f /\ at[fdtab[f]] = s
  BY <1>2 DEF IInv, TypeOK, HandleInv, Handling, EarlyClose, FinishConn, Close, Goto
<1>3. ASSUME NEW s \in Servers, Sweep(s)
      PROVE  f \in Expired(s) /\ at[fdtab[f]] = s
  BY <1>3, EpollAssumption DEF IInv, TypeOK, WatchInv, Sweep, Close, Expired
<1>4. ASSUME NEW s \in Servers, NEW c \in Conns, NEW g \in Fds, Accept4(s, c, g)
      PROVE  FALSE
  BY <1>4 DEF IInv, TypeOK, Accept4
<1>5. fdtab' # fdtab
  OBVIOUS
<1>6. ASSUME NEW s \in Servers, Loop(s), fdtab' # fdtab
      PROVE  \/ RegisterFails(s) \/ EarlyClose(s) \/ FinishConn(s) \/ Sweep(s)
             \/ \E c \in Conns, g \in Fds : Accept4(s, c, g)
  BY <1>6
     DEF Loop, Start, StartFails, EpollWait, EpollWaitFails, TakeListener,
         AcceptStops, Register, TakeClient, ReadBytes, ReadNothing,
         DataCallback, NoSweep
<1>7. \E s \in Servers : Loop(s)
  BY <1>5
     DEF Next, ClientConnect, ClientSend, ClientClose, Tick, AllReturned, vars
<1> QED
  BY <1>1, <1>2, <1>3, <1>4, <1>5, <1>6, <1>7

(* No server closes a connection of another one.                           *)
THEOREM OthersKeepOff == ASSUME SoleLoop PROVE Spec => ClosedByItsServer
<1>1. ASSUME IInv, [Next]_vars, NEW c \in Conns, IsOpen(c), ~IsOpen(c)'
      PROVE  \E s \in Servers : s = at[c] /\ pc'[s] # pc[s]
  <2>1. PICK f \in Fds : fdtab[f] = c /\ fdtab'[f] # c /\ c # None
    BY <1>1, EpollAssumption DEF IsOpen
  <2>2. PICK s \in Servers :
          /\ at[c] = s
          /\ RegisterFails(s) \/ EarlyClose(s) \/ FinishConn(s) \/ Sweep(s)
    BY <1>1, <2>1, Closers
  <2>3. pc'[s] # pc[s]
    BY <1>1, <2>2
       DEF IInv, TypeOK, RegisterFails, EarlyClose, FinishConn, Sweep, Goto
  <2> QED
    BY <2>2, <2>3
<1>2. IInv /\ [Next]_vars =>
        [\A c \in Conns : IsOpen(c) /\ ~IsOpen(c)' =>
           \E s \in Servers : s = at[c] /\ pc'[s] # pc[s]]_vars
  BY <1>1
<1> QED
  BY <1>2, Invariance, PTL DEF Spec, ClosedByItsServer

(* The sweep closes only what has been idle for more than idleTimeout.     *)
THEOREM SweepSparesTheRest == ASSUME SoleLoop PROVE Spec => SweepsOnlyIdle
<1>1. ASSUME IInv, [Next]_vars, NEW c \in Conns, IsOpen(c), ~IsOpen(c)',
             pc[at[c]] = "dispatch"
      PROVE  age[c] > IdleTimeout
  <2>1. PICK f \in Fds : fdtab[f] = c /\ fdtab'[f] # c /\ c # None
    BY <1>1, EpollAssumption DEF IsOpen
  <2>2. PICK s \in Servers :
          /\ at[c] = s
          /\ \/ RegisterFails(s) \/ EarlyClose(s) \/ FinishConn(s)
             \/ f \in Expired(s)
    BY <1>1, <2>1, Closers
  <2>3. f \in Expired(s)
    BY <1>1, <2>2 DEF RegisterFails, EarlyClose, FinishConn, Goto
  <2>4. deadlines[s][f] = -1 /\ IdleTimeout <= age[c] - 1
    BY <1>1, <2>1, <2>3, EpollAssumption DEF IInv, TypeOK, WatchInv, Expired
  <2>5. IdleTimeout \in Int
    BY EpollAssumption
  <2>6. age[c] \in 0..(IdleTimeout + 1)
    BY <1>1 DEF IInv, TypeOK
  <2> QED
    BY <2>4, <2>5, <2>6
<1>2. IInv /\ [Next]_vars =>
        [\A c \in Conns :
           IsOpen(c) /\ ~IsOpen(c)' /\ pc[at[c]] = "dispatch"
             => age[c] > IdleTimeout]_vars
  BY <1>1
<1> QED
  BY <1>2, Invariance, PTL DEF Spec, SweepsOnlyIdle

--------------------------------------------------------------------------------
(***************************************************************************)
(* EpollServer implements ConnLifecycle.                                   *)
(***************************************************************************)

LEMMA StatusUnchanged ==
  ASSUME UNCHANGED <<fdtab, phase>> PROVE Status' = Status
  BY DEF Status, Accepted, IsOpen

(* Closing the descriptors in F closes the connections they name.          *)
LEMMA StatusClose ==
  ASSUME IInv, NEW F \in SUBSET Fds, Close(F), UNCHANGED phase
  PROVE  Status' = [c \in Conns |-> IF \E f \in F : fdtab[f] = c
                                     THEN "closed" ELSE Status[c]]
<1>1. ASSUME NEW c \in Conns, \E f \in F : fdtab[f] = c
      PROVE  Status'[c] = "closed"
  <2>1. ~IsOpen(c)'
    BY <1>1, EpollAssumption DEF IInv, TypeOK, FdsInv, Close, IsOpen
  <2>2. Accepted(c)'
    BY <1>1, EpollAssumption DEF IInv, FdsInv, Accepted
  <2> QED
    BY <2>1, <2>2 DEF Status
<1>2. ASSUME NEW c \in Conns, ~\E f \in F : fdtab[f] = c
      PROVE  Status'[c] = Status[c]
  <2>1. IsOpen(c)' <=> IsOpen(c)
    BY <1>2, EpollAssumption DEF Close, IsOpen
  <2> QED
    BY <2>1 DEF Status, Accepted
<1> QED
  BY <1>1, <1>2 DEF Status

LEMMA LifecycleStep ==
  ASSUME SoleLoop, IInv, [Next]_vars
  PROVE  [Lifecycle!Next \/ DropUnseen]_(Lifecycle!lifecycleVars)
<1> USE DEF clientVars, loopVars, historyVars
<1>1. ASSUME NEW s \in Servers, NEW c \in Conns, NEW f \in Fds, Accept4(s, c, f)
      PROVE  Lifecycle!Accept(c)
  <2>1. Status[c] = "new"
    BY <1>1 DEF Status, Accepted, Accept4, Waiting
  <2>2. ASSUME NEW d \in Conns
        PROVE  Status'[d] = IF d = c THEN "open" ELSE Status[d]
    BY <1>1, <2>2, EpollAssumption
       DEF IInv, TypeOK, Status, Accepted, IsOpen, Accept4
  <2>3. Status' = [Status EXCEPT ![c] = "open"]
    BY <2>2 DEF Status
  <2> QED
    BY <1>1, <2>1, <2>3 DEF Lifecycle!Accept, Accept4
<1>2. ASSUME NEW s \in Servers, NEW f \in Fds, TakeClient(s, f)
      PROVE  \E c \in Conns : Lifecycle!FireConnect(c)
  <2>1. /\ fdtab[f] \in Conns
        /\ stage[fdtab[f]] = "none"
        /\ phase[fdtab[f]] = "accepted"
    BY <1>2 DEF IInv, TypeOK, FdsInv, BatchInv, WatchInv, TakeClient
  <2>2. Status[fdtab[f]] = "open"
    BY <2>1 DEF Status, Accepted, IsOpen
  <2>3. stage' = [stage EXCEPT ![fdtab[f]] = "connect"]
    BY <1>2, <2>1 DEF IInv, TypeOK, TakeClient, Fire
  <2>4. Status' = Status
    BY <1>2, StatusUnchanged DEF TakeClient
  <2> QED
    BY <2>1, <2>2, <2>3, <2>4 DEF Lifecycle!FireConnect
<1>3. ASSUME NEW s \in Servers, DataCallback(s)
      PROVE  \E c \in Conns : Lifecycle!FireData(c)
  <2>1. /\ serving[s] \in Conns
        /\ stage[serving[s]] = "connect"
        /\ phase[serving[s]] = "accepted"
        /\ cur[s] \in Fds
        /\ fdtab[cur[s]] = serving[s]
    BY <1>3 DEF IInv, TypeOK, Holding, HandleInv, Handling, DataCallback, Goto
  <2>2. Status[serving[s]] = "open"
    BY <2>1 DEF Status, Accepted, IsOpen
  <2>3. stage' = [stage EXCEPT ![serving[s]] = "data"]
    BY <1>3, <2>1 DEF IInv, TypeOK, DataCallback, Fire
  <2>4. Status' = Status
    BY <1>3, StatusUnchanged DEF DataCallback
  <2> QED
    BY <2>1, <2>2, <2>3, <2>4 DEF Lifecycle!FireData
<1>4. ASSUME NEW s \in Servers, EarlyClose(s)
      PROVE  \E c \in Conns : Lifecycle!CloseInData(c)
  <2>1. /\ serving[s] \in Conns
        /\ stage[serving[s]] = "data"
        /\ phase[serving[s]] = "accepted"
        /\ cur[s] \in Fds
        /\ fdtab[cur[s]] = serving[s]
    BY <1>4 DEF IInv, TypeOK, Holding, HandleInv, Handling, EarlyClose, Goto
  <2>2. Status[serving[s]] = "open"
    BY <2>1 DEF Status, Accepted, IsOpen
  <2>3. Status' = [Status EXCEPT ![serving[s]] = "closed"]
    <3>1. Status' = [c \in Conns |-> IF \E f \in {cur[s]} : fdtab[f] = c
                                      THEN "closed" ELSE Status[c]]
      BY <1>4, <2>1, StatusClose DEF EarlyClose
    <3> QED
      BY <2>1, <3>1 DEF Status
  <2> QED
    BY <1>4, <2>1, <2>2, <2>3 DEF Lifecycle!CloseInData, EarlyClose
<1>5. ASSUME NEW s \in Servers, FinishConn(s)
      PROVE  \E c \in Conns : Lifecycle!FireDisconnect(c)
  <2>1. /\ serving[s] \in Conns
        /\ phase[serving[s]] = "accepted"
        /\ cur[s] \in Fds
        /\ fdtab[cur[s]] = IF early[s] THEN None ELSE serving[s]
        /\ stage[serving[s]] \in {"connect", "data"}
        /\ early[s] => stage[serving[s]] = "data"
    BY <1>5 DEF IInv, TypeOK, Holding, HandleInv, Handling, FinishConn, Goto
  <2>2. Status[serving[s]] \in {"open", "closed"}
    BY <2>1 DEF Status, Accepted
  <2>3. ~early[s] => Status[serving[s]] = "open"
    BY <2>1 DEF Status, Accepted, IsOpen
  <2>4. Status' = [c \in Conns |-> IF \E f \in {cur[s]} : fdtab[f] = c
                                    THEN "closed" ELSE Status[c]]
    BY <1>5, <2>1, StatusClose DEF FinishConn
  <2>5. early[s] => Status[serving[s]] = "closed"
    <3>1. early[s] => ~IsOpen(serving[s])
      <4> SUFFICES ASSUME early[s], NEW f \in Fds, fdtab[f] = serving[s]
                   PROVE  FALSE
        BY DEF IsOpen
      <4>1. at[serving[s]] = s /\ serving[s] # None
        BY <1>5, <2>1, EpollAssumption
           DEF IInv, HandleInv, Handling, FinishConn, Goto
      <4>2. f \in interest[s]
        BY <4>1 DEF IInv, HeldInv, InHand
      <4> QED
        BY <2>1, <4>2 DEF IInv, WatchInv
    <3> QED
      BY <2>1, <3>1 DEF Status, Accepted
  <2>6. Status' = [Status EXCEPT ![serving[s]] = "closed"]
    BY <2>1, <2>4, <2>5, EpollAssumption DEF Status
  <2>7. stage' = [stage EXCEPT ![serving[s]] = "disconnect"]
    BY <1>5, <2>1 DEF IInv, TypeOK, FinishConn, Fire
  <2> QED
    BY <2>1, <2>3, <2>5, <2>6, <2>7 DEF Lifecycle!FireDisconnect
<1>6. ASSUME NEW s \in Servers, RegisterFails(s)
      PROVE  DropUnseen
  <2>1. /\ cur[s] \in Fds
        /\ fdtab[cur[s]] \in Conns
        /\ stage[fdtab[cur[s]]] = "none"
        /\ at[fdtab[cur[s]]] = s
        /\ pc[s] = "register"
        /\ IsOpen(fdtab[cur[s]])
    BY <1>6
       DEF IInv, TypeOK, Holding, FdsInv, RegisterInv, RegisterFails, Goto, IsOpen
  <2>3. Status' = [c \in Conns |-> IF \E f \in {cur[s]} : fdtab[f] = c
                                    THEN "closed" ELSE Status[c]]
    BY <1>6, <2>1, StatusClose DEF RegisterFails
  <2>4. Status' = [c \in Conns |-> IF c \in {fdtab[cur[s]]}
                                    THEN "closed" ELSE Status[c]]
    BY <2>3
  <2> DEFINE S == {fdtab[cur[s]]}
  <2>5. \A c \in S :
          /\ IsOpen(c) /\ stage[c] = "none"
          /\ pc[at[c]] = "register" /\ fdtab[cur[at[c]]] = c
    BY <2>1
  <2>6. S \in SUBSET Conns /\ UNCHANGED stage
    BY <1>6, <2>1 DEF RegisterFails
  <2> HIDE DEF S
  <2> QED
    BY <2>4, <2>5, <2>6 DEF DropUnseen, S
<1>7. ASSUME NEW s \in Servers, Sweep(s)
      PROVE  DropUnseen
  <2> DEFINE S == {c \in Conns : \E f \in Expired(s) : fdtab[f] = c}
  <2>1. ASSUME NEW c \in S
        PROVE  IsOpen(c) /\ stage[c] = "none" /\ age[c] > IdleTimeout
    <3>1. PICK f \in Fds : deadlines[s][f] = -1 /\ fdtab[f] = c
      BY DEF Expired
    <3>2. stage[c] = "none" /\ IsOpen(c)
      BY <3>1, EpollAssumption DEF IInv, WatchInv, FdsInv, IsOpen
    <3>3. IdleTimeout <= age[c] - 1
      BY <3>1, EpollAssumption DEF IInv, TypeOK, WatchInv
    <3>4. age[c] \in 0..(IdleTimeout + 1) /\ IdleTimeout \in Int
      BY EpollAssumption DEF IInv, TypeOK
    <3> QED
      BY <3>2, <3>3, <3>4
  <2>2. Expired(s) \in SUBSET Fds
    BY DEF Expired
  <2>3. Status' = [c \in Conns |-> IF \E f \in Expired(s) : fdtab[f] = c
                                    THEN "closed" ELSE Status[c]]
    BY <1>7, <2>2, StatusClose DEF Sweep
  <2>4. Status' = [c \in Conns |-> IF c \in S THEN "closed" ELSE Status[c]]
    BY <2>3
  <2> QED
    BY <1>7, <2>1, <2>4 DEF DropUnseen, Sweep
<1>8. ASSUME UNCHANGED <<fdtab, phase, stage>>
      PROVE  UNCHANGED Lifecycle!lifecycleVars
  BY <1>8, StatusUnchanged DEF Lifecycle!lifecycleVars
<1>9. ASSUME NEW s \in Servers, Loop(s)
      PROVE  \/ \E c \in Conns, f \in Fds : Accept4(s, c, f)
             \/ \E f \in Fds : TakeClient(s, f)
             \/ DataCallback(s) \/ EarlyClose(s) \/ FinishConn(s)
             \/ RegisterFails(s) \/ Sweep(s)
             \/ UNCHANGED <<fdtab, phase, stage>>
  BY <1>9
     DEF Loop, Start, StartFails, EpollWait, EpollWaitFails, TakeListener,
         AcceptStops, Register, ReadBytes, ReadNothing, NoSweep
<1>10. ASSUME NEW c \in Conns, NEW s \in Servers, ClientConnect(c, s)
       PROVE  UNCHANGED Lifecycle!lifecycleVars
  <2>1. ASSUME NEW d \in Conns
        PROVE  Accepted(d)' <=> Accepted(d)
    BY <1>10, <2>1 DEF IInv, TypeOK, Accepted, ClientConnect
  <2>2. Status' = Status
    BY <1>10, <2>1 DEF Status, IsOpen, ClientConnect
  <2> QED
    BY <1>10, <2>2 DEF Lifecycle!lifecycleVars, ClientConnect
<1>11. CASE \/ \E c \in Conns : ClientSend(c) \/ ClientClose(c)
            \/ Tick \/ AllReturned \/ UNCHANGED vars
  BY <1>8, <1>11 DEF ClientSend, ClientClose, Tick, AllReturned, vars
<1> QED
  BY <1>1, <1>2, <1>3, <1>4, <1>5, <1>6, <1>7, <1>8, <1>9, <1>10, <1>11
     DEF Next, Lifecycle!Next

(* Whatever the callbacks see of a connection ConnLifecycle allows, but    *)
(* for connections dropped before any callback has been fired.             *)
THEOREM ImplementsLifecycle == ASSUME SoleLoop PROVE Spec => KeepsLifecycle
<1>1. Init => Lifecycle!Init
  BY DEF Init, Lifecycle!Init, Status, Accepted
<1>2. IInv /\ [Next]_vars =>
        [Lifecycle!Next \/ DropUnseen]_(Lifecycle!lifecycleVars)
  BY LifecycleStep
<1> QED
  BY <1>1, <1>2, Invariance, PTL DEF Spec, KeepsLifecycle

================================================================================
