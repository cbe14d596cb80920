------------------------------ MODULE MCIocpOrder -------------------------------
(***************************************************************************)
(* IocpServer narrowed to a few of its behaviours, so that TLC gets as far *)
(* as the fifth connection: clients come in a fixed order and stay silent, *)
(* but for the two that reset before they are accepted; no call fails that *)
(* could succeed; and no deadline passes after the first sweep.            *)
(***************************************************************************)
EXTENDS IocpServer

CONSTANTS c1, c2, c3, c4, c5

Arrivals == <<c1, c2, c3, c4, c5>>
Resets == {c2, c4}

InTurn ==
  \A k, l \in DOMAIN Arrivals :
    k < l /\ phase'[Arrivals[l]] # "new" => phase'[Arrivals[k]] # "new"

Narrow ==
  /\ InTurn
  /\ sent' = {}
  /\ gone' \subseteq Resets
  /\ \A c \in Resets : phase'[c] # "accepted"
  /\ phase'[c2] # "new" => swept'
  /\ phase'[c3] # "new" => phase'[c2] = "dropped"
  /\ swept => \A s \in Servers, h \in Handles : deadlines'[s][h] # 0
  /\ ~\E s \in Servers : StartFails(s) \/ PostInitialFails(s) \/ PostRecvFails(s)
                           \/ ReplenishFails(s)

NarrowSpec == Init /\ [][Next /\ Narrow]_vars
================================================================================
