----------------------------- MODULE MCKademlia -----------------------------
(***************************************************************************)
(* Kademlia as the program drives it: the nodes of a network are spawned   *)
(* one after the other (startNetwork, the scenarios), a late one joins the *)
(* formed network, and clients come once the network is formed.            *)
(***************************************************************************)
EXTENDS Kademlia

CONSTANTS
  Late,                           \* nodes that join while clients are served
  MaxFaults                       \* bound on crashes, losses, late joins, ticks and republishes together

Early == Node \ Late

Formed ==
  \A n \in Early : life[n] \in {"member", "gone"} /\ th[<<n, "refresh">>].kind = "idle"

Joins(n) == life[n] = "off" /\ life'[n] = "joining"
Crashes(n) == life[n] = "member" /\ life'[n] = "gone"

\* startNetwork spawns in order, each node when the one before has joined.
InOrder == \A n \in Early : Joins(n) => \A m \in Early : m < n => life[m] = "member"

ServedWhenFormed ==
  \/ Formed
  \/ /\ UNCHANGED <<stored, finds, now, losses, republished>>
     /\ \A n \in Node : ~Crashes(n)
     /\ \A n \in Late : ~Joins(n)

Faults ==
  losses + republished + now + Cardinality({n \in Node : life[n] = "gone"})
    + Cardinality({n \in Late : life[n] # "off"})

DrivenNext == Next /\ InOrder /\ ServedWhenFormed /\ Faults' <= MaxFaults

DrivenSpec == Init /\ [][DrivenNext]_vars /\ Fairness
=============================================================================
