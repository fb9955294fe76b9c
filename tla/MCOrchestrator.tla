--------------------------- MODULE MCOrchestrator ---------------------------
(***************************************************************************)
(* Two of the requests of the menu, one after the other or overlapping.    *)
(***************************************************************************)
EXTENDS Orchestrator

Menu ==
  {Request("spawn", None, "", 0), Request("spawnAt", 1, "", 0),
   Request("start", None, "chord", 2), Request("start", None, "", 1),
   Request("config", None, "chord", 0), Request("reset", None, "", 0),
   Request("partition", None, "", 0), Request("bootstrap", None, "", 3),
   Request("benchmark", None, "", 2), Request("churn", None, "", 2)}
    \cup {Request("remove", a, "", 0) : a \in 1 .. 2}

\* The clients are interchangeable.
Perms == Permutations(Client)
=============================================================================
