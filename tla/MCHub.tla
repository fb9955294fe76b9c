------------------------------- MODULE MCHub -------------------------------
(***************************************************************************)
(* One client, in all interleavings with the bus, Run and Stop.  Clients   *)
(* share nothing but the hub's map.                                        *)
(***************************************************************************)
EXTENDS Hub

\* A client asks for everything or for ring states only.
MCChoices == {Type, {"ring_state"}}
=============================================================================
