-------------------------------- MODULE Feed --------------------------------
(***************************************************************************)
(* What the event stream promises a reader: some of the events, those of   *)
(* the types it asked for, each at most once and in the order in which     *)
(* they were published.  Any event may be missing, a queue on its way      *)
(* having been full.                                                       *)
(***************************************************************************)
EXTENDS Naturals, Sequences

CONSTANTS Reader, Type

VARIABLES
  log,                            \* the types of the events published, in order
  interest,                       \* reader -> the types it asks for
  feed                            \* reader -> the numbers of the events it is given

Publish(t) == log' = Append(log, t) /\ UNCHANGED <<interest, feed>>

Ask(r, T) == interest' = [interest EXCEPT ![r] = T] /\ UNCHANGED <<log, feed>>

\* Event i is the reader's if it wants the type and has been given none as late.
Give(r, i) ==
  /\ log[i] \in interest[r]
  /\ \A k \in DOMAIN feed[r] : feed[r][k] < i
  /\ feed' = [feed EXCEPT ![r] = Append(@, i)]
  /\ UNCHANGED <<log, interest>>

Init == log = <<>> /\ interest = [r \in Reader |-> {}] /\ feed = [r \in Reader |-> <<>>]

Next ==
  \/ \E t \in Type : Publish(t)
  \/ \E r \in Reader, T \in SUBSET Type : Ask(r, T)
  \/ \E r \in Reader, i \in DOMAIN log : Give(r, i)

Spec == Init /\ [][Next]_<<log, interest, feed>>
=============================================================================
