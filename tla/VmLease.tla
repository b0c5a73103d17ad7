------------------------------- MODULE VmLease -------------------------------
(***************************************************************************)
(* What a manager promises the vibeboxes of one project: the guest is      *)
(* leased to a set of holders, and the manager asks it to stop, or kills   *)
(* it, only while nobody holds it.  A guest may always end by itself.      *)
(***************************************************************************)
CONSTANT Conn

VARIABLES
  holders,   \* the connections that hold the lease
  phase      \* "up", "stopping" (the manager asked), "down" or "killed"

vars == <<holders, phase>>

Init == holders = {} /\ phase = "up"

Running == phase \in {"up", "stopping"}

\* A new holder withdraws the request to stop.
Acquire(c) ==
  /\ Running
  /\ c \notin holders
  /\ holders' = holders \cup {c}
  /\ phase' = "up"

Release(c) ==
  /\ Running
  /\ c \in holders
  /\ holders' = holders \ {c}
  /\ UNCHANGED phase

AskToStop ==
  /\ phase = "up" /\ holders = {}
  /\ phase' = "stopping"
  /\ UNCHANGED holders

Kill ==
  /\ Running /\ holders = {}
  /\ phase' = "killed"
  /\ UNCHANGED holders

\* The guest has ended: every lease is over.
End ==
  /\ Running
  /\ phase' = "down"
  /\ holders' = {}

Next ==
  \/ \E c \in Conn : Acquire(c) \/ Release(c)
  \/ AskToStop \/ Kill \/ End

Spec == Init /\ [][Next]_vars

=============================================================================
