------------------------------ MODULE ConnLife ------------------------------
(***************************************************************************)
(* What the network layer promises the handlers of CLogic, for every        *)
(* descriptor: one handler at a time, only on an open connection, and one   *)
(* OnClientDisconnect for every connection that was closed.  It does not    *)
(* promise that this call comes before the descriptor is accepted again.    *)
(***************************************************************************)
EXTENDS Naturals

CONSTANT Fd

VARIABLES conn, cleanup
vars == <<conn, cleanup>>

Init == conn = [c \in Fd |-> "closed"] /\ cleanup = [c \in Fd |-> 0]

Move(c, from, to) == conn[c] = from /\ conn' = [conn EXCEPT ![c] = to]

Accept(c) == Move(c, "closed", "idle") /\ UNCHANGED cleanup
Begin(c) == Move(c, "idle", "handling") /\ UNCHANGED cleanup
Return(c) == Move(c, "handling", "idle") /\ UNCHANGED cleanup
Disconnect(c) ==
  Move(c, "idle", "closed") /\ cleanup' = [cleanup EXCEPT ![c] = @ + 1]
OnClientDisconnect(c) ==
  cleanup[c] > 0 /\ cleanup' = [cleanup EXCEPT ![c] = @ - 1] /\ UNCHANGED conn

Next ==
  \E c \in Fd :
    Accept(c) \/ Begin(c) \/ Return(c) \/ Disconnect(c) \/ OnClientDisconnect(c)

Spec == Init /\ [][Next]_vars

=============================================================================
