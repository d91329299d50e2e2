-------------------------- MODULE ConnectionService --------------------------
(***************************************************************************)
(* What sisterd promises to a client connection, with no threads, no queue *)
(* and no descriptors: a connection taken from the listener is either      *)
(* refused or admitted, an admitted one is always served, and each is      *)
(* closed by exactly one of the two.                                       *)
(***************************************************************************)
CONSTANT Conns

VARIABLE phase      \* what each connection has been promised so far

Init == phase = [c \in Conns |-> "waiting"]

Move(c, from, to) ==
    /\ phase[c] = from
    /\ phase' = [phase EXCEPT ![c] = to]

\* The listener hands the connection over.
Take(c) == Move(c, "waiting", "held")

\* A place in the queue is a promise to run the handler.
Admit(c) == Move(c, "held", "admitted")

\* The connection is closed without having been handled.
Refuse(c) == Move(c, "held", "refused")

\* The handler ran and the connection was closed.
Serve(c) == Move(c, "admitted", "served")

Next == \E c \in Conns : Take(c) \/ Admit(c) \/ Refuse(c) \/ Serve(c)

Spec == Init /\ [][Next]_phase

(***************************************************************************)
(* The promise with its deadlines: nothing that was taken is left open.    *)
(***************************************************************************)
FairSpec ==
    /\ Spec
    /\ \A c \in Conns : WF_phase(Admit(c) \/ Refuse(c)) /\ WF_phase(Serve(c))

=============================================================================
