-------------------------- MODULE TransferContract --------------------------
(***************************************************************************)
(* What the transfer engine promises about one transfer, without saying    *)
(* how: the points are held, and then either delivered, which the partner  *)
(* has credited, or returned, which the partner has not credited and never *)
(* will.  The partner credits only while the points are held.              *)
(***************************************************************************)
CONSTANT Transfers

VARIABLES
    funds,      \* where the source points of each transfer are
    credited    \* whether the partner credited the member

Init ==
    /\ funds = [t \in Transfers |-> "with_user"]
    /\ credited = [t \in Transfers |-> FALSE]

Move(t, from, to) ==
    /\ funds[t] = from
    /\ funds' = [funds EXCEPT ![t] = to]
    /\ UNCHANGED credited

Hold(t)    == Move(t, "with_user", "held")
Deliver(t) == credited[t] /\ Move(t, "held", "delivered")
Return(t)  == ~credited[t] /\ Move(t, "held", "returned")

Credit(t) ==
    /\ funds[t] = "held" /\ ~credited[t]
    /\ credited' = [credited EXCEPT ![t] = TRUE]
    /\ UNCHANGED funds

Next == \E t \in Transfers : Hold(t) \/ Deliver(t) \/ Return(t) \/ Credit(t)

Spec == Init /\ [][Next]_<<funds, credited>>
=============================================================================
