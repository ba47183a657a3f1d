------------------------------ MODULE SingleUse ------------------------------
(***************************************************************************)
(* What a pair ticket promises: the token under it reaches one holder at   *)
(* most, and nobody once the ticket has been withdrawn.  The holder may be *)
(* handed it again.                                                        *)
(***************************************************************************)
CONSTANTS Ticket, Holder
VARIABLES open, issued, holders
vars == <<open, issued, holders>>

Init == /\ open = {} /\ issued = {}
        /\ holders = [t \in Ticket |-> {}]

Issue(t) == /\ t \notin issued
            /\ issued' = issued \cup {t}
            /\ open' = open \cup {t}
            /\ UNCHANGED holders

Withdraw(S) == /\ open' = open \ S
               /\ UNCHANGED <<issued, holders>>

\* The ticket ends with the hand-over.
Give(t, h) == /\ t \in open
              /\ open' = open \ {t}
              /\ holders' = [holders EXCEPT ![t] = {h}]
              /\ UNCHANGED issued

Next == \/ \E t \in Ticket : Issue(t)
        \/ \E S \in SUBSET open : Withdraw(S)
        \/ \E t \in open, h \in Holder : Give(t, h)

Spec == Init /\ [][Next]_vars
=============================================================================
