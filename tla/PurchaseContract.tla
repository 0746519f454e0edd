-------------------------- MODULE PurchaseContract --------------------------
(***************************************************************************)
(* What the purchase protocol promises, with nothing of how: a purchase is *)
(* asked for at most once, is paid only after it was asked for and at most *)
(* once, and is booked in the durable progress only after it was paid, and *)
(* for good unless the operator starts the run over with another progress, *)
(* which gives up all the bookings of the run at once.  A trade bears the  *)
(* name of the purchase it was issued for, so a trade presented twice is   *)
(* paid once.  README.md ("Crash-safe purchase protocol") claims this of   *)
(* the workflow; ArenaWorkflow is shown to implement it.                   *)
(***************************************************************************)
EXTENDS Naturals

CONSTANT Keys

VARIABLES
    asked,     \* how many times each purchase was sent
    paid,      \* purchases whose trades moved credits
    booked     \* purchases whose trades the latest durable progress counts

contractVars == <<asked, paid, booked>>

ContractInit ==
    /\ asked = [k \in Keys |-> 0]
    /\ paid = {}
    /\ booked = {}

Ask(k) ==
    /\ asked[k] = 0
    /\ asked' = [asked EXCEPT ![k] = 1]
    /\ UNCHANGED <<paid, booked>>

Pay(k) ==
    /\ asked[k] = 1 /\ k \notin paid
    /\ paid' = paid \cup {k}
    /\ UNCHANGED <<asked, booked>>

Book(k) ==
    /\ k \in paid \ booked
    /\ booked' = booked \cup {k}
    /\ UNCHANGED <<asked, paid>>

\* run_round with a progress of the caller's: what is paid stays paid.
StartOver ==
    /\ booked' = {}
    /\ UNCHANGED <<asked, paid>>

ContractNext == (\E k \in Keys : Ask(k) \/ Pay(k) \/ Book(k)) \/ StartOver

ContractSpec == ContractInit /\ [][ContractNext]_contractVars
=============================================================================
