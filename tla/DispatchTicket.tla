--------------------------- MODULE DispatchTicket ---------------------------
(***************************************************************************)
(* What provider-local admission promises of a dispatch ticket, whatever    *)
(* store keeps it: a ticket is redeemed at most once, its outcome is        *)
(* decided at most once, and forgetting it never makes it usable again.     *)
(* DispatchAdmission implements this specification.                         *)
(***************************************************************************)
CONSTANTS Jtis, Terminal

VARIABLE status

Init == status = [j \in Jtis |-> "fresh"]

Redeem(j) ==
  /\ status[j] = "fresh"
  /\ status' = [status EXCEPT ![j] = "accepted"]

Settle(j, s) ==
  /\ status[j] = "accepted"
  /\ status' = [status EXCEPT ![j] = s]

\* Housekeeping drops any number of tickets that were redeemed.
Forget(S) ==
  /\ \A j \in S : status[j] # "fresh"
  /\ status' = [j \in Jtis |-> IF j \in S THEN "forgotten" ELSE status[j]]

Next ==
  \/ \E j \in Jtis : Redeem(j)
  \/ \E j \in Jtis, s \in Terminal : Settle(j, s)
  \/ \E S \in SUBSET Jtis : Forget(S)

Spec == Init /\ [][Next]_status
=============================================================================
