------------------------------ MODULE AddressBook ------------------------------
(***************************************************************************)
(* What the administration of users promises the worker, which resolves a  *)
(* recipient to one user: an address has at most one owner, and passes     *)
(* from one user to another only through a state in which nobody owns it.  *)
(***************************************************************************)
CONSTANTS UserId, Address, Nobody

VARIABLE owner

Init == owner \in [Address -> UserId \cup {Nobody}]

\* A user gets exactly the addresses in S, all of them its own or unowned;
\* with S empty the user is removed.
Own(u, S) ==
  /\ \A a \in S : owner[a] \in {u, Nobody}
  /\ owner' = [a \in Address |-> IF a \in S THEN u
                                 ELSE IF owner[a] = u THEN Nobody ELSE owner[a]]

Next == \E u \in UserId, S \in SUBSET Address : Own(u, S)

Spec == Init /\ [][Next]_owner

===============================================================================
