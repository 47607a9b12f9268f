---------------------------- MODULE AddressBook ----------------------------
(***************************************************************************)
(* What DB-first allocation promises: an address in use belongs to one key *)
(* name, and passes to another name only after it was given back.  Who     *)
(* uses an address is where the interface routes it, for the addresses the *)
(* backend counts as allocated (see PeerAllocation!Book).                  *)
(***************************************************************************)
CONSTANTS Names, IPs, None

VARIABLE user   \* the name that uses each address, or None

Init == user = [i \in IPs |-> None]

(* A creation is confirmed.                                                *)
Grant(i, n) == user[i] = None /\ user' = [user EXCEPT ![i] = n]

(* The lease ends: the key is deleted, or the lease is released.           *)
GiveBack(i) == user[i] # None /\ user' = [user EXCEPT ![i] = None]

Next == \E i \in IPs : GiveBack(i) \/ \E n \in Names : Grant(i, n)

Spec == Init /\ [][Next]_user
=============================================================================
