--------------------------- MODULE MasterIdentity ---------------------------
(***************************************************************************)
(* What an object promises about the address it is known under, or the      *)
(* password it is reached with, with no operator, cache or failure in       *)
(* sight: as long as it exists it chooses one, publishes that one and no    *)
(* other, and every member that joins follows it for good.  For an          *)
(* OnionBalancedService the members are its backends (OnionBalancedService),*)
(* for a Tor its config map (Reconcilers).                                  *)
(***************************************************************************)
CONSTANTS Members, Addresses, NoAddress, NoSecret

VARIABLES
    alive,      \* the object exists
    address,    \* the address whose keys, or the password that, is stored
    published,  \* the address the object is known under
    master      \* per member: the address it follows

vars == <<alive, address, published, master>>

Init ==
    /\ alive = TRUE
    /\ address \in Addresses \cup {NoAddress, NoSecret}
    /\ published = NoAddress
    /\ master = [m \in Members |-> NoAddress]

Choose ==
    /\ alive /\ address = NoSecret
    /\ address' \in Addresses
    /\ UNCHANGED <<alive, published, master>>

Publish ==
    /\ alive /\ address \in Addresses /\ published = NoAddress
    /\ published' = address
    /\ UNCHANGED <<alive, address, master>>

Join(m) ==
    /\ alive /\ address \in Addresses /\ master[m] = NoAddress
    /\ master' = [master EXCEPT ![m] = address]
    /\ UNCHANGED <<alive, address, published>>

Delete ==
    /\ alive
    /\ alive' = FALSE
    /\ UNCHANGED <<address, published, master>>

\* Nothing is promised about what is left of a deleted object, but it
\* does not come back and is not published anew.
Gone ==
    /\ ~alive /\ ~alive'
    /\ UNCHANGED published

Next == Choose \/ Publish \/ (\E m \in Members : Join(m)) \/ Delete \/ Gone

Spec == Init /\ [][Next]_vars
=============================================================================
