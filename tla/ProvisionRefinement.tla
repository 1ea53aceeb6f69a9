------------------------ MODULE ProvisionRefinement ------------------------
(***************************************************************************)
(* Provision implements SlotLease: the MachineTask of a request is its     *)
(* lease, and the state directories are the files.  What the workers and   *)
(* the MachineController know, remember and are about to do is hidden.     *)
(***************************************************************************)
EXTENDS Provision

Lease == INSTANCE SlotLease WITH
    lease <- [r \in Requests |-> task[r].slot],
    over <- {r \in Requests : request[r] = "gone"},
    runs <- running,
    files <- dirs

\* MachineID: "slots are always unique".  However old the list is that the MachineController
\* works on, and whatever fails, times out and is repeated on the way: a slot is the first that
\* was free, its machine runs and writes only while it has the slot, nobody else's files are
\* removed, and the slot is free again only when the machine and its files are gone.
ImplementsLease == Lease!LeaseSpec
=============================================================================
