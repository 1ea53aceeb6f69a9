----------------------------- MODULE SlotLease -----------------------------
(***************************************************************************)
(* What the infra provider promises of its slots.  A machine request has   *)
(* the lease of one slot at most, once; its machine runs on that slot and  *)
(* no other, and leaves files there only.  When the request is over the    *)
(* slot has neither a machine nor files on it: it is given back, or it is  *)
(* lost, which no request gets over, but no request is disturbed by.       *)
(*                                                                         *)
(* Provision implements this specification (ProvisionRefinement).          *)
(***************************************************************************)
EXTENDS Naturals

CONSTANTS
    Requests,  \* machine requests
    Slots      \* the slots, numbered from 1

VARIABLES
    lease,  \* request -> the slot it has, 0 for none
    over,   \* the requests that are over
    runs,   \* request -> the slot its machine runs on, 0 when it does not run
    files   \* slots with files of a machine

leaseVars == <<lease, over, runs, files>>

LeaseInit ==
    /\ lease = [r \in Requests |-> 0] /\ over = {}
    /\ runs = [r \in Requests |-> 0] /\ files = {}

Leased(s) == \E r \in Requests : lease[r] = s

-----------------------------------------------------------------------------

\* A request gets the first free slot.
Grant(r, s) ==
    /\ lease[r] = 0 /\ r \notin over
    /\ ~Leased(s) /\ \A t \in Slots : t < s => Leased(t)
    /\ lease' = [lease EXCEPT ![r] = s]
    /\ UNCHANGED <<over, runs, files>>

Run(r) ==
    /\ lease[r] # 0 /\ r \notin over
    /\ runs' = [runs EXCEPT ![r] = lease[r]]
    /\ files' = files \union {lease[r]}
    /\ UNCHANGED <<lease, over>>

\* Machines may stop, with the provider or in a reset that fails, and their files stay ...
Halt(S) ==
    /\ runs' = [r \in Requests |-> IF r \in S THEN 0 ELSE runs[r]]
    /\ UNCHANGED <<lease, over, files>>

\* ... or be reset.
Wipe(r) ==
    /\ lease[r] # 0
    /\ runs' = [runs EXCEPT ![r] = 0]
    /\ files' = files \ {lease[r]}
    /\ UNCHANGED <<lease, over>>

Clean(r) == runs[r] = 0 /\ lease[r] \notin files

GiveBack(r) ==
    /\ lease[r] # 0 /\ r \notin over /\ Clean(r)
    /\ lease' = [lease EXCEPT ![r] = 0]
    /\ over' = over \union {r}
    /\ UNCHANGED <<runs, files>>

\* A request may be over and its slot stay leased, to nobody's use ever: but it is clean.
Lose(r) ==
    /\ lease[r] # 0 /\ r \notin over /\ Clean(r)
    /\ over' = over \union {r}
    /\ UNCHANGED <<lease, runs, files>>

\* A request that has no slot is withdrawn.
Withdraw(r) ==
    /\ lease[r] = 0
    /\ over' = over \union {r}
    /\ UNCHANGED <<lease, runs, files>>

LeaseNext ==
    \/ \E r \in Requests :
          \/ \E s \in Slots : Grant(r, s)
          \/ Run(r) \/ Wipe(r) \/ GiveBack(r) \/ Lose(r) \/ Withdraw(r)
    \/ \E S \in SUBSET Requests : Halt(S)

LeaseSpec == LeaseInit /\ [][LeaseNext]_leaseVars

\* A slot that is free carries nothing over to the next machine that gets it, and one that is
\* lost has nothing on it either.
FreeIsClean ==
    /\ \A s \in Slots : ~Leased(s) => s \notin files /\ \A r \in Requests : runs[r] # s
    /\ \A r \in over : runs[r] = 0 /\ lease[r] \notin files
=============================================================================
