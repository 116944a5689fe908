------------------------------ MODULE SRPIDPool ------------------------------
(***************************************************************************)
(* What SRP-ID allocation promises the goroutines that send requests on a  *)
(* PCEP session (pkg/server/session.go, allocateSRPID): a granted ID is    *)
(* one that no remembered intent uses, and a request is refused only if    *)
(* every ID was in use when its scan began.  The abstract pool knows       *)
(* nothing of the mutex, of the head or of the scan that finds an ID.      *)
(***************************************************************************)
EXTENDS Integers

CONSTANTS Callers,    \* goroutines that allocate
          IDs         \* the SRP-IDs that are not reserved

VARIABLES used,       \* SRP-IDs with an intent
          phase,      \* what each caller's allocation has come to
          held        \* the ID a caller was granted, 0 for none

poolVars == <<used, phase, held>>

PoolInit ==
    /\ used = {}
    /\ phase = [c \in Callers |-> "idle"]
    /\ held = [c \in Callers |-> 0]

Request(c) ==
    /\ phase[c] = "idle"
    /\ phase' = [phase EXCEPT ![c] = IF used = IDs THEN "sawFull" ELSE "pending"]
    /\ UNCHANGED <<used, held>>

Grant(c, id) ==
    /\ phase[c] \in {"pending", "sawFull"}
    /\ id \notin used
    /\ used' = used \cup {id}
    /\ phase' = [phase EXCEPT ![c] = "granted"]
    /\ held' = [held EXCEPT ![c] = id]

Refuse(c) ==
    /\ phase[c] = "sawFull"
    /\ phase' = [phase EXCEPT ![c] = "refused"]
    /\ UNCHANGED <<used, held>>

(* The caller is done; an ID it sent stays used until it is released.      *)
Return(c) ==
    /\ phase[c] \in {"granted", "refused"}
    /\ phase' = [phase EXCEPT ![c] = "idle"]
    /\ held' = [held EXCEPT ![c] = 0]
    /\ UNCHANGED used

(* A caller whose message could not be sent gives its own ID back.         *)
GiveBack(c) ==
    /\ phase[c] = "granted"
    /\ used' = used \ {held[c]}
    /\ phase' = [phase EXCEPT ![c] = "idle"]
    /\ held' = [held EXCEPT ![c] = 0]

Release(S) ==
    /\ used' = used \ S
    /\ UNCHANGED <<phase, held>>

PoolNext ==
    \/ \E c \in Callers :
          \/ Request(c) \/ Refuse(c) \/ Return(c) \/ GiveBack(c)
          \/ \E id \in IDs : Grant(c, id)
    \/ \E S \in SUBSET IDs : Release(S)

PoolSpec == PoolInit /\ [][PoolNext]_poolVars
==============================================================================
