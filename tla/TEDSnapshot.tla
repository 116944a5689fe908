----------------------------- MODULE TEDSnapshot -----------------------------
(***************************************************************************)
(* What the readers of Server.TED() rely on (pkg/server/server.go): every  *)
(* snapshot is a state the BGP-LS table has been in, and a later snapshot  *)
(* is never older than an earlier one.  A TED is named by the number of    *)
(* changes the table had seen when it was read.                            *)
(***************************************************************************)
EXTENDS Integers

VARIABLES rib,   \* number of changes of GoBGP's BGP-LS table
          ted    \* the table version Server.ted was built from

Init == rib = 0 /\ ted = 0

TableChanges == rib' = rib + 1 /\ UNCHANGED ted

Refresh == ted' \in ted .. rib /\ UNCHANGED rib

Next == TableChanges \/ Refresh

Spec == Init /\ [][Next]_<<rib, ted>>
==============================================================================
