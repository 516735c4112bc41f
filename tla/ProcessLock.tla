---------------------------- MODULE ProcessLock ----------------------------
(***************************************************************************)
(* What mutex_lock and mutex_unlock of src/src/scripts/create_ap promise   *)
(* (line 172: "recursive mutex lock for all create_ap processes"): one     *)
(* lock, /tmp/create_ap.all.lock, that a process may enter again while it  *)
(* holds it, and that other processes cannot enter meanwhile.              *)
(*                                                                         *)
(* holder is the process whose open file description has the flock;        *)
(* depth[p] is the number of times p is inside.  The kernel drops the      *)
(* flock when the last descriptor of that description is closed, whatever  *)
(* the depth is: Close.                                                    *)
(***************************************************************************)
EXTENDS Naturals

CONSTANTS
    Process,     \* the create_ap processes
    NoProcess    \* the holder of a free lock

ASSUME NoProcessAssumption == NoProcess \notin Process

VARIABLES
    holder,
    depth

lockVars == <<holder, depth>>

LockTypeOK ==
    /\ holder \in Process \cup {NoProcess}
    /\ depth \in [Process -> Nat]

LockInit ==
    /\ holder = NoProcess
    /\ depth = [p \in Process |-> 0]

(* Line 189: flock only when the counter is 0; a description that already  *)
(* has the flock gets it again at once.                                    *)
Enter(p) ==
    /\ depth[p] = 0 => holder \in {NoProcess, p}
    /\ holder' = p
    /\ depth' = [depth EXCEPT ![p] = @ + 1]

(* Lines 215-218: the counter never goes below 0; flock -u when it gets    *)
(* there.                                                                  *)
Leave(p) ==
    /\ depth[p] > 0
    /\ holder' = IF depth[p] = 1 THEN NoProcess ELSE holder
    /\ depth' = [depth EXCEPT ![p] = @ - 1]

(* The last descriptor of p's description of the lock file is closed.      *)
Close(p) ==
    /\ holder = p
    /\ holder' = NoProcess
    /\ depth' = [depth EXCEPT ![p] = 0]

LockNext == \E p \in Process : Enter(p) \/ Leave(p) \/ Close(p)

LockSpec == LockInit /\ [][LockNext]_lockVars

-----------------------------------------------------------------------------
(* A process that is inside holds the lock, so no two are inside at once.  *)
Exclusive == \A p \in Process : depth[p] > 0 => holder = p

=============================================================================
