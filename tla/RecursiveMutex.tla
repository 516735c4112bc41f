--------------------------- MODULE RecursiveMutex ---------------------------
(***************************************************************************)
(* mutex_lock and mutex_unlock of src/src/scripts/create_ap, lines 125-224, *)
(* command by command, with the shells that call them and the signals that *)
(* arrive meanwhile.                                                       *)
(*                                                                         *)
(* A create_ap process is a main shell and, once it serves, the background *)
(* subshell of haveged_watchdog.  Both use the same counter file           *)
(* /tmp/create_ap.$$.lock and the same open file description LOCK_FD of    *)
(* /tmp/create_ap.all.lock, so the global flock belongs to the process,    *)
(* while the flock on the counter file belongs to the descriptor that the  *)
(* call opened.  A synchronous subshell $(...) of the main shell is part   *)
(* of the main shell, which waits for it.                                  *)
(*                                                                         *)
(* A definition called a mutant is no part of the specification: it is     *)
(* what a slip in the code would make of the definition after it, and a    *)
(* run refutes it.                                                         *)
(***************************************************************************)
EXTENDS Naturals

CONSTANTS
    Process,
    NoProcess,
    MaxNest,        \* bound: sections a main shell is inside at once
    Crashable,      \* bound: the processes that kill -9 may hit
    GroupSignals    \* SIGINT reaches the subshells too: Ctrl-C in a terminal,
                    \* or create_ap.service (KillSignal=SIGINT); FALSE when
                    \* instances are stopped with --stop or kill only

ASSUME NoProcessAssumption == NoProcess \notin Process
ASSUME MaxNestAssumption == MaxNest \in Nat
ASSUME GroupSignalsAssumption == GroupSignals \in BOOLEAN

Role == {"main", "watchdog"}

Phase == {"early",    \* before line 1597: the EXIT trap is cleanup_lock
          "armed",    \* the EXIT trap is cleanup
          "serving",  \* the watchdog runs, the main shell waits for hostapd
          "cleanup",  \* in _cleanup
          "leaving",  \* at the mutex_unlock of line 832 or after it
          "gone", "killed"}

(* Where a shell is: "run" outside mutex_lock and mutex_unlock; the other  *)
(* labels name the command it executes next.                               *)
Label == {"run", "lock", "flock", "unlock", "funlock", "write", "close",
          "dead"}

VARIABLES
    phase,         \* of the process
    subst,         \* the main shell waits for $(alloc_new_iface) or
                   \* $(get_new_macaddr), and the subshell makes its calls
    pc,            \* per shell
    nest,          \* mutex sections a shell is inside
    val,           \* the local variable "counter" of the call
    counterOwner,  \* whose descriptor has the flock on the counter file
    counter,       \* content of the counter file
    holder         \* the process whose description has the global flock

vars == <<phase, subst, pc, nest, val, counterOwner, counter, holder>>

Init ==
    /\ phase = [p \in Process |-> "early"]
    /\ subst = [p \in Process |-> FALSE]
    /\ pc = [p \in Process |-> [r \in Role |-> IF r = "main" THEN "run" ELSE "dead"]]
    /\ nest = [p \in Process |-> [r \in Role |-> 0]]
    /\ val = [p \in Process |-> [r \in Role |-> 0]]
    /\ counterOwner = [p \in Process |-> "nobody"]
    /\ counter = [p \in Process |-> 0]
    /\ holder = NoProcess

-----------------------------------------------------------------------------
(* The two functions.                                                      *)

Goto(p, r, label) == pc' = [pc EXCEPT ![p][r] = label]

(* Mutant: the counter file is read without its flock (line 179).          *)
ReadCounterUnlocked(p, r) ==
    /\ pc[p][r] \in {"lock", "unlock"}
    /\ counterOwner' = [counterOwner EXCEPT ![p] = r]
    /\ val' = [val EXCEPT ![p][r] = counter[p]]
    /\ Goto(p, r, IF pc[p][r] = "lock" THEN "flock" ELSE "funlock")
    /\ UNCHANGED <<phase, subst, nest, counter, holder>>

(* Open the counter file, flock the descriptor, read the counter.  The     *)
(* flock waits for any other descriptor that has it, one of the same shell *)
(* included.                                                               *)
ReadCounter(p, r) ==
    /\ pc[p][r] \in {"lock", "unlock"}
    /\ counterOwner[p] = "nobody"
    /\ counterOwner' = [counterOwner EXCEPT ![p] = r]
    /\ val' = [val EXCEPT ![p][r] = counter[p]]
    /\ Goto(p, r, IF pc[p][r] = "lock" THEN "flock" ELSE "funlock")
    /\ UNCHANGED <<phase, subst, nest, counter, holder>>

(* Mutant: flock -n, whose failure nobody looks at (line 189).             *)
LockGlobalNoWait(p, r) ==
    /\ pc[p][r] = "flock"
    /\ holder' = IF val[p][r] = 0 /\ holder = NoProcess THEN p ELSE holder
    /\ val' = [val EXCEPT ![p][r] = @ + 1]
    /\ nest' = [nest EXCEPT ![p][r] = @ + 1]
    /\ Goto(p, r, "write")
    /\ UNCHANGED <<phase, subst, counterOwner, counter>>

(* Lock the global mutex if the counter is 0 and increase the counter.     *)
LockGlobal(p, r) ==
    /\ pc[p][r] = "flock"
    /\ val[p][r] = 0 => holder \in {NoProcess, p}
    /\ holder' = IF val[p][r] = 0 THEN p ELSE holder
    /\ val' = [val EXCEPT ![p][r] = @ + 1]
    /\ nest' = [nest EXCEPT ![p][r] = @ + 1]
    /\ Goto(p, r, "write")
    /\ UNCHANGED <<phase, subst, counterOwner, counter>>

(* Mutant: every mutex_unlock unlocks the global mutex (line 217).         *)
UnlockGlobalAlways(p, r) ==
    /\ pc[p][r] = "funlock"
    /\ holder' = IF holder = p THEN NoProcess ELSE holder
    /\ val' = [val EXCEPT ![p][r] = IF @ > 0 THEN @ - 1 ELSE 0]
    /\ nest' = [nest EXCEPT ![p][r] = @ - 1]
    /\ Goto(p, r, "write")
    /\ UNCHANGED <<phase, subst, counterOwner, counter>>

(* Decrease the counter and unlock the global mutex when it gets to 0.     *)
UnlockGlobal(p, r) ==
    /\ pc[p][r] = "funlock"
    /\ holder' = IF val[p][r] = 1 /\ holder = p THEN NoProcess ELSE holder
    /\ val' = [val EXCEPT ![p][r] = IF @ > 0 THEN @ - 1 ELSE 0]
    /\ nest' = [nest EXCEPT ![p][r] = @ - 1]
    /\ Goto(p, r, "write")
    /\ UNCHANGED <<phase, subst, counterOwner, counter>>

(* Mutant: an unlocking call does not write the counter (line 221).        *)
WriteCounterGrows(p, r) ==
    /\ pc[p][r] = "write"
    /\ counter' = IF val[p][r] > counter[p] THEN [counter EXCEPT ![p] = val[p][r]] ELSE counter
    /\ Goto(p, r, "close")
    /\ UNCHANGED <<phase, subst, nest, val, counterOwner, holder>>

WriteCounter(p, r) ==
    /\ pc[p][r] = "write"
    /\ counter' = [counter EXCEPT ![p] = val[p][r]]
    /\ Goto(p, r, "close")
    /\ UNCHANGED <<phase, subst, nest, val, counterOwner, holder>>

(* With the unlock of its outermost section a substitution ends.           *)
CloseCounter(p, r) ==
    /\ pc[p][r] = "close"
    /\ counterOwner' = [counterOwner EXCEPT ![p] = "nobody"]
    /\ val' = [val EXCEPT ![p][r] = 0]
    /\ Goto(p, r, "run")
    /\ subst' = [subst EXCEPT ![p] = @ /\ (r = "main" => nest[p]["main"] > 0)]
    /\ UNCHANGED <<phase, nest, counter, holder>>

-----------------------------------------------------------------------------
(* The callers.  Sections are bracketed; _cleanup calls mutex_lock first,  *)
(* then kills the watchdog, and its last call is the mutex_unlock of line  *)
(* 832.  has_running_instance (line 978) locks where it should unlock, so  *)
(* the number of sections _cleanup is inside may be more than one there.   *)

WatchdogDead(p) == pc[p]["watchdog"] = "dead"

(* While it sets up, a main shell locks itself (line 1695) or lets a       *)
(* substitution lock (lines 1626, 1635 and 1688).                          *)
MainLocks(p) ==
    /\ phase[p] \in {"early", "armed", "cleanup"}
    /\ phase[p] = "cleanup" => WatchdogDead(p)
    /\ pc[p]["main"] = "run"
    /\ nest[p]["main"] < MaxNest
    /\ Goto(p, "main", "lock")
    /\ \/ UNCHANGED subst
       \/ /\ phase[p] = "armed" /\ nest[p]["main"] = 0
          /\ subst' = [subst EXCEPT ![p] = TRUE]
    /\ UNCHANGED <<phase, nest, val, counterOwner, counter, holder>>

MainUnlocks(p) ==
    /\ phase[p] \in {"early", "armed", "cleanup"}
    /\ phase[p] = "cleanup" => WatchdogDead(p) /\ nest[p]["main"] > 1
    /\ pc[p]["main"] = "run"
    /\ nest[p]["main"] > 0
    /\ Goto(p, "main", "unlock")
    /\ UNCHANGED <<phase, subst, nest, val, counterOwner, counter, holder>>

(* haveged_watchdog locks around the start of haveged.                     *)
WatchdogLocks(p) ==
    /\ pc[p]["watchdog"] = "run"
    /\ nest[p]["watchdog"] = 0
    /\ Goto(p, "watchdog", "lock")
    /\ UNCHANGED <<phase, subst, nest, val, counterOwner, counter, holder>>

WatchdogUnlocks(p) ==
    /\ pc[p]["watchdog"] = "run"
    /\ nest[p]["watchdog"] = 1
    /\ Goto(p, "watchdog", "unlock")
    /\ UNCHANGED <<phase, subst, nest, val, counterOwner, counter, holder>>

-----------------------------------------------------------------------------
(* The life of a process around the calls.                                 *)

(* Lines 1596-1597: mutex_lock, then trap "cleanup" EXIT.                  *)
ArmCleanup(p) ==
    /\ phase[p] = "early"
    /\ pc[p]["main"] = "run"
    /\ nest[p]["main"] = 1
    /\ phase' = [phase EXCEPT ![p] = "armed"]
    /\ UNCHANGED <<subst, pc, nest, val, counterOwner, counter, holder>>

StartWatchdog(p) ==
    /\ phase[p] = "armed"
    /\ pc[p]["main"] = "run"
    /\ nest[p]["main"] = 0
    /\ phase' = [phase EXCEPT ![p] = "serving"]
    /\ Goto(p, "watchdog", "run")
    /\ UNCHANGED <<subst, nest, val, counterOwner, counter, holder>>

(* All descriptors of p are closed.                                        *)
CloseAll(p) ==
    /\ pc' = [pc EXCEPT ![p]["main"] = "dead"]
    /\ subst' = [subst EXCEPT ![p] = FALSE]
    /\ nest' = [nest EXCEPT ![p]["main"] = 0]
    /\ counterOwner' = [counterOwner EXCEPT ![p] = IF @ = "main" THEN "nobody" ELSE @]
    /\ holder' = IF holder = p /\ WatchdogDead(p) THEN NoProcess ELSE holder
    /\ UNCHANGED val

(* --list-running, --stop and the checks of the options end here, as does  *)
(* any signal: the shell exits and cleanup_lock removes the counter file.  *)
EarlyExit(p) ==
    /\ phase[p] = "early"
    /\ phase' = [phase EXCEPT ![p] = "gone"]
    /\ counter' = [counter EXCEPT ![p] = 0]
    /\ CloseAll(p)

(* die, or a trapped SIGINT, SIGUSR1 or SIGUSR2, which bash runs between   *)
(* any two commands: exit runs the EXIT trap, and _cleanup calls           *)
(* mutex_lock.  A descriptor of an interrupted call stays open.  A trap    *)
(* waits for the end of a substitution.                                    *)
Trap(p) ==
    /\ phase[p] \in {"armed", "serving"}
    /\ ~subst[p]
    /\ phase' = [phase EXCEPT ![p] = "cleanup"]
    /\ Goto(p, "main", "lock")
    /\ UNCHANGED <<subst, nest, val, counterOwner, counter, holder>>

(* A SIGINT that also reaches the substitution the main shell waits for:   *)
(* the subshell dies of it inside the call, and its descriptors are closed.*)
Interrupt(p) ==
    /\ GroupSignals
    /\ subst[p]
    /\ phase' = [phase EXCEPT ![p] = "cleanup"]
    /\ subst' = [subst EXCEPT ![p] = FALSE]
    /\ nest' = [nest EXCEPT ![p]["main"] = 0]
    /\ counterOwner' = [counterOwner EXCEPT ![p] = "nobody"]
    /\ Goto(p, "main", "lock")
    /\ UNCHANGED <<val, counter, holder>>

(* Mutant: a child of the watchdog keeps the counter file open.            *)
KillWatchdogLeaks(p) ==
    /\ phase[p] = "cleanup"
    /\ pc[p]["main"] = "run"
    /\ ~WatchdogDead(p)
    /\ Goto(p, "watchdog", "dead")
    /\ nest' = [nest EXCEPT ![p]["watchdog"] = 0]
    /\ UNCHANGED <<phase, subst, val, counterOwner, counter, holder>>

(* Line 710, the first thing after _cleanup's mutex_lock.                  *)
KillWatchdog(p) ==
    /\ phase[p] = "cleanup"
    /\ pc[p]["main"] = "run"
    /\ ~WatchdogDead(p)
    /\ Goto(p, "watchdog", "dead")
    /\ nest' = [nest EXCEPT ![p]["watchdog"] = 0]
    /\ counterOwner' = [counterOwner EXCEPT ![p] = IF @ = "watchdog" THEN "nobody" ELSE @]
    /\ UNCHANGED <<phase, subst, val, counter, holder>>

LastUnlock(p) ==
    /\ phase[p] = "cleanup"
    /\ pc[p]["main"] = "run"
    /\ WatchdogDead(p)
    /\ phase' = [phase EXCEPT ![p] = "leaving"]
    /\ Goto(p, "main", "unlock")
    /\ UNCHANGED <<subst, nest, val, counterOwner, counter, holder>>

(* Line 833: cleanup_lock; the shell ends and its descriptors are closed.  *)
Exit(p) ==
    /\ phase[p] = "leaving"
    /\ pc[p]["main"] = "run"
    /\ phase' = [phase EXCEPT ![p] = "gone"]
    /\ counter' = [counter EXCEPT ![p] = 0]
    /\ CloseAll(p)

(* kill -9 of the main shell: no trap runs, the watchdog lives on and      *)
(* keeps the description of the lock file open.                            *)
Killed(p) ==
    /\ p \in Crashable
    /\ phase[p] \notin {"gone", "killed"}
    /\ phase' = [phase EXCEPT ![p] = "killed"]
    /\ CloseAll(p)
    /\ UNCHANGED counter

Shell(p, r) ==
    \/ ReadCounter(p, r)
    \/ LockGlobal(p, r)
    \/ UnlockGlobal(p, r)
    \/ WriteCounter(p, r)
    \/ CloseCounter(p, r)

Next ==
    \E p \in Process :
        \/ \E r \in Role : Shell(p, r)
        \/ MainLocks(p)
        \/ MainUnlocks(p)
        \/ WatchdogLocks(p)
        \/ WatchdogUnlocks(p)
        \/ ArmCleanup(p)
        \/ StartWatchdog(p)
        \/ EarlyExit(p)
        \/ Trap(p)
        \/ Interrupt(p)
        \/ KillWatchdog(p)
        \/ LastUnlock(p)
        \/ Exit(p)
        \/ Killed(p)

Spec == Init /\ [][Next]_vars

-----------------------------------------------------------------------------
(* Fairness.  A shell that is inside a call or at the end of its section   *)
(* goes on; a process waiting in flock is served when the lock is free     *)
(* again and again (the kernel wakes the waiters of a lock in turn); a     *)
(* section is finite, so at no nesting does it lock and unlock for ever.   *)
(* Nothing is assumed about calls, signals and crashes.                    *)

UnlockAt(p, n) == nest[p]["main"] = n /\ MainUnlocks(p)

MainGoesOn(p) == Shell(p, "main") \/ KillWatchdog(p) \/ Exit(p)

WatchdogGoesOn(p) == Shell(p, "watchdog") \/ WatchdogUnlocks(p)

Fairness ==
    \A p \in Process :
        /\ SF_vars(MainGoesOn(p))
        /\ SF_vars(WatchdogGoesOn(p))
        /\ \A n \in 1..MaxNest : SF_vars(UnlockAt(p, n))
        /\ SF_vars(LastUnlock(p))

FairSpec == Spec /\ Fairness

-----------------------------------------------------------------------------
(* Properties.                                                             *)

TypeOK ==
    /\ phase \in [Process -> Phase]
    /\ subst \in [Process -> BOOLEAN]
    /\ pc \in [Process -> [Role -> Label]]
    /\ nest \in [Process -> [Role -> Nat]]
    /\ val \in [Process -> [Role -> Nat]]
    /\ counterOwner \in [Process -> Role \cup {"nobody"}]
    /\ counter \in [Process -> Nat]
    /\ holder \in Process \cup {NoProcess}

(* Two processes are never inside a mutex section at once, whatever the    *)
(* nesting, the watchdog sharing the counter of its process, the signals   *)
(* to main shells and the crashes (lines 172-224).                         *)
MutualExclusion ==
    \A p, q \in Process : \A r, s \in Role :
        nest[p][r] > 0 /\ nest[q][s] > 0 => p = q

(* Before its cleanup a process whose shells are all outside the mutex     *)
(* does not keep the global lock: the shared counter loses no decrement    *)
(* although two shells read and write it (lines 180-181 and 206-207).      *)
ReleasedOutside ==
    \A p \in Process :
        /\ phase[p] \in {"early", "armed", "serving"}
        /\ \A r \in Role : nest[p][r] = 0 /\ pc[p][r] \in {"run", "dead"}
        => holder # p

(* The main shell waits for the flock on the counter file that one of its  *)
(* own descriptors, of the call a signal interrupted, has: it waits for    *)
(* ever, and so do all others if it has the global lock.                   *)
Hung(p) == pc[p]["main"] = "lock" /\ counterOwner[p] = "main"

(* A recursive mutex never makes its own shell wait for itself (line 172). *)
NeverBlocksItself == \A p \in Process : ~Hung(p)

(* If no process hangs on itself and none is killed, every cleanup that    *)
(* starts ends, and the process is gone: no interleaving of the counter    *)
(* file, the global lock and the watchdog deadlocks (lines 702-838).       *)
CleanupTerminates ==
    [](\A p \in Process : ~Hung(p) /\ phase[p] # "killed")
        => \A p \in Process : phase[p] = "cleanup" ~> phase[p] = "gone"

-----------------------------------------------------------------------------
(* The inductive invariant behind MutualExclusion, ReleasedOutside and the *)
(* refinement, when signals reach main shells only.                        *)

InCall == {"flock", "funlock", "write", "close"}

Alive(p) == \E r \in Role : pc[p][r] # "dead"

Sections(p) == nest[p]["main"] + nest[p]["watchdog"]

(* The counter as the call that has its file locked, interrupted or not,   *)
(* knows it; it writes it last.                                            *)
Pending(p) ==
    IF counterOwner[p] = "nobody" THEN counter[p] ELSE val[p][counterOwner[p]]

(* The counter file is locked by the shell in a call, or by a hung one.    *)
CounterFileOwned ==
    \A p \in Process : \A r \in Role :
        /\ pc[p][r] \in InCall => counterOwner[p] = r
        /\ counterOwner[p] = r =>
            pc[p][r] \in InCall \/ (r = "main" /\ Hung(p) /\ WatchdogDead(p))

(* What a call read is what the file says, until it writes one more or     *)
(* one less.                                                               *)
ReadsAreCurrent ==
    \A p \in Process : \A r \in Role :
        /\ pc[p][r] \in {"flock", "funlock", "close"} => val[p][r] = counter[p]
        /\ pc[p][r] \in {"unlock", "funlock"} => nest[p][r] > 0
        /\ pc[p][r] = "write" =>
            \/ val[p][r] = counter[p] + 1 /\ nest[p][r] > 0
            \/ val[p][r] + 1 = counter[p]
        /\ pc[p][r] = "dead" => nest[p][r] = 0

(* The counter covers every section, and the global lock is held while it  *)
(* is positive; until the cleanup has killed the watchdog both are exact.  *)
CounterCovers ==
    \A p \in Process :
        /\ Sections(p) > 0 => holder = p
        /\ Alive(p) =>
            /\ Sections(p) <= Pending(p)
            /\ Pending(p) > 0 => holder = p
        /\ \/ phase[p] \in {"early", "armed", "serving"}
           \/ phase[p] = "cleanup" /\ ~WatchdogDead(p)
           => /\ Pending(p) = Sections(p)
              /\ holder = p => Pending(p) > 0

(* A process whose main shell calls unlock has no watchdog.                *)
CleanupOrder ==
    \A p \in Process :
        /\ phase[p] \in {"early", "armed", "leaving", "gone"} => WatchdogDead(p)
        /\ phase[p] = "serving" => pc[p]["main"] = "run" /\ nest[p]["main"] = 0
        /\ phase[p] \in {"gone", "killed"} <=> pc[p]["main"] = "dead"
        /\ phase[p] = "cleanup" =>
            /\ pc[p]["main"] \in {"run", "write", "close"} => nest[p]["main"] > 0
            /\ pc[p]["main"] \in {"unlock", "funlock"} =>
                nest[p]["main"] > 1 /\ WatchdogDead(p)
            /\ pc[p]["main"] = "write" /\ ~WatchdogDead(p) =>
                val[p]["main"] = counter[p] + 1

IInv ==
    /\ TypeOK
    /\ CounterFileOwned
    /\ ReadsAreCurrent
    /\ CounterCovers
    /\ CleanupOrder

-----------------------------------------------------------------------------
(* How often a process is inside the abstract lock: what the counter says, *)
(* whoever has the global lock.  A killed main shell may take the count of *)
(* 1 that it did not write with it, and its watchdog still have the lock.  *)
AbstractDepth ==
    [p \in Process |->
        IF ~Alive(p) THEN 0
        ELSE IF phase[p] = "killed" /\ holder = p /\ Pending(p) = 0 THEN 1
        ELSE Pending(p)]

Lock == INSTANCE ProcessLock WITH depth <- AbstractDepth

(* Every behaviour of the shells is one of the abstract recursive lock:    *)
(* the counters of the processes and the flock, read and written by        *)
(* several shells and interrupted anywhere, agree at every step on who is  *)
(* inside and how often (lines 172-224).                                   *)
ImplementsProcessLock == Lock!LockSpec

=============================================================================
