----------------------- MODULE RecursiveMutex_proofs -----------------------
(***************************************************************************)
(* The mutex of create_ap for any number of processes and any nesting, when*)
(* signals reach main shells only: mutual exclusion, exact release before  *)
(* the cleanup, and the refinement of ProcessLock.                         *)
(*                                                                         *)
(* The argument: the counter file is locked by the one shell in a call     *)
(* (CounterFileOwned), so what a call read is still what the file says     *)
(* (ReadsAreCurrent), so the counter covers the sections of both shells    *)
(* and the global lock is held while it is positive (CounterCovers); the   *)
(* main shell releases only after its watchdog is dead (CleanupOrder).     *)
(***************************************************************************)
EXTENDS RecursiveMutex, TLAPS

(* The invariant holds before any process has called mutex_lock.           *)
LEMMA InitEstablishes == Init => IInv
  <1> SUFFICES ASSUME Init PROVE IInv
    OBVIOUS
  <1> USE NoProcessAssumption DEF Init, Role
  <1>1. TypeOK
    BY DEF TypeOK, Phase, Label
  <1>2. CounterFileOwned
    BY DEF CounterFileOwned, InCall
  <1>3. ReadsAreCurrent
    BY DEF ReadsAreCurrent
  <1>4. CounterCovers
    <2>1. ASSUME NEW p \in Process
          PROVE  Sections(p) = 0 /\ Pending(p) = 0 /\ holder # p
      <3>1. /\ nest[p]["main"] = 0 /\ nest[p]["watchdog"] = 0
            /\ pc[p]["main"] = "run" /\ pc[p]["watchdog"] = "dead"
            /\ counter[p] = 0 /\ holder # p
        OBVIOUS
      <3> QED BY <3>1 DEF Sections, Pending
    <2>2. 0 <= 0 /\ ~(0 > 0)
      OBVIOUS
    <2> QED BY <2>1, <2>2, Zenon DEF CounterCovers
  <1>5. CleanupOrder
    BY DEF CleanupOrder, WatchdogDead
  <1> QED
    BY <1>1, <1>2, <1>3, <1>4, <1>5 DEF IInv

(* Every step of a shell, of the process around it, of a signal to a main  *)
(* shell and of a crash keeps the invariant.                               *)
LEMMA StepPreserves == ASSUME ~GroupSignals, IInv, [Next]_vars PROVE IInv'
  <1> USE NoProcessAssumption DEF IInv, TypeOK, Role, WatchdogDead
  <1>1. ASSUME NEW p \in Process, NEW r \in Role, ReadCounter(p, r) PROVE IInv'
    <2> USE <1>1 DEF ReadCounter, Goto
    <2>1. TypeOK'
      BY DEF Label, Phase
    <2>2. CounterFileOwned'
      BY DEF CounterFileOwned, ReadsAreCurrent, CleanupOrder, InCall, Hung
    <2>3. ReadsAreCurrent'
      BY DEF CounterFileOwned, ReadsAreCurrent, CleanupOrder, InCall, Hung,
         CounterCovers, Pending, Sections, Alive
    <2>4. CounterCovers'
      BY DEF CounterFileOwned, ReadsAreCurrent, CleanupOrder, InCall, Hung,
         CounterCovers, Pending, Sections, Alive
    <2>5. CleanupOrder'
      BY DEF CounterFileOwned, ReadsAreCurrent, CleanupOrder, InCall, Hung
    <2> QED BY <2>1, <2>2, <2>3, <2>4, <2>5
  <1>2. ASSUME NEW p \in Process, NEW r \in Role, LockGlobal(p, r) PROVE IInv'
    <2> USE <1>2 DEF LockGlobal, Goto
    <2>1. TypeOK'
      BY DEF Label, Phase
    <2>2. CounterFileOwned'
      BY DEF CounterFileOwned, ReadsAreCurrent, CleanupOrder, InCall, Hung
    <2>3. ReadsAreCurrent'
      BY DEF CounterFileOwned, ReadsAreCurrent, CleanupOrder, InCall, Hung,
         CounterCovers, Pending, Sections, Alive
    <2>4. CounterCovers'
      <3>1. /\ counterOwner[p] = r /\ UNCHANGED <<counterOwner, counter, phase>>
            /\ Pending(p) = val[p][r] /\ Alive(p)
        BY DEF CounterFileOwned, InCall, Pending, Alive
      <3>2. /\ Pending(p) \in Nat /\ Sections(p) \in Nat
            /\ Pending(p)' = Pending(p) + 1 /\ Sections(p)' = Sections(p) + 1
        BY <3>1 DEF Pending, Sections
      <3>3. holder' = p /\ holder \in {NoProcess, p}
        BY <3>1, <3>2 DEF CounterCovers
      <3>4. Alive(p)' /\ (WatchdogDead(p)' <=> WatchdogDead(p))
        BY DEF Alive
      <3>5. ASSUME NEW q \in Process, q # p
            PROVE  /\ UNCHANGED <<Pending(q), Sections(q), WatchdogDead(q)>>
                   /\ Alive(q)' <=> Alive(q)
        BY <3>5 DEF Pending, Sections, Alive
      <3>6. ASSUME NEW q \in Process, q # p
            PROVE  /\ Pending(q) \in Nat /\ Sections(q) \in Nat
                   /\ holder # q /\ holder' # q
        BY <3>3, <3>6 DEF Pending, Sections
      <3> QED BY <3>1, <3>2, <3>3, <3>4, <3>5, <3>6 DEF CounterCovers
    <2>5. CleanupOrder'
      BY DEF CounterFileOwned, ReadsAreCurrent, CleanupOrder, InCall, Hung
    <2> QED BY <2>1, <2>2, <2>3, <2>4, <2>5
  <1>3. ASSUME NEW p \in Process, NEW r \in Role, UnlockGlobal(p, r) PROVE IInv'
    <2> USE <1>3 DEF UnlockGlobal, Goto
    <2>1. TypeOK'
      BY DEF Label, Phase, ReadsAreCurrent
    <2>2. CounterFileOwned'
      BY DEF CounterFileOwned, ReadsAreCurrent, CleanupOrder, InCall, Hung
    <2>3. ReadsAreCurrent'
      BY DEF CounterFileOwned, ReadsAreCurrent, CleanupOrder, InCall, Hung,
         CounterCovers, Pending, Sections, Alive
    <2>4. CounterCovers'
      BY DEF CounterFileOwned, ReadsAreCurrent, CleanupOrder, InCall, Hung,
         CounterCovers, Pending, Sections, Alive
    <2>5. CleanupOrder'
      BY DEF CounterFileOwned, ReadsAreCurrent, CleanupOrder, InCall, Hung
    <2> QED BY <2>1, <2>2, <2>3, <2>4, <2>5
  <1>4. ASSUME NEW p \in Process, NEW r \in Role, WriteCounter(p, r) PROVE IInv'
    <2> USE <1>4 DEF WriteCounter, Goto
    <2>1. TypeOK'
      BY DEF Label, Phase
    <2>2. CounterFileOwned'
      BY DEF CounterFileOwned, ReadsAreCurrent, CleanupOrder, InCall, Hung
    <2>3. ReadsAreCurrent'
      BY DEF CounterFileOwned, ReadsAreCurrent, CleanupOrder, InCall, Hung,
         CounterCovers, Pending, Sections, Alive
    <2>4. CounterCovers'
      BY DEF CounterFileOwned, ReadsAreCurrent, CleanupOrder, InCall, Hung,
         CounterCovers, Pending, Sections, Alive
    <2>5. CleanupOrder'
      BY DEF CounterFileOwned, ReadsAreCurrent, CleanupOrder, InCall, Hung
    <2> QED BY <2>1, <2>2, <2>3, <2>4, <2>5
  <1>5. ASSUME NEW p \in Process, NEW r \in Role, CloseCounter(p, r) PROVE IInv'
    <2> USE <1>5 DEF CloseCounter, Goto
    <2>1. TypeOK'
      BY DEF Label, Phase
    <2>2. CounterFileOwned'
      BY DEF CounterFileOwned, ReadsAreCurrent, CleanupOrder, InCall, Hung
    <2>3. ReadsAreCurrent'
      BY DEF CounterFileOwned, ReadsAreCurrent, CleanupOrder, InCall, Hung,
         CounterCovers, Pending, Sections, Alive
    <2>4. CounterCovers'
      BY DEF CounterFileOwned, ReadsAreCurrent, CleanupOrder, InCall, Hung,
         CounterCovers, Pending, Sections, Alive
    <2>5. CleanupOrder'
      BY DEF CounterFileOwned, ReadsAreCurrent, CleanupOrder, InCall, Hung
    <2> QED BY <2>1, <2>2, <2>3, <2>4, <2>5
  <1>6. ASSUME NEW p \in Process, MainLocks(p) PROVE IInv'
    <2> USE <1>6 DEF MainLocks, Goto
    <2>1. TypeOK'
      BY DEF Label, Phase
    <2>2. CounterFileOwned'
      BY DEF CounterFileOwned, ReadsAreCurrent, CleanupOrder, InCall, Hung
    <2>3. ReadsAreCurrent'
      BY DEF CounterFileOwned, ReadsAreCurrent, CleanupOrder, InCall, Hung,
         CounterCovers, Pending, Sections, Alive
    <2>4. CounterCovers'
      BY DEF CounterFileOwned, ReadsAreCurrent, CleanupOrder, InCall, Hung,
         CounterCovers, Pending, Sections, Alive
    <2>5. CleanupOrder'
      BY DEF CounterFileOwned, ReadsAreCurrent, CleanupOrder, InCall, Hung
    <2> QED BY <2>1, <2>2, <2>3, <2>4, <2>5
  <1>7. ASSUME NEW p \in Process, MainUnlocks(p) PROVE IInv'
    <2> USE <1>7 DEF MainUnlocks, Goto
    <2>1. TypeOK'
      BY DEF Label, Phase
    <2>2. CounterFileOwned'
      BY DEF CounterFileOwned, ReadsAreCurrent, CleanupOrder, InCall, Hung
    <2>3. ReadsAreCurrent'
      BY DEF CounterFileOwned, ReadsAreCurrent, CleanupOrder, InCall, Hung,
         CounterCovers, Pending, Sections, Alive
    <2>4. CounterCovers'
      BY DEF CounterFileOwned, ReadsAreCurrent, CleanupOrder, InCall, Hung,
         CounterCovers, Pending, Sections, Alive
    <2>5. CleanupOrder'
      BY DEF CounterFileOwned, ReadsAreCurrent, CleanupOrder, InCall, Hung
    <2> QED BY <2>1, <2>2, <2>3, <2>4, <2>5
  <1>8. ASSUME NEW p \in Process, WatchdogLocks(p) PROVE IInv'
    <2> USE <1>8 DEF WatchdogLocks, Goto
    <2>1. TypeOK'
      BY DEF Label, Phase
    <2>2. CounterFileOwned'
      BY DEF CounterFileOwned, ReadsAreCurrent, CleanupOrder, InCall, Hung
    <2>3. ReadsAreCurrent'
      BY DEF CounterFileOwned, ReadsAreCurrent, CleanupOrder, InCall, Hung,
         CounterCovers, Pending, Sections, Alive
    <2>4. CounterCovers'
      BY DEF CounterFileOwned, ReadsAreCurrent, CleanupOrder, InCall, Hung,
         CounterCovers, Pending, Sections, Alive
    <2>5. CleanupOrder'
      BY DEF CounterFileOwned, ReadsAreCurrent, CleanupOrder, InCall, Hung
    <2> QED BY <2>1, <2>2, <2>3, <2>4, <2>5
  <1>9. ASSUME NEW p \in Process, WatchdogUnlocks(p) PROVE IInv'
    <2> USE <1>9 DEF WatchdogUnlocks, Goto
    <2>1. TypeOK'
      BY DEF Label, Phase
    <2>2. CounterFileOwned'
      BY DEF CounterFileOwned, ReadsAreCurrent, CleanupOrder, InCall, Hung
    <2>3. ReadsAreCurrent'
      BY DEF CounterFileOwned, ReadsAreCurrent, CleanupOrder, InCall, Hung,
         CounterCovers, Pending, Sections, Alive
    <2>4. CounterCovers'
      BY DEF CounterFileOwned, ReadsAreCurrent, CleanupOrder, InCall, Hung,
         CounterCovers, Pending, Sections, Alive
    <2>5. CleanupOrder'
      BY DEF CounterFileOwned, ReadsAreCurrent, CleanupOrder, InCall, Hung
    <2> QED BY <2>1, <2>2, <2>3, <2>4, <2>5
  <1>10. ASSUME NEW p \in Process, ArmCleanup(p) PROVE IInv'
    <2> USE <1>10 DEF ArmCleanup
    <2>1. TypeOK'
      BY DEF Label, Phase
    <2>2. CounterFileOwned'
      BY DEF CounterFileOwned, ReadsAreCurrent, CleanupOrder, InCall, Hung
    <2>3. ReadsAreCurrent'
      BY DEF CounterFileOwned, ReadsAreCurrent, CleanupOrder, InCall, Hung,
         CounterCovers, Pending, Sections, Alive
    <2>4. CounterCovers'
      BY DEF CounterFileOwned, ReadsAreCurrent, CleanupOrder, InCall, Hung,
         CounterCovers, Pending, Sections, Alive
    <2>5. CleanupOrder'
      BY DEF CounterFileOwned, ReadsAreCurrent, CleanupOrder, InCall, Hung
    <2> QED BY <2>1, <2>2, <2>3, <2>4, <2>5
  <1>11. ASSUME NEW p \in Process, StartWatchdog(p) PROVE IInv'
    <2> USE <1>11 DEF StartWatchdog, Goto
    <2>1. TypeOK'
      BY DEF Label, Phase
    <2>2. CounterFileOwned'
      BY DEF CounterFileOwned, ReadsAreCurrent, CleanupOrder, InCall, Hung
    <2>3. ReadsAreCurrent'
      BY DEF CounterFileOwned, ReadsAreCurrent, CleanupOrder, InCall, Hung,
         CounterCovers, Pending, Sections, Alive
    <2>4. CounterCovers'
      BY DEF CounterFileOwned, ReadsAreCurrent, CleanupOrder, InCall, Hung,
         CounterCovers, Pending, Sections, Alive
    <2>5. CleanupOrder'
      BY DEF CounterFileOwned, ReadsAreCurrent, CleanupOrder, InCall, Hung
    <2> QED BY <2>1, <2>2, <2>3, <2>4, <2>5
  <1>12. ASSUME NEW p \in Process, EarlyExit(p) PROVE IInv'
    <2> USE <1>12 DEF EarlyExit, CloseAll
    <2>1. TypeOK'
      BY DEF Label, Phase
    <2>2. CounterFileOwned'
      BY DEF CounterFileOwned, ReadsAreCurrent, CleanupOrder, InCall, Hung
    <2>3. ReadsAreCurrent'
      BY DEF CounterFileOwned, ReadsAreCurrent, CleanupOrder, InCall, Hung,
         CounterCovers, Pending, Sections, Alive
    <2>4. CounterCovers'
      BY DEF CounterFileOwned, ReadsAreCurrent, CleanupOrder, InCall, Hung,
         CounterCovers, Pending, Sections, Alive
    <2>5. CleanupOrder'
      BY DEF CounterFileOwned, ReadsAreCurrent, CleanupOrder, InCall, Hung
    <2> QED BY <2>1, <2>2, <2>3, <2>4, <2>5
  <1>13. ASSUME NEW p \in Process, Trap(p) PROVE IInv'
    <2> USE <1>13 DEF Trap, Goto
    <2>1. TypeOK'
      BY DEF Label, Phase
    <2>2. CounterFileOwned'
      BY DEF CounterFileOwned, ReadsAreCurrent, CleanupOrder, InCall, Hung
    <2>3. ReadsAreCurrent'
      BY DEF CounterFileOwned, ReadsAreCurrent, CleanupOrder, InCall, Hung,
         CounterCovers, Pending, Sections, Alive
    <2>4. CounterCovers'
      BY DEF CounterFileOwned, ReadsAreCurrent, CleanupOrder, InCall, Hung,
         CounterCovers, Pending, Sections, Alive
    <2>5. CleanupOrder'
      BY DEF CounterFileOwned, ReadsAreCurrent, CleanupOrder, InCall, Hung
    <2> QED BY <2>1, <2>2, <2>3, <2>4, <2>5
  <1>14. ASSUME NEW p \in Process, KillWatchdog(p) PROVE IInv'
    <2> USE <1>14 DEF KillWatchdog, Goto
    <2>1. TypeOK'
      BY DEF Label, Phase
    <2>2. CounterFileOwned'
      BY DEF CounterFileOwned, ReadsAreCurrent, CleanupOrder, InCall, Hung
    <2>3. ReadsAreCurrent'
      BY DEF CounterFileOwned, ReadsAreCurrent, CleanupOrder, InCall, Hung,
         CounterCovers, Pending, Sections, Alive
    <2>4. CounterCovers'
      BY DEF CounterFileOwned, ReadsAreCurrent, CleanupOrder, InCall, Hung,
         CounterCovers, Pending, Sections, Alive
    <2>5. CleanupOrder'
      BY DEF CounterFileOwned, ReadsAreCurrent, CleanupOrder, InCall, Hung
    <2> QED BY <2>1, <2>2, <2>3, <2>4, <2>5
  <1>15. ASSUME NEW p \in Process, LastUnlock(p) PROVE IInv'
    <2> USE <1>15 DEF LastUnlock, Goto
    <2>1. TypeOK'
      BY DEF Label, Phase
    <2>2. CounterFileOwned'
      BY DEF CounterFileOwned, ReadsAreCurrent, CleanupOrder, InCall, Hung
    <2>3. ReadsAreCurrent'
      BY DEF CounterFileOwned, ReadsAreCurrent, CleanupOrder, InCall, Hung,
         CounterCovers, Pending, Sections, Alive
    <2>4. CounterCovers'
      BY DEF CounterFileOwned, ReadsAreCurrent, CleanupOrder, InCall, Hung,
         CounterCovers, Pending, Sections, Alive
    <2>5. CleanupOrder'
      BY DEF CounterFileOwned, ReadsAreCurrent, CleanupOrder, InCall, Hung
    <2> QED BY <2>1, <2>2, <2>3, <2>4, <2>5
  <1>16. ASSUME NEW p \in Process, Exit(p) PROVE IInv'
    <2> USE <1>16 DEF Exit, CloseAll
    <2>1. TypeOK'
      BY DEF Label, Phase
    <2>2. CounterFileOwned'
      BY DEF CounterFileOwned, ReadsAreCurrent, CleanupOrder, InCall, Hung
    <2>3. ReadsAreCurrent'
      BY DEF CounterFileOwned, ReadsAreCurrent, CleanupOrder, InCall, Hung,
         CounterCovers, Pending, Sections, Alive
    <2>4. CounterCovers'
      BY DEF CounterFileOwned, ReadsAreCurrent, CleanupOrder, InCall, Hung,
         CounterCovers, Pending, Sections, Alive
    <2>5. CleanupOrder'
      BY DEF CounterFileOwned, ReadsAreCurrent, CleanupOrder, InCall, Hung
    <2> QED BY <2>1, <2>2, <2>3, <2>4, <2>5
  <1>17. ASSUME NEW p \in Process, Killed(p) PROVE IInv'
    <2> USE <1>17 DEF Killed, CloseAll
    <2>1. TypeOK'
      BY DEF Label, Phase
    <2>2. CounterFileOwned'
      BY DEF CounterFileOwned, ReadsAreCurrent, CleanupOrder, InCall, Hung
    <2>3. ReadsAreCurrent'
      BY DEF CounterFileOwned, ReadsAreCurrent, CleanupOrder, InCall, Hung,
         CounterCovers, Pending, Sections, Alive
    <2>4. CounterCovers'
      <3> USE DEF CounterFileOwned, ReadsAreCurrent, CleanupOrder, InCall, Hung,
                  CounterCovers, Pending, Sections, Alive, Phase
      <3>1. CASE WatchdogDead(p)
        BY <3>1
      <3>2. CASE ~WatchdogDead(p)
        <4>1. phase[p] \in {"serving", "cleanup"} /\ ~Hung(p) /\ holder' = holder
          BY <3>2
        <4>2. CASE pc[p]["main"] = "write"
          <5>1. /\ val[p]["main"] = counter[p] + 1 /\ nest[p]["main"] > 0
                /\ pc[p]["watchdog"] # "write" /\ phase[p] = "cleanup"
            BY <3>2, <4>1, <4>2
          <5>2. Pending(p)' = counter[p] /\ holder = p
            BY <4>1, <4>2, <5>1
          <5> QED BY <3>2, <4>1, <4>2, <5>1, <5>2
        <4>3. CASE pc[p]["main"] # "write"
          <5>1. Pending(p)' = Pending(p)
            <6>1. CASE counterOwner[p] = "main"
              <7>1. val[p]["main"] = counter[p] /\ counterOwner'[p] = "nobody"
                BY <3>2, <4>1, <4>3, <6>1
              <7> QED BY <6>1, <7>1
            <6>2. CASE counterOwner[p] # "main"
              <7>1. counterOwner'[p] = counterOwner[p]
                BY <6>2
              <7> QED BY <7>1
            <6> QED BY <6>1, <6>2
          <5> QED BY <3>2, <4>1, <4>3, <5>1
        <4> QED BY <4>2, <4>3
      <3> QED BY <3>1, <3>2
    <2>5. CleanupOrder'
      BY DEF CounterFileOwned, ReadsAreCurrent, CleanupOrder, InCall, Hung
    <2> QED BY <2>1, <2>2, <2>3, <2>4, <2>5
  <1>18. CASE UNCHANGED vars
    BY <1>18 DEF vars, CounterFileOwned, ReadsAreCurrent, CounterCovers,
      CleanupOrder, InCall, Hung, Pending, Sections, Alive
  <1> HIDE DEF IInv, TypeOK, Role, WatchdogDead
  <1> QED
    BY <1>1, <1>2, <1>3, <1>4, <1>5, <1>6, <1>7, <1>8, <1>9, <1>10, <1>11, <1>12, <1>13,
       <1>14, <1>15, <1>16, <1>17, <1>18, SMTT(60) DEF Next, Shell, Interrupt

-----------------------------------------------------------------------------
(* The invariant holds in every state, when signals reach main shells only.*)
THEOREM Invariance == ASSUME ~GroupSignals PROVE Spec => []IInv
  <1>1. IInv /\ [Next]_vars => IInv'
    BY StepPreserves
  <1> QED
    BY InitEstablishes, <1>1, PTL DEF Spec

(* Two processes are never inside a mutex section at once, whatever the    *)
(* nesting, the traps in the middle of a call and the crashes.             *)
THEOREM MutexIsExclusive == ASSUME ~GroupSignals PROVE Spec => []MutualExclusion
  <1>1. IInv => MutualExclusion
    <2> SUFFICES ASSUME IInv, NEW p \in Process, NEW q \in Process,
                        NEW r \in Role, NEW s \in Role,
                        nest[p][r] > 0, nest[q][s] > 0
                 PROVE  p = q
      BY DEF MutualExclusion
    <2>1. ASSUME NEW x \in Process, NEW t \in Role, nest[x][t] > 0
          PROVE  holder = x
      BY <2>1 DEF IInv, TypeOK, CounterCovers, Sections, Role
    <2> QED BY <2>1
  <1> QED
    BY Invariance, <1>1, PTL

(* A process outside the mutex before its cleanup does not keep the lock.  *)
THEOREM MutexIsReleased == ASSUME ~GroupSignals PROVE Spec => []ReleasedOutside
  <1>1. IInv => ReleasedOutside
    <2> SUFFICES ASSUME IInv, NEW p \in Process,
                        phase[p] \in {"early", "armed", "serving"},
                        \A r \in Role : nest[p][r] = 0 /\ pc[p][r] \in {"run", "dead"}
                 PROVE  holder # p
      BY DEF ReleasedOutside
    <2>1. Sections(p) = 0 /\ ~(0 > 0)
      BY DEF Sections, Role
    <2> QED BY <2>1 DEF IInv, CounterCovers
  <1> QED
    BY Invariance, <1>1, PTL

-----------------------------------------------------------------------------
(* The steps that change the abstract lock.                                *)

(* Increasing the counter is Enter, unless the watchdog of a killed process*)
(* takes over the lock.                                                    *)
LEMMA LockGlobalMaps ==
    ASSUME IInv, NEW p \in Process, NEW r \in Role, LockGlobal(p, r)
    PROVE  Lock!Enter(p) \/ UNCHANGED <<holder, AbstractDepth>>
  <1> DEFINE n == val[p][r]
  <1>1. /\ pc[p][r] = "flock" /\ n \in Nat /\ n = counter[p]
        /\ counterOwner[p] = r /\ r # "nobody"
        /\ Alive(p) /\ Alive(p)' /\ phase' = phase
        /\ \A q \in Process \ {p} : Alive(q)' = Alive(q) /\ Pending(q)' = Pending(q)
    BY DEF LockGlobal, Goto, IInv, TypeOK, CounterFileOwned, ReadsAreCurrent,
           InCall, Alive, Pending, Role
  <1>2. Pending(p) = n /\ Pending(p)' = n + 1 /\ n + 1 # 0
    BY <1>1 DEF LockGlobal, IInv, TypeOK, Pending
  <1>3. holder' = p /\ (n = 0 => holder \in {NoProcess, p})
    BY <1>1, <1>2 DEF LockGlobal, IInv, CounterCovers
  <1>4. \A q \in Process \ {p} : holder # q /\ holder' # q
    BY <1>1, <1>2, <1>3, NoProcessAssumption DEF IInv, CounterCovers
  <1>5. AbstractDepth' = [AbstractDepth EXCEPT ![p] = n + 1]
    BY <1>1, <1>2, <1>4 DEF AbstractDepth
  <1>6. CASE phase[p] = "killed" /\ holder = p /\ n = 0
    <2>1. AbstractDepth[p] = 1
      BY <1>1, <1>2, <1>6 DEF AbstractDepth
    <2>2. n + 1 = 1 /\ holder' = holder
      BY <1>3, <1>6
    <2>3. AbstractDepth = [AbstractDepth EXCEPT ![p] = AbstractDepth[p]]
      BY DEF AbstractDepth
    <2> QED BY <1>5, <2>1, <2>2, <2>3
  <1>7. CASE ~(phase[p] = "killed" /\ holder = p /\ n = 0)
    <2>1. AbstractDepth[p] = n
      BY <1>1, <1>2, <1>7 DEF AbstractDepth
    <2> QED BY <1>3, <1>5, <2>1 DEF Lock!Enter
  <1> QED BY <1>6, <1>7

(* Decreasing the counter is Leave.                                        *)
LEMMA UnlockGlobalMaps ==
    ASSUME IInv, NEW p \in Process, NEW r \in Role, UnlockGlobal(p, r)
    PROVE  Lock!Leave(p)
  <1> DEFINE n == val[p][r]
  <1>1. /\ pc[p][r] = "funlock" /\ n \in Nat /\ n = counter[p]
        /\ counterOwner[p] = r /\ r # "nobody" /\ nest[p][r] > 0
        /\ Alive(p) /\ Alive(p)' /\ phase' = phase
        /\ \A q \in Process \ {p} : Alive(q)' = Alive(q) /\ Pending(q)' = Pending(q)
    BY DEF UnlockGlobal, Goto, IInv, TypeOK, CounterFileOwned, ReadsAreCurrent,
           InCall, Alive, Pending, Role
  <1>2. Pending(p) = n /\ n > 0 /\ holder = p
    <2>1. Sections(p) > 0
      BY <1>1 DEF Sections, IInv, TypeOK, Role
    <2> QED BY <1>1, <2>1 DEF Pending, IInv, TypeOK, CounterCovers, Sections, Role
  <1>3. Pending(p)' = n - 1 /\ holder' = IF n = 1 THEN NoProcess ELSE p
    BY <1>1, <1>2 DEF UnlockGlobal, IInv, TypeOK, Pending
  <1>4. \A q \in Process \ {p} : holder # q /\ holder' # q
    BY <1>2, <1>3, NoProcessAssumption
  <1>5. AbstractDepth[p] = n
    BY <1>1, <1>2 DEF AbstractDepth
  <1>6. holder' = p => n - 1 # 0
    BY <1>1, <1>2, <1>3, NoProcessAssumption
  <1>7. AbstractDepth' = [AbstractDepth EXCEPT ![p] = n - 1]
    BY <1>1, <1>3, <1>4, <1>6 DEF AbstractDepth
  <1> QED BY <1>2, <1>3, <1>5, <1>7 DEF Lock!Leave

(* Reading the counter, writing it and closing its file do not change what *)
(* the process knows of it.                                                *)
LEMMA OtherCommandsMap ==
    ASSUME IInv, NEW p \in Process, NEW r \in Role,
           ReadCounter(p, r) \/ WriteCounter(p, r) \/ CloseCounter(p, r)
    PROVE  UNCHANGED <<holder, AbstractDepth>>
  <1>1. \A q \in Process : Alive(q)' = Alive(q)
    BY DEF ReadCounter, WriteCounter, CloseCounter, Goto, IInv, TypeOK, Alive, Role
  <1>2. \A q \in Process : Pending(q)' = Pending(q)
    BY DEF ReadCounter, WriteCounter, CloseCounter, IInv, TypeOK,
           CounterFileOwned, ReadsAreCurrent, InCall, Pending, Role
  <1>3. holder' = holder /\ phase' = phase
    BY DEF ReadCounter, WriteCounter, CloseCounter
  <1> QED BY <1>1, <1>2, <1>3 DEF AbstractDepth

(* A watchdog that is killed inside a call takes its increment or decrement*)
(* of the counter with it.                                                 *)
LEMMA KillWatchdogMaps ==
    ASSUME IInv, NEW p \in Process, KillWatchdog(p)
    PROVE  Lock!Enter(p) \/ Lock!Leave(p) \/ UNCHANGED <<holder, AbstractDepth>>
  <1>1. /\ holder' = holder /\ phase' = phase /\ counter' = counter
        /\ Alive(p) /\ Alive(p)' /\ phase[p] = "cleanup"
        /\ \A q \in Process \ {p} : Alive(q)' = Alive(q) /\ Pending(q)' = Pending(q)
    BY DEF KillWatchdog, Goto, IInv, TypeOK, Alive, Pending, Role
  <1>2. /\ Pending(p) \in Nat /\ Pending(p)' \in Nat
        /\ \A q \in Process : q # p => AbstractDepth'[q] = AbstractDepth[q]
    BY <1>1 DEF KillWatchdog, IInv, TypeOK, Pending, AbstractDepth, Role
  <1>3. AbstractDepth[p] = Pending(p) /\ AbstractDepth' = [AbstractDepth EXCEPT ![p] = Pending(p)']
    BY <1>1, <1>2 DEF AbstractDepth
  <1>4. /\ pc[p]["main"] = "run" /\ nest[p]["main"] > 0 /\ counterOwner[p] # "main"
        /\ nest[p]["main"] \in Nat /\ nest[p]["watchdog"] \in Nat
    <2>1. /\ pc[p]["main"] = "run" /\ nest[p]["main"] > 0
          /\ nest[p]["main"] \in Nat /\ nest[p]["watchdog"] \in Nat
      BY DEF KillWatchdog, IInv, TypeOK, CleanupOrder, Role
    <2>2. counterOwner[p] # "main"
      BY <2>1 DEF IInv, CounterFileOwned, InCall, Hung, Role
    <2> QED BY <2>1, <2>2
  <1>5. Pending(p) = Sections(p) /\ holder = p
    BY <1>1, <1>4 DEF KillWatchdog, IInv, CounterCovers, Sections
  <1>6. counterOwner[p] \in {"watchdog", "nobody"} /\ Pending(p)' = counter[p]
    BY <1>4 DEF KillWatchdog, IInv, TypeOK, Pending, Role
  <1>7. CASE counterOwner[p] = "nobody" \/ val[p]["watchdog"] = counter[p]
    <2>1. Pending(p)' = Pending(p)
      BY <1>6, <1>7 DEF Pending
    <2> QED BY <1>1, <1>3, <2>1 DEF AbstractDepth
  <1>8. CASE counterOwner[p] = "watchdog" /\ val[p]["watchdog"] # counter[p]
    <2>1. Pending(p) = val[p]["watchdog"] /\ pc[p]["watchdog"] = "write"
      BY <1>8 DEF Pending, IInv, CounterFileOwned, ReadsAreCurrent, InCall, Role
    <2>2. CASE val[p]["watchdog"] = counter[p] + 1 /\ nest[p]["watchdog"] > 0
      <3>1. Pending(p) > 1 /\ Pending(p)' = Pending(p) - 1
        BY <1>2, <1>4, <1>5, <1>6, <2>1, <2>2 DEF Sections
      <3> QED BY <1>1, <1>2, <1>3, <3>1 DEF Lock!Leave
    <2>3. CASE val[p]["watchdog"] + 1 = counter[p]
      <3>1. Pending(p)' = Pending(p) + 1
        BY <1>6, <2>1, <2>3
      <3> QED BY <1>1, <1>3, <1>5, <3>1 DEF Lock!Enter
    <2> QED BY <2>1, <2>2, <2>3 DEF IInv, ReadsAreCurrent, Role
  <1> QED BY <1>6, <1>7, <1>8

(* The end of a process closes its descriptors of the lock file.           *)
LEMMA EndMaps ==
    ASSUME IInv, NEW p \in Process, CloseAll(p), WatchdogDead(p),
           phase' = [phase EXCEPT ![p] = phase'[p]],
           \A q \in Process \ {p} : counter'[q] = counter[q],
           phase[p] \notin {"gone", "killed"}
    PROVE  Lock!Close(p) \/ UNCHANGED <<holder, AbstractDepth>>
  <1>1. /\ ~Alive(p)' /\ Alive(p)
        /\ \A q \in Process \ {p} : /\ Alive(q)' = Alive(q)
                                  /\ Pending(q)' = Pending(q)
                                  /\ phase'[q] = phase[q]
    BY DEF CloseAll, WatchdogDead, IInv, TypeOK, CleanupOrder, Alive, Pending, Role
  <1>2. holder' = IF holder = p THEN NoProcess ELSE holder
    BY DEF CloseAll
  <1>3. \A q \in Process \ {p} : holder' = q <=> holder = q
    BY <1>2, NoProcessAssumption
  <1>4. AbstractDepth' = [AbstractDepth EXCEPT ![p] = 0]
    <2>1. AbstractDepth'[p] = 0
      BY <1>1 DEF AbstractDepth
    <2>2. \A q \in Process \ {p} : AbstractDepth'[q] = AbstractDepth[q]
      BY <1>1, <1>3 DEF AbstractDepth
    <2> QED BY <2>1, <2>2 DEF AbstractDepth
  <1>5. CASE holder = p
    BY <1>2, <1>4, <1>5 DEF Lock!Close
  <1>6. CASE holder # p
    <2>1. Pending(p) = 0
      BY <1>1, <1>6 DEF IInv, TypeOK, CounterCovers, Pending, Role
    <2>2. AbstractDepth[p] = 0
      BY <1>1, <1>6, <2>1 DEF AbstractDepth
    <2> QED BY <1>2, <1>4, <1>6, <2>2 DEF AbstractDepth
  <1> QED BY <1>5, <1>6

(* A main shell that is killed while its watchdog lives takes an increment *)
(* of the counter that it has not written with it.                         *)
LEMMA KilledMaps ==
    ASSUME IInv, NEW p \in Process, Killed(p), ~WatchdogDead(p)
    PROVE  Lock!Leave(p) \/ UNCHANGED <<holder, AbstractDepth>>
  <1>1. /\ holder' = holder /\ counter' = counter /\ phase'[p] = "killed"
        /\ Alive(p) /\ Alive(p)'
        /\ \A q \in Process \ {p} : /\ Alive(q)' = Alive(q)
                                  /\ Pending(q)' = Pending(q)
                                  /\ phase'[q] = phase[q]
    BY DEF Killed, CloseAll, WatchdogDead, IInv, TypeOK, Alive, Pending, Role
  <1>2. /\ phase[p] \in {"serving", "cleanup"}
        /\ Pending(p) = Sections(p) /\ Pending(p) \in Nat
        /\ (holder = p) = (Pending(p) > 0)
    BY <1>1 DEF Killed, IInv, TypeOK, CleanupOrder, CounterCovers, Phase, Sections,
                WatchdogDead, Role
  <1>3. AbstractDepth[p] = Pending(p)
    BY <1>1, <1>2 DEF AbstractDepth
  <1>4. Pending(p)' = Pending(p) \/ (Pending(p) > 0 /\ Pending(p)' = Pending(p) - 1)
    <2>1. counterOwner[p] \in {"main", "watchdog", "nobody"}
      BY DEF IInv, TypeOK, Role
    <2>2. CASE counterOwner[p] # "main"
      <3>1. counterOwner'[p] = counterOwner[p] /\ val' = val
        BY <2>2 DEF Killed, CloseAll, IInv, TypeOK
      <3> QED BY <1>1, <3>1 DEF Pending
    <2>3. CASE counterOwner[p] = "main"
      <3>1. Pending(p) = val[p]["main"] /\ Pending(p)' = counter[p]
        BY <1>1, <2>3 DEF Killed, CloseAll, IInv, TypeOK, Pending
      <3>2. val[p]["main"] \in {counter[p], counter[p] + 1} /\ counter[p] \in Nat
        BY <1>2, <2>3 DEF IInv, TypeOK, CounterFileOwned, ReadsAreCurrent,
                          CleanupOrder, InCall, WatchdogDead, Role
      <3> QED BY <3>1, <3>2
    <2> QED BY <2>1, <2>2, <2>3
  <1>5. AbstractDepth' = [AbstractDepth EXCEPT
                            ![p] = IF holder = p /\ Pending(p)' = 0 THEN 1 ELSE Pending(p)']
    BY <1>1 DEF AbstractDepth
  <1>6. CASE Pending(p) \in {0, 1} \/ Pending(p)' = Pending(p)
    <2>1. (IF holder = p /\ Pending(p)' = 0 THEN 1 ELSE Pending(p)') = Pending(p)
      BY <1>2, <1>4, <1>6
    <2> QED BY <1>1, <1>3, <1>5, <2>1 DEF AbstractDepth
  <1>7. CASE Pending(p) > 1 /\ Pending(p)' = Pending(p) - 1
    <2>1. Pending(p)' # 0
      BY <1>2, <1>7
    <2> QED BY <1>1, <1>2, <1>3, <1>5, <1>7, <2>1 DEF Lock!Leave
  <1> QED BY <1>2, <1>4, <1>6, <1>7

(* Every behaviour of the shells is one of the recursive process lock: the *)
(* counter of each process, as the shell in a call knows it, and the flock *)
(* agree on who is inside and how often.                                   *)
THEOREM MutexImplementsLock ==
    ASSUME ~GroupSignals PROVE Spec => ImplementsProcessLock
  <1>1. Init => Lock!LockInit
    BY NoProcessAssumption DEF Init, Lock!LockInit, AbstractDepth, Pending, Alive, Role
  <1>2. IInv /\ [Next]_vars => [Lock!LockNext]_(Lock!lockVars)
    <2> SUFFICES ASSUME IInv, [Next]_vars
                 PROVE  [Lock!LockNext]_(Lock!lockVars)
      OBVIOUS
    <2> USE DEF Lock!LockNext, Lock!lockVars
    <2>1. ASSUME NEW p \in Process, NEW r \in Role, Shell(p, r)
          PROVE  [Lock!LockNext]_(Lock!lockVars)
      BY <2>1, LockGlobalMaps, UnlockGlobalMaps, OtherCommandsMap DEF Shell
    <2>2. ASSUME NEW p \in Process, EarlyExit(p) \/ Exit(p) \/ (Killed(p) /\ WatchdogDead(p))
          PROVE  [Lock!LockNext]_(Lock!lockVars)
      <3>1. /\ CloseAll(p) /\ WatchdogDead(p) /\ phase[p] \notin {"gone", "killed"}
            /\ phase' = [phase EXCEPT ![p] = phase'[p]]
            /\ \A q \in Process \ {p} : counter'[q] = counter[q]
        BY <2>2 DEF EarlyExit, Exit, Killed, IInv, TypeOK, CleanupOrder
      <3> QED BY <3>1, EndMaps
    <2>3. ASSUME NEW p \in Process, Killed(p), ~WatchdogDead(p)
          PROVE  [Lock!LockNext]_(Lock!lockVars)
      BY <2>3, KilledMaps
    <2>4. ASSUME NEW p \in Process, KillWatchdog(p)
          PROVE  [Lock!LockNext]_(Lock!lockVars)
      BY <2>4, KillWatchdogMaps
    <2>5. ASSUME NEW p \in Process,
                 \/ MainLocks(p) \/ MainUnlocks(p)
                 \/ WatchdogLocks(p) \/ WatchdogUnlocks(p)
                 \/ ArmCleanup(p) \/ StartWatchdog(p) \/ Trap(p) \/ LastUnlock(p)
          PROVE  UNCHANGED <<holder, AbstractDepth>>
      <3>1. UNCHANGED <<holder, counterOwner, counter, val>>
        BY <2>5 DEF MainLocks, MainUnlocks, WatchdogLocks, WatchdogUnlocks,
                    ArmCleanup, StartWatchdog, Trap, LastUnlock
      <3>2. \A q \in Process : Pending(q)' = Pending(q)
        BY <3>1 DEF Pending
      <3>3. \A q \in Process : Alive(q)' <=> Alive(q)
        BY <2>5
           DEF MainLocks, MainUnlocks, WatchdogLocks, WatchdogUnlocks, ArmCleanup,
               StartWatchdog, Trap, LastUnlock, Goto, IInv, TypeOK, CleanupOrder,
               Alive, Role
      <3>4. \A q \in Process : phase'[q] = "killed" <=> phase[q] = "killed"
        BY <2>5
           DEF MainLocks, MainUnlocks, WatchdogLocks, WatchdogUnlocks, ArmCleanup,
               StartWatchdog, Trap, LastUnlock, IInv, TypeOK
      <3> QED BY <3>1, <3>2, <3>3, <3>4 DEF AbstractDepth
    <2>6. CASE UNCHANGED vars
      BY <2>6 DEF vars, AbstractDepth, Alive, Pending
    <2> QED
      BY <2>1, <2>2, <2>3, <2>4, <2>5, <2>6 DEF Next, Interrupt
  <1> QED
    BY Invariance, <1>1, <1>2, PTL DEF Spec, ImplementsProcessLock, Lock!LockSpec

=============================================================================
