-------------------------- MODULE CreateAp_proofs ---------------------------
(***************************************************************************)
(* IInv of CreateAp is an invariant for every set of processes, uplinks    *)
(* and options: no two processes are in a registration or a cleanup at the *)
(* same time, and the original value of a common setting is never lost.    *)
(***************************************************************************)
EXTENDS CreateAp, TLAPS

(* The section of a process in its registration or its cleanup is one of   *)
(* those the depth of the lock covers.                                     *)
LEMMA CoveredIsExclusive == IInv => SectionsExclusive
  <1> SUFFICES ASSUME IInv, NEW p \in Process, pc[p] \in Registering \cup CleaningUp
               PROVE  holder = p
    BY DEF SectionsExclusive
  <1>1. Sections(p) >= 1
    BY DEF Sections, InSection
  <1> QED
    BY <1>1 DEF IInv, LockCovers, TypeOK, LockTypeOK, Sections, InSection

(* A process past the backup of a setting is seen as running.              *)
LEMMA SaversRun ==
  ASSUME IInv, NEW p \in Process, NEW s \in CommonSetting, pc[p] \in AfterSave(s)
  PROVE  Running(p)
  BY DEF IInv, UsersRegistered, Running, AfterSave, SetupLabel, Dead

(* The first state: nobody has started, nothing is saved.                  *)
LEMMA InitEstablishes == Init => IInv
  <1> SUFFICES ASSUME Init PROVE IInv
    OBVIOUS
  <1> USE DEF Init, LockInit
  <1>1. TypeOK
    BY DEF TypeOK, LockTypeOK, Label, Slot, NoSlot, Prefix
  <1>2. LockCovers
    <2>1. ASSUME NEW p \in Process PROVE Sections(p) = 0 /\ depth[p] = 0 /\ watchdog[p] = "none"
      BY DEF Sections, InSection, Registering, CleaningUp, CleanupLabel
    <2>2. 0 >= 0 /\ ~(0 > 0)
      OBVIOUS
    <2> QED BY <2>1, <2>2, Zenon DEF LockCovers
  <1>3. UsersRegistered /\ LastIsAlone /\ BackupsKept
    BY DEF UsersRegistered, LastIsAlone, Last, BackupsKept, AfterSave, SetupLabel
  <1>4. SettingsRecoverable
    BY CommonSettingAssumption DEF SettingsRecoverable, Recoverable, CommonSetting, Setting
  <1> QED
    BY <1>1, <1>2, <1>3, <1>4 DEF IInv

-----------------------------------------------------------------------------
(* An aborted setup goes to its cleanup, or hangs; it may have the lock    *)
(* once more, or once less when it was leaving its registration.           *)
LEMMA AbortMeans ==
  ASSUME NEW p \in Process, Abort(p) \/ AbortInMutex(p)
  PROVE  /\ pc[p] \in SetupLabel
         /\ pc' = [pc EXCEPT ![p] = "c_lock"] \/ pc' = [pc EXCEPT ![p] = "hung"]
         /\ UNCHANGED lockVars \/ Enter(p) \/ (pc[p] = "unlock" /\ Leave(p))
         /\ UNCHANGED <<shellVars, childVars, systemVars>>
  BY DEF Abort, AbortInMutex, ShortSection, AfterListing, SetupLabel, Goto

(* A setting that is put back from its backup has a value again, and an    *)
(* interface that is deleted leaves well-formed tables.                    *)
LEMMA RestoreKeepsTypes ==
  ASSUME IInv, NEW p \in Process, NEW s \in Setting,
         NEW label, NEW next \in Label, Restore(p, s, label, next)
  PROVE  TypeOK'
  <1> USE DEF IInv, TypeOK, LockTypeOK
  <1>1. value' \in [Setting -> {"on", "off"}]
    <2>1. CASE common[p] /\ saved[s] # "unsaved"
      <3>1. saved[s] \in {"on", "off"}
        BY <2>1
      <3> QED BY <2>1, <3>1 DEF Restore, Written
    <2>2. CASE ~(common[p] /\ saved[s] # "unsaved")
      BY <2>2 DEF Restore
    <2> QED BY <2>1, <2>2
  <1>2. saved' \in [Setting -> {"on", "off", "unsaved"}]
    BY DEF Restore
  <1>3. pc' \in [Process -> Label]
    BY DEF Restore, At, Goto
  <1> QED
    BY <1>1, <1>2, <1>3 DEF Restore, At, lockVars, shellVars, childVars

LEMMA DeleteKeepsTypes ==
  ASSUME IInv, NEW p \in Process, NEW x \in Prefix,
         NEW label, NEW next \in Label, DeleteInterface(p, x, label, next)
  PROVE  TypeOK'
  <1> USE DEF IInv, TypeOK, LockTypeOK
  <1>1. net' \in [Prefix -> [Slot -> Process \cup {NoProcess}]]
    <2>1. CASE iface[p][x] # NoSlot
      <3>1. iface[p][x] \in Slot
        BY <2>1
      <3>2. net' = [net EXCEPT ![x][iface[p][x]] = NoProcess]
        BY <2>1 DEF DeleteInterface
      <3>3. net' = [net EXCEPT ![x] = [net[x] EXCEPT ![iface[p][x]] = NoProcess]]
        BY <3>2
      <3> QED BY <3>1, <3>3
    <2>2. CASE iface[p][x] = NoSlot
      BY <2>2 DEF DeleteInterface
    <2> QED BY <2>1, <2>2
  <1>2. reserved' \subseteq Prefix \X Slot
    BY DEF DeleteInterface
  <1>3. pc' \in [Process -> Label]
    BY DEF DeleteInterface, At, Goto
  <1> QED
    BY <1>1, <1>2, <1>3 DEF DeleteInterface, At, lockVars, shellVars, childVars

(* Every step keeps every variable within its type.                        *)
LEMMA StepKeepsTypes == ASSUME IInv, [Next]_vars PROVE TypeOK'
  <1> USE NoProcessAssumption, InternetAssumption, MaxSlotAssumption DEF IInv
  <1> USE DEF Goto, At, lockVars, shellVars, childVars, systemVars, TypeOK, LockTypeOK, Label,
          SetupLabel, CleanupLabel, Dead, Slot, NoSlot, Prefix, Setting, CommonSetting
  <1>1. ASSUME NEW p \in Process, Register(p) PROVE TypeOK'
    <2>1. CASE LockRegistry(p)
      BY <2>1 DEF LockRegistry, Enter
    <2>2. CASE MakeConfdir(p)
      BY <2>2 DEF MakeConfdir
    <2>3. CASE MakeCommonConfdir(p)
      BY <2>3 DEF MakeCommonConfdir
    <2>4. CASE SaveForwarding(p)
      BY <2>4 DEF SaveForwarding, Save
    <2>5. CASE SaveIpForward(p)
      BY <2>5 DEF SaveIpForward, Save
    <2>6. CASE SaveBridgeNf(p)
      BY <2>6 DEF SaveBridgeNf, Save
    <2>7. CASE UnlockRegistry(p)
      BY <2>7 DEF UnlockRegistry, Leave, AfterBridge
    <2> QED
      BY <1>1, <2>1, <2>2, <2>3, <2>4, <2>5, <2>6, <2>7 DEF Register
  <1>2. ASSUME NEW p \in Process, SetUp(p) PROVE TypeOK'
    <2>1. CASE AllocBridge(p)
      BY <2>1 DEF AllocBridge, AllocNewIface, Free, Locked, AfterBridge
    <2>2. CASE AllocVirtual(p)
      BY <2>2 DEF AllocVirtual, AllocNewIface, Free, Locked
    <2>3. CASE AddVirtual(p)
      BY <2>3 DEF AddVirtual, AddInterface
    <2>4. CASE AddVirtualFails(p)
      BY <2>4 DEF AddVirtualFails
    <2>5. CASE ListInstance(p)
      BY <2>5 DEF ListInstance, Locked, AfterListing
    <2>6. CASE SetForwarding(p)
      BY <2>6 DEF SetForwarding, Set, Written
    <2>7. CASE SetIpForward(p)
      BY <2>7 DEF SetIpForward, Set, Written
    <2>8. CASE SetBridgeNf(p)
      BY <2>8 DEF SetBridgeNf, Set, Written
    <2>9. CASE AddBridge(p)
      BY <2>9 DEF AddBridge, AddInterface
    <2>10. CASE StartDnsmasq(p)
      BY <2>10 DEF StartDnsmasq
    <2>11. CASE StartWatchdog(p)
      BY <2>11 DEF StartWatchdog
    <2>12. CASE NoteWatchdogPid(p)
      BY <2>12 DEF NoteWatchdogPid
    <2>13. CASE StartHostapd(p)
      BY <2>13 DEF StartHostapd
    <2>14. CASE NoteHostapdPid(p)
      BY <2>14 DEF NoteHostapdPid
    <2>15. CASE WaitReturns(p)
      BY <2>15 DEF WaitReturns
    <2> QED
      BY <1>2, <2>1, <2>2, <2>3, <2>4, <2>5, <2>6, <2>7, <2>8, <2>9, <2>10, <2>11, <2>12,
         <2>13, <2>14, <2>15 DEF SetUp
  <1>3. ASSUME NEW p \in Process, CleanUp(p) PROVE TypeOK'
    <2>1. CASE LockCleanup(p)
      BY <2>1 DEF LockCleanup, Enter
    <2>2. CASE KillChildren(p)
      BY <2>2 DEF KillChildren
    <2>3. CASE RemoveConfdir(p)
      BY <2>3 DEF RemoveConfdir
    <2>4. CASE RestoreForwarding(p)
      <3>1. Internet[p] \in Setting /\ "c_scan" \in Label
        BY DEF Setting, CommonSetting, Label, CleanupLabel
      <3> QED BY <2>4, <3>1, RestoreKeepsTypes DEF RestoreForwarding
    <2>5. CASE KeepForwarding(p)
      BY <2>5 DEF KeepForwarding
    <2>6. CASE LockScan(p)
      BY <2>6 DEF LockScan, Enter
    <2>7. CASE FindRunning(p)
      BY <2>7 DEF FindRunning, Leave
    <2>8. CASE FindNoneRunning(p)
      BY <2>8 DEF FindNoneRunning, Enter
    <2>9. CASE KillHaveged(p)
      BY <2>9 DEF KillHaveged, DropOrphanedLock
    <2>10. CASE RestoreIpForward(p)
      <3>1. "ip_forward" \in Setting /\ "c_nf" \in Label
        BY DEF Setting, CommonSetting, Label, CleanupLabel
      <3> QED BY <2>10, <3>1, RestoreKeepsTypes DEF RestoreIpForward
    <2>11. CASE RestoreBridgeNf(p)
      <3>1. "bridge_nf" \in Setting /\ "c_rmcommon" \in Label
        BY DEF Setting, CommonSetting, Label, CleanupLabel
      <3> QED BY <2>11, <3>1, RestoreKeepsTypes DEF RestoreBridgeNf
    <2>12. CASE RemoveCommonConfdir(p)
      BY <2>12 DEF RemoveCommonConfdir
    <2>13. CASE DeleteBridge(p)
      <3>1. "br" \in Prefix /\ "c_virtual" \in Label
        BY DEF Prefix, Label, CleanupLabel
      <3> QED BY <2>13, <3>1, DeleteKeepsTypes DEF DeleteBridge
    <2>14. CASE DeleteVirtual(p)
      <3>1. "ap" \in Prefix /\ "c_unlock" \in Label
        BY DEF Prefix, Label, CleanupLabel
      <3> QED BY <2>14, <3>1, DeleteKeepsTypes DEF DeleteVirtual
    <2>15. CASE UnlockCleanup(p)
      BY <2>15 DEF UnlockCleanup, Leave
    <2>16. CASE Exit(p)
      BY <2>16 DEF Exit, DropOrphanedLock
    <2> QED
      BY <1>3, <2>1, <2>2, <2>3, <2>4, <2>5, <2>6, <2>7, <2>8, <2>9, <2>10, <2>11, <2>12,
         <2>13, <2>14, <2>15, <2>16 DEF CleanUp
  <1>4. ASSUME NEW p \in Process, Watchdog(p) PROVE TypeOK'
    <2>1. CASE WatchdogFindsNone(p)
      BY <2>1 DEF WatchdogFindsNone, WatchdogStep
    <2>2. CASE WatchdogLocks(p)
      BY <2>2 DEF WatchdogLocks, WatchdogStep, Enter
    <2>3. CASE WatchdogStartsHaveged(p)
      BY <2>3 DEF WatchdogStartsHaveged, WatchdogStep
    <2>4. CASE WatchdogUnlocks(p)
      BY <2>4 DEF WatchdogUnlocks, WatchdogStep, Leave
    <2> QED
      BY <1>4, <2>1, <2>2, <2>3, <2>4 DEF Watchdog
  <1>5. ASSUME NEW p \in Process, Environment(p) PROVE TypeOK'
    <2>1. CASE QuitEarly(p)
      BY <2>1 DEF QuitEarly
    <2>2. CASE Abort(p) \/ AbortInMutex(p)
      <3>1. LockTypeOK'
        <4>1. CASE UNCHANGED lockVars
          BY <4>1
        <4>2. CASE Enter(p)
          BY <4>2 DEF Enter
        <4>3. CASE Leave(p)
          BY <4>3 DEF Leave
        <4> QED BY <2>2, <4>1, <4>2, <4>3, AbortMeans
      <3>2. pc' \in [Process -> Label]
        <4>1. pc' = [pc EXCEPT ![p] = "c_lock"] \/ pc' = [pc EXCEPT ![p] = "hung"]
          BY <2>2, AbortMeans
        <4>2. {"c_lock", "hung"} \subseteq Label
          BY DEF Label, CleanupLabel
        <4>3. pc \in [Process -> Label]
          OBVIOUS
        <4> HIDE DEF IInv, TypeOK, Label
        <4> QED BY <4>1, <4>2, <4>3
      <3>3. UNCHANGED <<shellVars, childVars, systemVars>>
        BY <2>2, AbortMeans
      <3> HIDE DEF LockTypeOK, Label
      <3> QED BY <3>1, <3>2, <3>3, SMTT(60)
    <2>3. CASE Crash(p)
      BY <2>3 DEF Crash, DropOrphanedLock
    <2>4. CASE HostapdEnds(p)
      BY <2>4 DEF HostapdEnds, DropOrphanedLock
    <2> QED
      BY <1>5, <2>1, <2>2, <2>3, <2>4 DEF Environment
  <1>6. CASE UNCHANGED vars
    BY <1>6 DEF vars
  <1> QED
    BY <1>1, <1>2, <1>3, <1>4, <1>5, <1>6 DEF Next

(* Only mutex_unlock gives the lock up while its process lives, and every  *)
(* mutex_unlock but those of a running instance found and of the watchdog  *)
(* ends the section it belongs to.                                         *)
LEMMA StepKeepsCover == ASSUME IInv, [Next]_vars PROVE LockCovers'
  <1> USE NoProcessAssumption, InternetAssumption, CommonSettingAssumption,
          MaxSlotAssumption DEF IInv, TypeOK
  <1> USE DEF Goto, At, lockVars, shellVars, childVars, systemVars, LockTypeOK, LockCovers, Sections,
          InSection, Registering, CleaningUp, SetupLabel, CleanupLabel, KeepsLockFile, Dead
  <1>1. ASSUME NEW p \in Process, Register(p) PROVE LockCovers'
    BY <1>1, SMTT(60)
       DEF Register, LockRegistry, Enter, MakeConfdir, MakeCommonConfdir, SaveForwarding,
           Save, SaveIpForward, SaveBridgeNf, UnlockRegistry, Leave, AfterBridge
  <1>2. ASSUME NEW p \in Process, SetUp(p) PROVE LockCovers'
    BY <1>2, SMTT(60)
       DEF SetUp, AllocBridge, AllocNewIface, Free, Locked, AfterBridge, AllocVirtual,
           AddVirtual, AddInterface, AddVirtualFails, ListInstance, AfterListing,
           SetForwarding, Set, Written, SetIpForward, SetBridgeNf, AddBridge,
           StartDnsmasq, StartWatchdog, NoteWatchdogPid, StartHostapd, NoteHostapdPid,
           WaitReturns
  <1>3. ASSUME NEW p \in Process, CleanUp(p) PROVE LockCovers'
    BY <1>3, SMTT(60)
       DEF CleanUp, LockCleanup, Enter, KillChildren, RemoveConfdir, RestoreForwarding,
           Restore, Written, KeepForwarding, LockScan, FindRunning, Leave,
           FindNoneRunning, KillHaveged, DropOrphanedLock, RestoreIpForward,
           RestoreBridgeNf, RemoveCommonConfdir, DeleteBridge, DeleteInterface,
           DeleteVirtual, UnlockCleanup, Exit
  <1>4. ASSUME NEW p \in Process, Watchdog(p) PROVE LockCovers'
    BY <1>4, SMTT(60)
       DEF Watchdog, WatchdogFindsNone, WatchdogStep, WatchdogLocks, Enter,
           WatchdogStartsHaveged, WatchdogUnlocks, Leave
  <1>5. ASSUME NEW p \in Process, Environment(p) PROVE LockCovers'
    <2>1. CASE QuitEarly(p)
      BY <2>1 DEF QuitEarly
    <2>2. CASE Abort(p) \/ AbortInMutex(p)
      <3>1. CASE UNCHANGED lockVars
        BY <2>2, <3>1, AbortMeans, SMTT(60)
      <3>2. CASE Enter(p)
        BY <2>2, <3>2, AbortMeans, SMTT(60) DEF Enter
      <3>3. CASE pc[p] = "unlock" /\ Leave(p)
        BY <2>2, <3>3, AbortMeans, SMTT(120) DEF Leave
      <3> QED BY <2>2, <3>1, <3>2, <3>3, AbortMeans
    <2>3. CASE Crash(p)
      BY <2>3, SMTT(60) DEF Crash, DropOrphanedLock
    <2>4. CASE HostapdEnds(p)
      BY <2>4, SMTT(60) DEF HostapdEnds, DropOrphanedLock
    <2> QED
      BY <1>5, <2>1, <2>2, <2>3, <2>4 DEF Environment
  <1>6. CASE UNCHANGED vars
    BY <1>6 DEF vars
  <1> QED
    BY <1>1, <1>2, <1>3, <1>4, <1>5, <1>6 DEF Next

(* CONFDIR/pid is written before COMMON_CONFDIR is used, and removed only  *)
(* by the cleanup of its own process.                                      *)
LEMMA StepKeepsUsers == ASSUME IInv, [Next]_vars PROVE UsersRegistered'
  <1> USE NoProcessAssumption, InternetAssumption, CommonSettingAssumption,
          MaxSlotAssumption DEF IInv, TypeOK
  <1> USE DEF Goto, At, lockVars, shellVars, childVars, systemVars, UsersRegistered, SetupLabel,
          CleanupLabel, Dead
  <1>1. ASSUME NEW p \in Process, Register(p) PROVE UsersRegistered'
    BY <1>1, SMTT(60)
       DEF Register, LockRegistry, Enter, MakeConfdir, MakeCommonConfdir, SaveForwarding,
           Save, SaveIpForward, SaveBridgeNf, UnlockRegistry, Leave, AfterBridge
  <1>2. ASSUME NEW p \in Process, SetUp(p) PROVE UsersRegistered'
    BY <1>2, SMTT(60)
       DEF SetUp, AllocBridge, AllocNewIface, Free, Locked, AfterBridge, AllocVirtual,
           AddVirtual, AddInterface, AddVirtualFails, ListInstance, AfterListing,
           SetForwarding, Set, Written, SetIpForward, SetBridgeNf, AddBridge,
           StartDnsmasq, StartWatchdog, NoteWatchdogPid, StartHostapd, NoteHostapdPid,
           WaitReturns
  <1>3. ASSUME NEW p \in Process, CleanUp(p) PROVE UsersRegistered'
    BY <1>3, SMTT(60)
       DEF CleanUp, LockCleanup, Enter, KillChildren, RemoveConfdir, RestoreForwarding,
           Restore, Written, KeepForwarding, LockScan, FindRunning, Leave,
           FindNoneRunning, KillHaveged, DropOrphanedLock, RestoreIpForward,
           RestoreBridgeNf, RemoveCommonConfdir, DeleteBridge, DeleteInterface,
           DeleteVirtual, UnlockCleanup, Exit
  <1>4. ASSUME NEW p \in Process, Watchdog(p) PROVE UsersRegistered'
    BY <1>4, SMTT(60)
       DEF Watchdog, WatchdogFindsNone, WatchdogStep, WatchdogLocks, Enter,
           WatchdogStartsHaveged, WatchdogUnlocks, Leave
  <1>5. ASSUME NEW p \in Process, Environment(p) PROVE UsersRegistered'
    BY <1>5, SMTT(60)
       DEF Environment, QuitEarly, Abort, AbortInMutex, ShortSection, AfterListing,
          Enter, Leave, Crash,
           DropOrphanedLock, HostapdEnds
  <1>6. CASE UNCHANGED vars
    BY <1>6 DEF vars
  <1> QED
    BY <1>1, <1>2, <1>3, <1>4, <1>5, <1>6 DEF Next

-----------------------------------------------------------------------------
(* While one process is the last, the lock keeps registrations out; only   *)
(* a registration makes a process running.                                 *)
LEMMA StepKeepsLast == ASSUME IInv, [Next]_vars PROVE LastIsAlone'
  <1> USE NoProcessAssumption DEF IInv, TypeOK, LastIsAlone, Last, NoneRunning, Running,
      Goto, At, Dead
  <1>0. SectionsExclusive
    BY CoveredIsExclusive
  <1>1. ASSUME NEW p \in Process, Register(p) PROVE LastIsAlone'
    <2>1. ASSUME pc[p] \in Registering PROVE \A q \in Process : pc[q] \notin CleaningUp
      BY <1>0, <2>1 DEF SectionsExclusive, Registering, CleaningUp, CleanupLabel
    <2>2. CASE LockRegistry(p)
      BY <2>2 DEF LockRegistry, shellVars, systemVars
    <2>3. CASE ~LockRegistry(p)
      <3>1. /\ pc[p] \in Registering
            /\ \A q \in Process \ {p} : pc'[q] = pc[q]
            /\ pc'[p] \notin CleaningUp
        BY <1>1, <2>3
           DEF Register, LockRegistry, MakeConfdir, MakeCommonConfdir, SaveForwarding,
            SaveIpForward, SaveBridgeNf, UnlockRegistry, Save, Registering, AfterBridge, CleaningUp, CleanupLabel
      <3>2. \A q \in Process : pc'[q] \notin CleaningUp
        BY <2>1, <3>1
      <3> QED BY <3>2 DEF CleaningUp, CleanupLabel
    <2> QED BY <2>2, <2>3
  <1>2. ASSUME NEW p \in Process, SetUp(p) PROVE LastIsAlone'
    <2>1. saved' = saved /\ common' = common
      BY <1>2
         DEF SetUp, AllocBridge, AllocNewIface, AllocVirtual, AddVirtual, AddInterface,
             AddVirtualFails, ListInstance, SetForwarding, Set, SetIpForward, SetBridgeNf,
             AddBridge, StartDnsmasq, StartWatchdog, NoteWatchdogPid, StartHostapd,
             NoteHostapdPid, WaitReturns, AfterBridge, AfterListing, shellVars, systemVars
    <2>2. \A q \in Process \ {p} : pc'[q] = pc[q]
      BY <1>2
         DEF SetUp, AllocBridge, AllocNewIface, AllocVirtual, AddVirtual, AddInterface,
             AddVirtualFails, ListInstance, SetForwarding, Set, SetIpForward, SetBridgeNf,
             AddBridge, StartDnsmasq, StartWatchdog, NoteWatchdogPid, StartHostapd,
             NoteHostapdPid, WaitReturns, AfterBridge, AfterListing, shellVars, systemVars
    <2>3. pc[p] \in SetupLabel
      BY <1>2
         DEF SetUp, AllocBridge, AllocNewIface, AllocVirtual, AddVirtual, AddInterface,
             AddVirtualFails, ListInstance, SetForwarding, Set, SetIpForward, SetBridgeNf,
             AddBridge, StartDnsmasq, StartWatchdog, NoteWatchdogPid, StartHostapd,
             NoteHostapdPid, WaitReturns, AfterBridge, AfterListing, shellVars,
             systemVars, SetupLabel
    <2>4. pc'[p] \in SetupLabel \cup {"c_lock"}
      BY <1>2
         DEF SetUp, AllocBridge, AllocNewIface, AllocVirtual, AddVirtual, AddInterface,
             AddVirtualFails, ListInstance, SetForwarding, Set, SetIpForward, SetBridgeNf,
             AddBridge, StartDnsmasq, StartWatchdog, NoteWatchdogPid, StartHostapd,
             NoteHostapdPid, WaitReturns, AfterBridge, AfterListing, shellVars,
             systemVars, SetupLabel
    <2>5. \A q \in Process : "pid" \in confdir'[q] => "pid" \in confdir[q]
      <3>1. \/ confdir' = confdir
            \/ \E f \in {"wifi_iface", "dnsmasq", "hostapd"} :
                  confdir' = [confdir EXCEPT ![p] = @ \cup {f}]
        BY <1>2
           DEF SetUp, AllocBridge, AllocNewIface, AllocVirtual, AddVirtual, AddInterface,
               AddVirtualFails, ListInstance, SetForwarding, Set, SetIpForward, SetBridgeNf,
               AddBridge, StartDnsmasq, StartWatchdog, NoteWatchdogPid, StartHostapd,
               NoteHostapdPid, WaitReturns, AfterBridge, AfterListing, shellVars, systemVars
      <3> QED BY <3>1, SMTT(60)
    <2> HIDE DEF Goto, At, TypeOK
    <2> QED BY <2>1, <2>2, <2>3, <2>4, <2>5 DEF SetupLabel
  <1>3. ASSUME NEW p \in Process, CleanUp(p) PROVE LastIsAlone'
    <2>0. \A x \in Process : Running(x)' => Running(x)
      BY <1>3
         DEF CleanUp, LockCleanup, KillChildren, RemoveConfdir, RestoreForwarding,
             Restore, KeepForwarding, LockScan, FindRunning, FindNoneRunning, KillHaveged,
             RestoreIpForward, RestoreBridgeNf, RemoveCommonConfdir, DeleteBridge,
             DeleteInterface, DeleteVirtual, UnlockCleanup, Exit, shellVars, systemVars
    <2>1. common' = common
      BY <1>3
         DEF CleanUp, LockCleanup, KillChildren, RemoveConfdir, RestoreForwarding,
             Restore, KeepForwarding, LockScan, FindRunning, FindNoneRunning, KillHaveged,
             RestoreIpForward, RestoreBridgeNf, RemoveCommonConfdir, DeleteBridge,
             DeleteInterface, DeleteVirtual, UnlockCleanup, Exit, shellVars, systemVars
    <2>2. \A q \in Process \ {p} : pc'[q] = pc[q]
      BY <1>3
         DEF CleanUp, LockCleanup, KillChildren, RemoveConfdir, RestoreForwarding,
             Restore, KeepForwarding, LockScan, FindRunning, FindNoneRunning, KillHaveged,
             RestoreIpForward, RestoreBridgeNf, RemoveCommonConfdir, DeleteBridge,
             DeleteInterface, DeleteVirtual, UnlockCleanup, Exit, shellVars, systemVars
    <2>3. \A s \in CommonSetting : saved[s] = "unsaved" => saved'[s] = "unsaved"
      BY <1>3, CommonSettingAssumption
         DEF CleanUp, LockCleanup, KillChildren, RemoveConfdir, RestoreForwarding,
             Restore, KeepForwarding, LockScan, FindRunning, FindNoneRunning, KillHaveged,
             RestoreIpForward, RestoreBridgeNf, RemoveCommonConfdir, DeleteBridge,
             DeleteInterface, DeleteVirtual, UnlockCleanup, Exit, shellVars, systemVars,
             CommonSetting, Setting
    <2>4. pc'[p] \in Last => pc[p] \in Last \/ \A q \in Process : ~Running(q)
      BY <1>3
         DEF CleanUp, LockCleanup, KillChildren, RemoveConfdir, RestoreForwarding,
             Restore, KeepForwarding, LockScan, FindRunning, FindNoneRunning, KillHaveged,
             RestoreIpForward, RestoreBridgeNf, RemoveCommonConfdir, DeleteBridge,
             DeleteInterface, DeleteVirtual, UnlockCleanup, Exit, shellVars, systemVars,
             Last
    <2>5. pc'[p] \in {"c_nf", "c_rmcommon"} /\ common[p] => saved'["ip_forward"] = "unsaved"
      BY <1>3, CommonSettingAssumption
         DEF CleanUp, LockCleanup, KillChildren, RemoveConfdir, RestoreForwarding,
             Restore, KeepForwarding, LockScan, FindRunning, FindNoneRunning, KillHaveged,
             RestoreIpForward, RestoreBridgeNf, RemoveCommonConfdir, DeleteBridge,
             DeleteInterface, DeleteVirtual, UnlockCleanup, Exit, shellVars, systemVars,
             CommonSetting, Setting
    <2>6. pc'[p] = "c_rmcommon" /\ common[p] => saved'["bridge_nf"] = "unsaved"
      BY <1>3, CommonSettingAssumption
         DEF CleanUp, LockCleanup, KillChildren, RemoveConfdir, RestoreForwarding,
             Restore, KeepForwarding, LockScan, FindRunning, FindNoneRunning, KillHaveged,
             RestoreIpForward, RestoreBridgeNf, RemoveCommonConfdir, DeleteBridge,
             DeleteInterface, DeleteVirtual, UnlockCleanup, Exit, shellVars, systemVars,
             CommonSetting, Setting
    <2> HIDE DEF Goto, At, TypeOK, Running
    <2> QED BY <2>0, <2>1, <2>2, <2>3, <2>4, <2>5, <2>6 DEF Last, CommonSetting
  <1>4. ASSUME NEW p \in Process, Watchdog(p) PROVE LastIsAlone'
    BY <1>4
       DEF Watchdog, WatchdogStep, WatchdogFindsNone, WatchdogLocks,
           WatchdogStartsHaveged, WatchdogUnlocks, shellVars, systemVars
  <1>5. ASSUME NEW p \in Process, Environment(p) PROVE LastIsAlone'
    <2>1. CASE Abort(p) \/ AbortInMutex(p)
      <3>1. /\ pc[p] \in SetupLabel
            /\ pc' = [pc EXCEPT ![p] = "c_lock"] \/ pc' = [pc EXCEPT ![p] = "hung"]
            /\ UNCHANGED <<shellVars, systemVars>>
        BY <2>1, AbortMeans
      <3> QED BY <3>1, SMTT(60) DEF SetupLabel, shellVars, systemVars
    <2>2. CASE QuitEarly(p)
      BY <2>2 DEF QuitEarly, shellVars, systemVars
    <2>3. CASE Crash(p)
      BY <2>3 DEF Crash, shellVars, systemVars
    <2>4. CASE HostapdEnds(p)
      BY <2>4 DEF HostapdEnds, shellVars, systemVars
    <2> QED BY <1>5, <2>1, <2>2, <2>3, <2>4 DEF Environment
  <1>6. CASE UNCHANGED vars
    BY <1>6 DEF vars, shellVars, systemVars
  <1> QED BY <1>1, <1>2, <1>3, <1>4, <1>5, <1>6 DEF Next


(* A backup that a process has made or found is dropped only by the last.  *)
LEMMA StepKeepsBackups == ASSUME IInv, [Next]_vars PROVE BackupsKept'
  <1> USE NoProcessAssumption, InternetAssumption, CommonSettingAssumption,
          MaxSlotAssumption DEF IInv, TypeOK
  <1> USE DEF Goto, At, lockVars, shellVars, childVars, systemVars, BackupsKept, AfterSave, SetupLabel,
          CommonSetting, Setting, CleanupLabel, Dead
  <1>1. ASSUME NEW p \in Process, Register(p) PROVE BackupsKept'
    <2>1. CASE LockRegistry(p)
      BY <2>1 DEF LockRegistry, Enter
    <2>2. CASE MakeConfdir(p)
      BY <2>2 DEF MakeConfdir
    <2>3. CASE MakeCommonConfdir(p)
      BY <2>3 DEF MakeCommonConfdir
    <2>4. CASE SaveForwarding(p)
      BY <2>4 DEF SaveForwarding, Save
    <2>5. CASE SaveIpForward(p)
      <3>1. /\ saved'["ip_forward"] # "unsaved"
            /\ \A s \in CommonSetting : saved[s] # "unsaved" => saved'[s] # "unsaved"
        BY <2>5, SMTT(60) DEF SaveIpForward, Save
      <3>2. pc[p] = "save_ip" /\ pc' = [pc EXCEPT ![p] = "save_nf"]
        BY <2>5 DEF SaveIpForward, Save
      <3> QED BY <3>1, <3>2, SMTT(60)
    <2>6. CASE SaveBridgeNf(p)
      <3>1. /\ saved'["bridge_nf"] # "unsaved"
            /\ \A s \in CommonSetting : saved[s] # "unsaved" => saved'[s] # "unsaved"
        BY <2>6, SMTT(60) DEF SaveBridgeNf, Save
      <3>2. pc[p] = "save_nf" /\ pc' = [pc EXCEPT ![p] = "unlock"]
        BY <2>6 DEF SaveBridgeNf, Save
      <3> QED BY <3>1, <3>2, SMTT(60)
    <2>7. CASE UnlockRegistry(p)
      BY <2>7 DEF UnlockRegistry, Leave, AfterBridge
    <2> QED
      BY <1>1, <2>1, <2>2, <2>3, <2>4, <2>5, <2>6, <2>7 DEF Register
  <1>2. ASSUME NEW p \in Process, SetUp(p) PROVE BackupsKept'
    BY <1>2, SMTT(60)
       DEF SetUp, AllocBridge, AllocNewIface, Free, Locked, AfterBridge, AllocVirtual,
           AddVirtual, AddInterface, AddVirtualFails, ListInstance, AfterListing,
           SetForwarding, Set, Written, SetIpForward, SetBridgeNf, AddBridge,
           StartDnsmasq, StartWatchdog, NoteWatchdogPid, StartHostapd, NoteHostapdPid,
           WaitReturns
  <1>3. ASSUME NEW p \in Process, CleanUp(p) PROVE BackupsKept'
    <2>1. /\ pc[p] \notin SetupLabel /\ pc'[p] \notin SetupLabel
          /\ \A q \in Process \ {p} : pc'[q] = pc[q]
      BY <1>3
         DEF CleanUp, LockCleanup, Enter, KillChildren, RemoveConfdir, RestoreForwarding,
             Restore, Written, KeepForwarding, LockScan, FindRunning, Leave,
             FindNoneRunning, KillHaveged, DropOrphanedLock, RestoreIpForward,
             RestoreBridgeNf, RemoveCommonConfdir, DeleteBridge, DeleteInterface,
             DeleteVirtual, UnlockCleanup, Exit, Goto, At, shellVars, systemVars,
             SetupLabel
    <2>2. CASE pc[p] \in Last
      <3>1. \A q \in Process : ~Running(q)
        BY <2>2 DEF LastIsAlone, NoneRunning
      <3>2. \A q \in Process : \A s \in CommonSetting : pc[q] \notin AfterSave(s)
        BY <3>1, SaversRun
      <3> QED BY <2>1, <3>2, SMTT(60) DEF BackupsKept, AfterSave
    <2>3. CASE pc[p] \notin Last
      <3>1. \A s \in CommonSetting : saved'[s] = saved[s]
        BY <1>3, <2>3, InternetAssumption, CommonSettingAssumption
          DEF Last, CleanUp, LockCleanup, Enter, KillChildren, RemoveConfdir,
             RestoreForwarding, Restore, Written, KeepForwarding, LockScan,
             FindRunning, Leave, FindNoneRunning, KillHaveged, DropOrphanedLock,
             RestoreIpForward, RestoreBridgeNf, RemoveCommonConfdir, DeleteBridge,
             DeleteInterface, DeleteVirtual, UnlockCleanup, Exit, Goto, At, shellVars,
             systemVars, CommonSetting, Setting
      <3> QED BY <2>1, <3>1 DEF BackupsKept, AfterSave
    <2> QED BY <2>2, <2>3
  <1>4. ASSUME NEW p \in Process, Watchdog(p) PROVE BackupsKept'
    BY <1>4, SMTT(60)
       DEF Watchdog, WatchdogFindsNone, WatchdogStep, WatchdogLocks, Enter,
           WatchdogStartsHaveged, WatchdogUnlocks, Leave
  <1>5. ASSUME NEW p \in Process, Environment(p) PROVE BackupsKept'
    BY <1>5, SMTT(60)
       DEF Environment, QuitEarly, Abort, AbortInMutex, ShortSection, AfterListing,
          Enter, Leave, Crash,
           DropOrphanedLock, HostapdEnds
  <1>6. CASE UNCHANGED vars
    BY <1>6 DEF vars
  <1> QED
    BY <1>1, <1>2, <1>3, <1>4, <1>5, <1>6 DEF Next

(* A setting is changed only after its backup was made, and put back from  *)
(* its backup when that is removed.                                        *)
LEMMA StepKeepsSettings == ASSUME IInv, [Next]_vars PROVE SettingsRecoverable'
  <1> USE NoProcessAssumption, InternetAssumption, CommonSettingAssumption,
          MaxSlotAssumption DEF IInv, TypeOK
  <1> USE DEF Goto, At, lockVars, shellVars, childVars, systemVars, BackupsKept, AfterSave, LastIsAlone, Last, NoneRunning,
          SettingsRecoverable, Recoverable, SetupLabel, CommonSetting, Setting
  <1>1. ASSUME NEW p \in Process, Register(p) PROVE SettingsRecoverable'
    BY <1>1, SMTT(60)
       DEF Register, LockRegistry, Enter, MakeConfdir, MakeCommonConfdir, SaveForwarding,
           Save, SaveIpForward, SaveBridgeNf, UnlockRegistry, Leave, AfterBridge
  <1>2. ASSUME NEW p \in Process, SetUp(p) PROVE SettingsRecoverable'
    BY <1>2, SMTT(60)
       DEF SetUp, AllocBridge, AllocNewIface, Free, Locked, AfterBridge, AllocVirtual,
           AddVirtual, AddInterface, AddVirtualFails, ListInstance, AfterListing,
           SetForwarding, Set, Written, SetIpForward, SetBridgeNf, AddBridge,
           StartDnsmasq, StartWatchdog, NoteWatchdogPid, StartHostapd, NoteHostapdPid,
           WaitReturns
  <1>3. ASSUME NEW p \in Process, CleanUp(p) PROVE SettingsRecoverable'
    BY <1>3, SMTT(60)
       DEF CleanUp, LockCleanup, Enter, KillChildren, RemoveConfdir, RestoreForwarding,
           Restore, Written, KeepForwarding, LockScan, FindRunning, Leave,
           FindNoneRunning, KillHaveged, DropOrphanedLock, RestoreIpForward,
           RestoreBridgeNf, RemoveCommonConfdir, DeleteBridge, DeleteInterface,
           DeleteVirtual, UnlockCleanup, Exit
  <1>4. ASSUME NEW p \in Process, Watchdog(p) PROVE SettingsRecoverable'
    BY <1>4, SMTT(60)
       DEF Watchdog, WatchdogFindsNone, WatchdogStep, WatchdogLocks, Enter,
           WatchdogStartsHaveged, WatchdogUnlocks, Leave
  <1>5. ASSUME NEW p \in Process, Environment(p) PROVE SettingsRecoverable'
    BY <1>5, SMTT(60)
       DEF Environment, QuitEarly, Abort, AbortInMutex, ShortSection, AfterListing,
          Enter, Leave, Crash,
           DropOrphanedLock, HostapdEnds
  <1>6. CASE UNCHANGED vars
    BY <1>6 DEF vars
  <1> QED
    BY <1>1, <1>2, <1>3, <1>4, <1>5, <1>6 DEF Next

-----------------------------------------------------------------------------
(* IInv holds in every state of every behaviour.                           *)
THEOREM Invariance == Spec => []IInv
  <1>1. IInv /\ [Next]_vars => IInv'
    BY StepKeepsTypes, StepKeepsCover, StepKeepsUsers, StepKeepsLast,
       StepKeepsBackups, StepKeepsSettings DEF IInv
  <1> QED
    BY InitEstablishes, <1>1, PTL DEF Spec

(* No two create_ap processes are in a registration (lines 1596-1620) or   *)
(* a cleanup (706-832) at the same time, however they start, end and crash.*)
THEOREM RegistryIsExclusive == Spec => []SectionsExclusive
  BY Invariance, CoveredIsExclusive, PTL

(* The value ip_forward and bridge-nf-call-iptables had before the first   *)
(* create_ap is in force or in its backup, in every state (lines 736-757,  *)
(* 1615-1619): a cleanup that finds no instance running loses nothing.     *)
THEOREM CommonSettingsRecoverable == Spec => []SettingsRecoverable
  <1>1. IInv => SettingsRecoverable
    BY DEF IInv
  <1> QED
    BY Invariance, <1>1, PTL

-----------------------------------------------------------------------------
(* A process that ends, or a child that does, closes the lock file of at   *)
(* most one process: the one that has the lock.                            *)
LEMMA DropIsClose ==
  ASSUME TypeOK, DropOrphanedLock
  PROVE  UNCHANGED lockVars \/ \E q \in Process : Close(q)
  <1> DEFINE orphaned == {q \in Process : holder = q /\ ~KeepsLockFile(q)'}
  <1>1. /\ holder' = IF orphaned = {} THEN holder ELSE NoProcess
        /\ depth' = [q \in Process |-> IF q \in orphaned THEN 0 ELSE depth[q]]
    BY DEF DropOrphanedLock
  <1>2. depth \in [Process -> Nat]
    BY DEF TypeOK, LockTypeOK
  <1>3. orphaned = {} \/ (holder \in Process /\ orphaned = {holder})
    OBVIOUS
  <1> HIDE DEF orphaned
  <1>4. CASE orphaned = {}
    BY <1>1, <1>2, <1>4 DEF lockVars
  <1>5. CASE holder \in Process /\ orphaned = {holder}
    <2>1. depth' = [depth EXCEPT ![holder] = 0]
      BY <1>1, <1>2, <1>5
    <2>2. Close(holder)
      BY <1>1, <1>5, <2>1 DEF Close
    <2> QED BY <1>5, <2>2
  <1> QED BY <1>3, <1>4, <1>5

(* The instances use the lock as ProcessLock promises it, and nothing but  *)
(* what RecursiveMutex implements: they enter, leave, or end with it.      *)
THEOREM LockUsedAsPromised == Spec => LockSpec
  <1>1. Init => LockInit
    BY DEF Init
  <1>2. ASSUME TypeOK, [Next]_vars PROVE [LockNext]_lockVars
    <2> DEFINE Uses == UNCHANGED lockVars \/ \E q \in Process : Enter(q) \/ Leave(q) \/ Close(q)
    <2>1. ASSUME NEW p \in Process, Register(p) PROVE Uses
      BY <2>1 DEF Register, LockRegistry, MakeConfdir, MakeCommonConfdir, SaveForwarding, Save,
                  SaveIpForward, SaveBridgeNf, UnlockRegistry
    <2>2. ASSUME NEW p \in Process, SetUp(p) PROVE Uses
      BY <2>2 DEF SetUp, AllocBridge, AllocNewIface, Locked, AllocVirtual, AddVirtual,
                  AddInterface, AddVirtualFails, ListInstance, SetForwarding, Set,
                  SetIpForward, SetBridgeNf, AddBridge, StartDnsmasq, StartWatchdog,
                  NoteWatchdogPid, StartHostapd, NoteHostapdPid, WaitReturns
    <2>3. ASSUME NEW p \in Process, CleanUp(p) PROVE Uses
      <3>1. CASE KillHaveged(p) \/ Exit(p)
        BY <1>2, <3>1, DropIsClose DEF KillHaveged, Exit
      <3>2. CASE ~(KillHaveged(p) \/ Exit(p))
        BY <2>3, <3>2
           DEF CleanUp, LockCleanup, KillChildren, RemoveConfdir, RestoreForwarding, Restore,
               KeepForwarding, LockScan, FindRunning, FindNoneRunning, RestoreIpForward,
               RestoreBridgeNf, RemoveCommonConfdir, DeleteBridge, DeleteInterface,
               DeleteVirtual, UnlockCleanup
      <3> QED BY <3>1, <3>2
    <2>4. ASSUME NEW p \in Process, Watchdog(p) PROVE Uses
      BY <2>4 DEF Watchdog, WatchdogFindsNone, WatchdogLocks, WatchdogStartsHaveged,
                  WatchdogUnlocks
    <2>5. ASSUME NEW p \in Process, Environment(p) PROVE Uses
      <3>1. CASE QuitEarly(p)
        BY <3>1 DEF QuitEarly
      <3>2. CASE Abort(p) \/ AbortInMutex(p)
        BY <3>2, AbortMeans
      <3>3. CASE Crash(p) \/ HostapdEnds(p)
        BY <1>2, <3>3, DropIsClose DEF Crash, HostapdEnds
      <3> QED BY <2>5, <3>1, <3>2, <3>3 DEF Environment
    <2>6. ASSUME UNCHANGED vars PROVE Uses
      BY <2>6 DEF vars
    <2>7. Uses
      BY <1>2, <2>1, <2>2, <2>3, <2>4, <2>5, <2>6 DEF Next
    <2> QED BY <2>7 DEF LockNext
  <1>3. IInv => TypeOK
    BY DEF IInv
  <1> QED BY <1>1, <1>2, <1>3, Invariance, PTL DEF Spec, LockSpec
=============================================================================
