----------------------- MODULE CreateApShared_proofs ------------------------
(***************************************************************************)
(* What the instances of CreateAp share, beyond the settings of            *)
(* CreateAp_proofs and for every set of processes, uplinks and options: a  *)
(* serving instance keeps its settings and its interfaces, and when all    *)
(* have ended without a crash nothing of them is left.                     *)
(***************************************************************************)
EXTENDS CreateAp_proofs

(* What a process that shares has told the others: it is listed, with the  *)
(* uplink it uses, before it changes a setting (lines 1606, 1695-1698).    *)
ServersListed ==
    \A p \in Process :
        /\ pc[p] \in Sharing => "wifi_iface" \in confdir[p]
        /\ Share[p] = "nat" /\ pc[p] \in SetupLabel \ {"mkconf", "mkcommon"} =>
            "nat_internet_iface" \in confdir[p]
        /\ pc[p] \in {"set_dev", "set_ip"} => Share[p] = "nat"
        /\ pc[p] \in {"set_nf", "add_br"} => Share[p] = "bridge"
        /\ pc[p] = "dnsmasq" => Share[p] # "bridge"

SettingsSet ==
    \A p \in Process :
        /\ Share[p] = "nat" /\ pc[p] \in Serving \cup {"set_ip"} => value[Internet[p]] = "on"
        /\ Share[p] = "nat" /\ pc[p] \in Serving => value["ip_forward"] = "on"
        /\ Share[p] = "bridge" /\ pc[p] \in Serving \cup {"add_br"} => value["bridge_nf"] = "off"

KeptInv == ServersListed /\ SettingsSet

(* The order in which a process comes to its names.                        *)
BeforeNames == {"start", "alloc_br"} \cup Registering

NamesInOrder ==
    \A p \in Process :
        /\ \A x \in Prefix : iface[p][x] # NoSlot => common[p]
        /\ pc[p] \in BeforeNames \cup {"alloc_ap"} => iface[p]["ap"] = NoSlot
        /\ pc[p] \in BeforeNames => iface[p]["br"] = NoSlot
        /\ pc[p] = "alloc_br" => OwnBridge(p)
        /\ iface[p]["br"] # NoSlot => OwnBridge(p)
        /\ OwnBridge(p) /\ pc[p] \in SetupLabel \ BeforeNames => iface[p]["br"] # NoSlot
        /\ pc[p] = "add_ap" => iface[p]["ap"] # NoSlot
        /\ pc[p] = "add_br" => OwnBridge(p)
        /\ pc[p] = "hung" => "pid" \in confdir[p]

(* A name is reserved until its process deletes the interface, or has the  *)
(* lock and is about to.                                                   *)
NamesReserved ==
    \A p \in Process : \A x \in Prefix :
        UsesName(p, x) /\ pc[p] \notin {"c_bridge", "c_virtual"} =>
            <<x, iface[p][x]>> \in reserved

Created(p, x) ==
    \/ pc[p] \in Serving
    \/ x = "ap" /\ pc[p] \in Sharing \cup {"list"}

NamesOwned ==
    \A p \in Process : \A x \in Prefix : UsesName(p, x) =>
        /\ net[x][iface[p][x]] \in {p, NoProcess}
        /\ Created(p, x) => net[x][iface[p][x]] = p
        /\ \A q \in Process \ {p} : UsesName(q, x) => iface[q][x] # iface[p][x]

NamesInv == NamesInOrder /\ NamesReserved /\ NamesOwned

(* Who will restore and remove what is in COMMON_CONFDIR, unless another   *)
(* one is running then.                                                    *)
Owes(p) ==
    common[p] /\ pc[p] \in SetupLabel \cup
        {"hung", "c_lock", "c_kill", "c_rmconf", "c_dev", "c_scan", "c_last"} \cup Last

Crashed == \E p \in Process : pc[p] = "crashed"

CommonOwed ==
    reserved # {} \/ (\E s \in Setting : saved[s] # "unsaved") =>
        Crashed \/ \E p \in Process : Owes(p)

(* An instance without COMMON_CONFDIR is seen by nobody: it has the lock.  *)
HalfRegistered ==
    \A p \in Process :
        /\ Running(p) /\ ~common[p] => holder = p
        /\ watchdog[p] # "none" \/ watchdogPid[p] => common[p]
        /\ pc[p] \in CleanupLabel \ {"c_lock", "c_kill", "c_rmconf"} => "pid" \notin confdir[p]

InterfacesOwed ==
    \A p \in Process : \A x \in Prefix : \A k \in Slot :
        net[x][k] = p =>
            \/ pc[p] = "crashed"
            \/ UsesName(p, x) /\ iface[p][x] = k /\ <<pc[p], x>> # <<"add_ap", "ap">>

OwedInv == CommonOwed /\ HalfRegistered /\ InterfacesOwed

SharedInv == KeptInv /\ NamesInv /\ OwedInv

-----------------------------------------------------------------------------
(* A step of a process leaves alone what belongs to the others.            *)
Local(p) ==
    \A q \in Process \ {p} :
        /\ pc'[q] = pc[q] /\ confdir'[q] = confdir[q]
        /\ common'[q] = common[q] /\ iface'[q] = iface[q]
        /\ watchdog'[q] = watchdog[q] /\ watchdogPid'[q] = watchdogPid[q]

LEMMA StepIsLocal ==
  ASSUME TypeOK, NEW p \in Process,
         Register(p) \/ SetUp(p) \/ CleanUp(p) \/ Watchdog(p) \/ Environment(p)
  PROVE  Local(p)
  <1> USE DEF TypeOK, Local, Goto, At, shellVars, childVars, systemVars
  <1>1. CASE Register(p)
    BY <1>1
       DEF Register, LockRegistry, Enter, MakeConfdir, MakeCommonConfdir,
           SaveForwarding, Save, SaveIpForward, SaveBridgeNf, UnlockRegistry, Leave,
           AfterBridge
  <1>2. CASE SetUp(p)
    BY <1>2
       DEF SetUp, AllocBridge, AllocNewIface, Free, Locked, AfterBridge, AllocVirtual,
           AddVirtual, AddInterface, AddVirtualFails, ListInstance, AfterListing,
           SetForwarding, Set, Written, SetIpForward, SetBridgeNf, AddBridge,
           StartDnsmasq, StartWatchdog, NoteWatchdogPid, StartHostapd, NoteHostapdPid,
           WaitReturns
  <1>3. CASE CleanUp(p)
    BY <1>3
       DEF CleanUp, LockCleanup, Enter, KillChildren, RemoveConfdir,
           RestoreForwarding, Restore, Written, KeepForwarding, LockScan, FindRunning,
           Leave, FindNoneRunning, KillHaveged, DropOrphanedLock, RestoreIpForward,
           RestoreBridgeNf, RemoveCommonConfdir, DeleteBridge, DeleteInterface,
           DeleteVirtual, UnlockCleanup, Exit
  <1>4. CASE Watchdog(p)
    BY <1>4 DEF Watchdog, WatchdogFindsNone, WatchdogStep, WatchdogLocks,
                Enter, WatchdogStartsHaveged, WatchdogUnlocks, Leave
  <1>5. CASE Environment(p)
    BY <1>5
       DEF Environment, QuitEarly, Abort, AbortInMutex, ShortSection, AfterListing,
           Enter, Leave, Crash, DropOrphanedLock, HostapdEnds
  <1> QED BY <1>1, <1>2, <1>3, <1>4, <1>5

-----------------------------------------------------------------------------
(* A process is listed with its uplink before it shares, and until it      *)
(* cleans up.                                                              *)
LEMMA StepKeepsListed == ASSUME IInv, ServersListed, [Next]_vars PROVE ServersListed'
  <1> USE DEF Goto, At, shellVars, childVars, systemVars, ServersListed, Sharing, Serving,
              SetupLabel, CleanupLabel, Dead
  <1>0. TypeOK
    BY DEF IInv
  <1>1. ASSUME NEW p \in Process, Register(p) PROVE ServersListed'
    BY <1>0, <1>1, SMTT(60)
       DEF TypeOK, Register, LockRegistry, Enter, MakeConfdir, MakeCommonConfdir,
           SaveForwarding, Save, SaveIpForward, SaveBridgeNf, UnlockRegistry, Leave,
           AfterBridge
  <1>2. ASSUME NEW p \in Process, SetUp(p) PROVE ServersListed'
    BY <1>0, <1>2, SMTT(60)
       DEF TypeOK, SetUp, AllocBridge, AllocNewIface, Free, Locked, AfterBridge,
           AllocVirtual, AddVirtual, AddInterface, AddVirtualFails, ListInstance,
           AfterListing, SetForwarding, Set, Written, SetIpForward, SetBridgeNf,
           AddBridge, StartDnsmasq, StartWatchdog, NoteWatchdogPid, StartHostapd,
           NoteHostapdPid, WaitReturns
  <1>3. ASSUME NEW p \in Process, CleanUp(p) PROVE ServersListed'
    BY <1>0, <1>3, SMTT(60)
       DEF TypeOK, CleanUp, LockCleanup, Enter, KillChildren, RemoveConfdir,
           RestoreForwarding, Restore, Written, KeepForwarding, LockScan, FindRunning,
           Leave, FindNoneRunning, KillHaveged, DropOrphanedLock, RestoreIpForward,
           RestoreBridgeNf, RemoveCommonConfdir, DeleteBridge, DeleteInterface,
           DeleteVirtual, UnlockCleanup, Exit
  <1>4. ASSUME NEW p \in Process, Watchdog(p) PROVE ServersListed'
    BY <1>0, <1>4, SMTT(60)
       DEF TypeOK, Watchdog, WatchdogFindsNone, WatchdogStep, WatchdogLocks, Enter,
           WatchdogStartsHaveged, WatchdogUnlocks, Leave
  <1>5. ASSUME NEW p \in Process, Environment(p) PROVE ServersListed'
    BY <1>0, <1>5, SMTT(60)
       DEF TypeOK, Environment, QuitEarly, Abort, AbortInMutex, ShortSection,
           AfterListing, Enter, Leave, Crash, DropOrphanedLock, HostapdEnds
  <1>6. CASE UNCHANGED vars
    BY <1>6 DEF vars
  <1> QED BY <1>1, <1>2, <1>3, <1>4, <1>5, <1>6 DEF Next

(* A process that serves, or has set a setting, is seen as running and is  *)
(* listed with its uplink.                                                 *)
LEMMA SharersSeen ==
  ASSUME IInv, ServersListed, NEW p \in Process, pc[p] \in Sharing
  PROVE  /\ Listed(p)
         /\ Share[p] = "nat" => "nat_internet_iface" \in confdir[p]
  BY DEF IInv, TypeOK, UsersRegistered, ServersListed, Sharing, Serving, SetupLabel,
         Listed, Running, Dead

(* An uplink is none of the settings all processes share.                  *)
LEMMA UplinkDiffers ==
  ASSUME NEW p \in Process
  PROVE  /\ Internet[p] \in Uplink /\ Internet[p] \in Setting
         /\ Internet[p] # "ip_forward" /\ Internet[p] # "bridge_nf"
         /\ "ip_forward" \in Setting /\ "bridge_nf" \in Setting
  BY InternetAssumption, CommonSettingAssumption DEF Setting, CommonSetting

(* The settings one process needs, when it has come far enough.            *)
HasSet(p) ==
    /\ Share[p] = "nat" /\ pc[p] \in Serving \cup {"set_ip"} => value[Internet[p]] = "on"
    /\ Share[p] = "nat" /\ pc[p] \in Serving => value["ip_forward"] = "on"
    /\ Share[p] = "bridge" /\ pc[p] \in Serving \cup {"add_br"} => value["bridge_nf"] = "off"

(* Those who set up turn forwarding on and the bridge's filtering off.     *)
LEMMA SetUpTurnsOn ==
  ASSUME IInv, ServersListed, SettingsSet, NEW p \in Process, SetUp(p)
  PROVE  /\ \A t \in Uplink \cup {"ip_forward"} : value[t] = "on" => value'[t] = "on"
         /\ value["bridge_nf"] = "off" => value'["bridge_nf"] = "off"
         /\ HasSet(p)'
  <1> USE UplinkDiffers DEF Goto, At, systemVars, Serving
  <1>0. TypeOK
    BY DEF IInv
  <1>h. HasSet(p)
    BY DEF SettingsSet, HasSet
  <1>1. CASE SetForwarding(p)
    <2>1. value' = [value EXCEPT ![Internet[p]] = "on"]
      BY <1>0, <1>1 DEF TypeOK, SetForwarding, Set, Written
    <2>2. pc[p] = "set_dev" /\ pc'[p] = "set_ip"
      BY <1>0, <1>1 DEF TypeOK, SetForwarding, Set
    <2>3. Share[p] = "nat"
      BY <2>2 DEF ServersListed
    <2> QED BY <1>0, <2>1, <2>2, <2>3 DEF TypeOK, HasSet, Setting, CommonSetting
  <1>2. CASE SetIpForward(p)
    <2>1. \A t \in Setting : value[t] = "on" => value'[t] = "on"
      BY <1>0, <1>2 DEF TypeOK, SetIpForward, Set, Written
    <2>2. value'["ip_forward"] = "on" /\ value'["bridge_nf"] = value["bridge_nf"]
      BY <1>2, CommonSettingAssumption DEF SetIpForward, Set, Written, CommonSetting
    <2>3. pc[p] = "set_ip" /\ pc'[p] = "dnsmasq"
      BY <1>0, <1>2 DEF TypeOK, SetIpForward, Set
    <2>4. Share[p] = "nat"
      BY <2>3 DEF ServersListed
    <2> QED BY <1>h, <2>1, <2>2, <2>3, <2>4 DEF HasSet, Setting, CommonSetting
  <1>3. CASE SetBridgeNf(p)
    <2>1. value' = [value EXCEPT !["bridge_nf"] = "off"]
      BY <1>0, <1>3 DEF TypeOK, SetBridgeNf, Set, Written
    <2>2. pc[p] = "set_nf"
      BY <1>3 DEF SetBridgeNf, Set
    <2>3. Share[p] = "bridge"
      BY <2>2 DEF ServersListed
    <2> QED BY <1>0, <2>1, <2>3, CommonSettingAssumption
            DEF TypeOK, HasSet, Setting, CommonSetting
  <1>4. CASE ~(SetForwarding(p) \/ SetIpForward(p) \/ SetBridgeNf(p))
    <2>1. value' = value
      BY <1>4
         DEF SetUp, AllocBridge, AllocNewIface, Free, Locked, AfterBridge,
             AllocVirtual, AddVirtual, AddInterface, AddVirtualFails, ListInstance,
             AfterListing, SetForwarding, Set, Written, SetIpForward, SetBridgeNf,
             AddBridge, StartDnsmasq, StartWatchdog, NoteWatchdogPid, StartHostapd,
             NoteHostapdPid, WaitReturns
    <2>2. Share[p] = "nat" /\ pc'[p] \in Serving \cup {"set_ip"} => pc[p] \in Serving
      BY <1>0, <1>4
         DEF TypeOK, ServersListed, SetUp, AllocBridge, AllocNewIface, Free, Locked,
             AfterBridge, AllocVirtual, AddVirtual, AddInterface, AddVirtualFails,
             ListInstance, AfterListing, SetForwarding, Set, Written, SetIpForward,
             SetBridgeNf, AddBridge, StartDnsmasq, StartWatchdog, NoteWatchdogPid,
             StartHostapd, NoteHostapdPid, WaitReturns
    <2>3. Share[p] = "bridge" /\ pc'[p] \in Serving \cup {"add_br"} =>
            pc[p] \in Serving \cup {"add_br"}
      BY <1>0, <1>4
         DEF TypeOK, ServersListed, SetUp, AllocBridge, AllocNewIface, Free, Locked,
             AfterBridge, AllocVirtual, AddVirtual, AddInterface, AddVirtualFails,
             ListInstance, AfterListing, SetForwarding, Set, Written, SetIpForward,
             SetBridgeNf, AddBridge, StartDnsmasq, StartWatchdog, NoteWatchdogPid,
             StartHostapd, NoteHostapdPid, WaitReturns
    <2> QED BY <1>h, <2>1, <2>2, <2>3 DEF HasSet
  <1> QED BY <1>1, <1>2, <1>3, <1>4

(* A setting is turned off, or another way, only when it is put back, and  *)
(* then nobody needs it.                                                   *)
LEMMA StepKeepsSet == ASSUME IInv, ServersListed, SettingsSet, [Next]_vars PROVE SettingsSet'
  <1> USE DEF Serving
  <1>0. TypeOK
    BY DEF IInv
  <1>a. ASSUME NEW p \in Process, value' = value, Local(p),
               pc'[p] \in Serving \cup {"set_ip", "add_br"} => pc'[p] = pc[p]
        PROVE  SettingsSet'
    <2>1. ASSUME NEW q \in Process PROVE HasSet(q)'
      BY <1>a, <2>1 DEF SettingsSet, HasSet, Local
    <2> QED BY <2>1 DEF SettingsSet, HasSet
  <1>1. ASSUME NEW p \in Process, Register(p) PROVE SettingsSet'
    <2>1. value' = value /\ Local(p)
      BY <1>0, <1>1, StepIsLocal
         DEF systemVars, Register, LockRegistry, Enter, MakeConfdir,
             MakeCommonConfdir, SaveForwarding, Save, SaveIpForward, SaveBridgeNf,
             UnlockRegistry, Leave, AfterBridge
    <2>2. pc'[p] \notin Serving \cup {"set_ip", "add_br"}
      BY <1>0, <1>1
         DEF TypeOK, Goto, At, Register, LockRegistry, Enter, MakeConfdir,
             MakeCommonConfdir, SaveForwarding, Save, SaveIpForward, SaveBridgeNf,
             UnlockRegistry, Leave, AfterBridge
    <2> QED BY <2>1, <2>2, <1>a
  <1>2. ASSUME NEW p \in Process, SetUp(p) PROVE SettingsSet'
    <2>1. ASSUME NEW q \in Process, q # p PROVE HasSet(q)'
      <3>1. pc'[q] = pc[q] /\ HasSet(q)
        BY <1>0, <1>2, <2>1, StepIsLocal DEF Local, SettingsSet, HasSet
      <3> QED BY <3>1, <1>2, SetUpTurnsOn, UplinkDiffers DEF HasSet
    <2> QED BY <1>2, <2>1, SetUpTurnsOn DEF SettingsSet, HasSet
  <1>3. ASSUME NEW p \in Process, CleanUp(p) PROVE SettingsSet'
    <2>1. pc'[p] \notin Serving \cup {"set_ip", "add_br"}
      BY <1>0, <1>3
         DEF TypeOK, Goto, At, CleanUp, LockCleanup, Enter, KillChildren,
             RemoveConfdir, RestoreForwarding, Restore, Written, KeepForwarding,
             LockScan, FindRunning, Leave, FindNoneRunning, KillHaveged,
             DropOrphanedLock, RestoreIpForward, RestoreBridgeNf, RemoveCommonConfdir,
             DeleteBridge, DeleteInterface, DeleteVirtual, UnlockCleanup, Exit
    <2>2. Local(p)
      BY <1>0, <1>3, StepIsLocal
    <2>3. CASE UNCHANGED value
      BY <2>1, <2>2, <2>3, <1>a
    <2>4. CASE RestoreForwarding(p)
      <3>1. \A t \in Setting : value'[t] # value[t] => t = Internet[p]
        BY <1>0, <2>4, UplinkDiffers
           DEF TypeOK, RestoreForwarding, Restore, Written
      <3>2. ASSUME NEW q \in Process, pc[q] \in Sharing, Share[q] = "nat"
            PROVE  Internet[q] # Internet[p]
        BY <2>4, <3>2, SharersSeen DEF RestoreForwarding, UplinkInUse
      <3>3. ASSUME NEW q \in Process, q # p PROVE HasSet(q)'
        <4>1. pc'[q] = pc[q] /\ HasSet(q)
          BY <2>2, <3>3 DEF Local, SettingsSet, HasSet
        <4> QED BY <4>1, <3>1, <3>2, UplinkDiffers DEF HasSet, Sharing
      <3>4. HasSet(p)'
        BY <2>1 DEF HasSet
      <3> QED BY <3>3, <3>4 DEF SettingsSet, HasSet
    <2>5. CASE RestoreIpForward(p) \/ RestoreBridgeNf(p)
      <3>1. \A q \in Process : ~Running(q)
        BY <2>5 DEF IInv, LastIsAlone, Last, NoneRunning, RestoreIpForward, RestoreBridgeNf, Restore, At
      <3>2. \A q \in Process : pc[q] \notin Sharing
        BY <3>1, SharersSeen DEF Listed
      <3>3. \A q \in Process : pc'[q] \notin Serving \cup {"set_ip", "add_br"}
        BY <2>1, <2>2, <3>2 DEF Local, Sharing
      <3> QED BY <3>3 DEF SettingsSet
    <2> QED BY <1>3, <2>3, <2>4, <2>5
               DEF systemVars, CleanUp, LockCleanup, Enter, KillChildren,
                   RemoveConfdir, RestoreForwarding, Restore, Written, KeepForwarding,
                   LockScan, FindRunning, Leave, FindNoneRunning, KillHaveged,
                   DropOrphanedLock, RestoreIpForward, RestoreBridgeNf,
                   RemoveCommonConfdir, DeleteBridge, DeleteInterface, DeleteVirtual,
                   UnlockCleanup, Exit
  <1>4. ASSUME NEW p \in Process, Watchdog(p) PROVE SettingsSet'
    <2>1. value' = value /\ Local(p) /\ pc' = pc
      BY <1>0, <1>4, StepIsLocal
         DEF systemVars, Watchdog, WatchdogFindsNone, WatchdogStep, WatchdogLocks,
             Enter, WatchdogStartsHaveged, WatchdogUnlocks, Leave
    <2> QED BY <2>1, <1>a
  <1>5. ASSUME NEW p \in Process, Environment(p) PROVE SettingsSet'
    <2>1. value' = value /\ Local(p)
      BY <1>0, <1>5, StepIsLocal
         DEF systemVars, Environment, QuitEarly, Abort, AbortInMutex, ShortSection,
             AfterListing, Enter, Leave, Crash, DropOrphanedLock, HostapdEnds
    <2>2. pc'[p] \in Serving \cup {"set_ip", "add_br"} => pc'[p] = pc[p]
      BY <1>0, <1>5
         DEF TypeOK, Goto, At, Environment, QuitEarly, Abort, AbortInMutex,
             ShortSection, AfterListing, Enter, Leave, Crash, DropOrphanedLock,
             HostapdEnds
    <2> QED BY <2>1, <2>2, <1>a
  <1>6. CASE UNCHANGED vars
    BY <1>6 DEF vars, systemVars, SettingsSet
  <1> QED BY <1>1, <1>2, <1>3, <1>4, <1>5, <1>6 DEF Next

-----------------------------------------------------------------------------
(* Where a process goes that neither takes nor drops a name.               *)
LEMMA SetUpGoesOn ==
  ASSUME TypeOK, NEW p \in Process, SetUp(p),
         ~(AllocBridge(p) \/ AllocVirtual(p) \/ AddVirtualFails(p))
  PROVE  /\ pc[p] \in SetupLabel \ (BeforeNames \cup {"alloc_ap"})
         /\ pc'[p] \notin BeforeNames \cup {"alloc_ap", "add_ap", "hung"}
         /\ pc'[p] = "add_br" => OwnBridge(p)
  <1> USE DEF TypeOK, Goto, At, BeforeNames, Registering, SetupLabel
  <1>1. CASE AddVirtual(p) \/ ListInstance(p) \/ AddBridge(p)
    BY <1>1 DEF AddVirtual, AddInterface, ListInstance, AfterListing, AddBridge
  <1>2. CASE SetForwarding(p) \/ SetIpForward(p) \/ SetBridgeNf(p)
    BY <1>2 DEF SetForwarding, Set, SetIpForward, SetBridgeNf
  <1>3. CASE StartDnsmasq(p) \/ StartWatchdog(p) \/ NoteWatchdogPid(p)
             \/ StartHostapd(p) \/ NoteHostapdPid(p) \/ WaitReturns(p)
    BY <1>3
       DEF StartDnsmasq, StartWatchdog, NoteWatchdogPid, StartHostapd, NoteHostapdPid,
           WaitReturns
  <1> QED BY <1>1, <1>2, <1>3 DEF SetUp

(* A process has its names from the moment it reserves them.               *)
LEMMA StepKeepsOrder == ASSUME IInv, NamesInOrder, [Next]_vars PROVE NamesInOrder'
  <1> USE MaxSlotAssumption
          DEF Goto, At, shellVars, childVars, systemVars, NamesInOrder, BeforeNames, Registering,
              OwnBridge, SetupLabel, CleanupLabel, Prefix
  <1>0. TypeOK /\ UsersRegistered
    BY DEF IInv
  <1>1. ASSUME NEW p \in Process, Register(p) PROVE NamesInOrder'
    BY <1>0, <1>1, SMTT(60)
       DEF TypeOK, Register, LockRegistry, Enter, MakeConfdir, MakeCommonConfdir,
           SaveForwarding, Save, SaveIpForward, SaveBridgeNf, UnlockRegistry, Leave,
           AfterBridge
  <1>2. ASSUME NEW p \in Process, SetUp(p) PROVE NamesInOrder'
    <2>1. CASE AllocBridge(p)
      <3>1. PICK k \in Slot : iface' = [iface EXCEPT ![p]["br"] = k]
        BY <2>1 DEF AllocBridge, AllocNewIface
      <3>2. /\ iface' = [iface EXCEPT ![p] = [iface[p] EXCEPT !["br"] = k]]
            /\ k # NoSlot
        BY <3>1 DEF Slot, NoSlot
      <3>3. common[p] /\ OwnBridge(p)
        BY <1>0, <2>1 DEF UsersRegistered, AllocBridge, AllocNewIface
      <3> QED BY <1>0, <2>1, <3>2, <3>3, SMTT(60)
                 DEF TypeOK, AllocBridge, AllocNewIface, AfterBridge
    <2>2. CASE AllocVirtual(p)
      <3>1. PICK k \in Slot : iface' = [iface EXCEPT ![p]["ap"] = k]
        BY <2>2 DEF AllocVirtual, AllocNewIface
      <3>2. /\ iface' = [iface EXCEPT ![p] = [iface[p] EXCEPT !["ap"] = k]]
            /\ k # NoSlot
        BY <3>1 DEF Slot, NoSlot
      <3>3. common[p]
        BY <1>0, <2>2 DEF UsersRegistered, AllocVirtual, AllocNewIface
      <3> QED BY <1>0, <2>2, <3>2, <3>3, SMTT(60)
                 DEF TypeOK, AllocVirtual, AllocNewIface
    <2>3. CASE AddVirtualFails(p)
      <3>1. iface' = [iface EXCEPT ![p] = [iface[p] EXCEPT !["ap"] = NoSlot]]
        BY <2>3 DEF AddVirtualFails
      <3> QED BY <1>0, <2>3, <3>1, SMTT(60) DEF TypeOK, AddVirtualFails
    <2>4. CASE ~(AllocBridge(p) \/ AllocVirtual(p) \/ AddVirtualFails(p))
      <3>1. iface' = iface /\ common' = common /\ Local(p)
        BY <1>0, <1>2, <2>4, StepIsLocal
           DEF SetUp, AllocBridge, AllocNewIface, Free, Locked, AfterBridge,
               AllocVirtual, AddVirtual, AddInterface, AddVirtualFails, ListInstance,
               AfterListing, SetForwarding, Set, Written, SetIpForward, SetBridgeNf,
               AddBridge, StartDnsmasq, StartWatchdog, NoteWatchdogPid, StartHostapd,
               NoteHostapdPid, WaitReturns
      <3>2. /\ pc[p] \in SetupLabel \ BeforeNames
            /\ pc'[p] \notin BeforeNames \cup {"alloc_ap", "add_ap", "hung"}
            /\ pc'[p] = "add_br" => OwnBridge(p)
        BY <1>0, <1>2, <2>4, SetUpGoesOn
      <3> QED BY <1>0, <3>1, <3>2 DEF Local
    <2> QED BY <2>1, <2>2, <2>3, <2>4
  <1>3. ASSUME NEW p \in Process, CleanUp(p) PROVE NamesInOrder'
    BY <1>0, <1>3, SMTT(60)
       DEF TypeOK, CleanUp, LockCleanup, Enter, KillChildren, RemoveConfdir,
           RestoreForwarding, Restore, Written, KeepForwarding, LockScan, FindRunning,
           Leave, FindNoneRunning, KillHaveged, DropOrphanedLock, RestoreIpForward,
           RestoreBridgeNf, RemoveCommonConfdir, DeleteBridge, DeleteInterface,
           DeleteVirtual, UnlockCleanup, Exit
  <1>4. ASSUME NEW p \in Process, Watchdog(p) PROVE NamesInOrder'
    BY <1>0, <1>4, SMTT(60)
       DEF TypeOK, Watchdog, WatchdogFindsNone, WatchdogStep, WatchdogLocks, Enter,
           WatchdogStartsHaveged, WatchdogUnlocks, Leave
  <1>5. ASSUME NEW p \in Process, Environment(p) PROVE NamesInOrder'
    BY <1>0, <1>5, SMTT(60)
       DEF TypeOK, UsersRegistered, Dead, Environment, QuitEarly, Abort, AbortInMutex,
           ShortSection, AfterListing, Enter, Leave, Crash, DropOrphanedLock,
           HostapdEnds
  <1>6. CASE UNCHANGED vars
    BY <1>6 DEF vars
  <1> QED BY <1>1, <1>2, <1>3, <1>4, <1>5, <1>6 DEF Next

(* A process that uses a name is seen as running, or is in its cleanup.    *)
LEMMA NamersSeen ==
  ASSUME IInv, NamesInOrder, NEW q \in Process, NEW x \in Prefix, UsesName(q, x)
  PROVE  Running(q) \/ pc[q] \in CleaningUp
  <1>1. common[q] /\ pc[q] \notin Dead
    BY DEF NamesInOrder, UsesName
  <1>2. pc[q] \notin {"start", "mkconf", "mkcommon"}
    BY DEF NamesInOrder, UsesName, BeforeNames, Registering, Prefix
  <1>3. pc[q] \in Label
    BY DEF IInv, TypeOK
  <1>4. CASE pc[q] \in SetupLabel \cup {"c_lock", "c_kill", "c_rmconf", "hung"}
    BY <1>1, <1>4 DEF IInv, UsersRegistered, NamesInOrder, Running
  <1>5. CASE pc[q] = "c_exit"
    BY <1>5 DEF UsesName
  <1> QED BY <1>1, <1>2, <1>3, <1>4, <1>5 DEF Label, CleaningUp, CleanupLabel

(* Steps that reserve, create or delete nothing.                           *)
LEMMA NamesUndisturbed ==
  ASSUME NamesReserved, NamesOwned, NEW p \in Process, Local(p),
         UNCHANGED <<reserved, net>>,
         \A x \in Prefix : UsesName(p, x)' =>
            /\ UsesName(p, x) /\ iface'[p][x] = iface[p][x]
            /\ Created(p, x)' => Created(p, x)
            /\ pc[p] \in {"c_bridge", "c_virtual"} => pc'[p] \in {"c_bridge", "c_virtual"}
  PROVE  NamesReserved' /\ NamesOwned'
  <1>1. ASSUME NEW q \in Process, NEW x \in Prefix, UsesName(q, x)'
        PROVE  /\ UsesName(q, x) /\ iface'[q][x] = iface[q][x]
               /\ Created(q, x)' => Created(q, x)
               /\ pc'[q] \notin {"c_bridge", "c_virtual"} => pc[q] \notin {"c_bridge", "c_virtual"}
    BY <1>1 DEF Local, UsesName, Created
  <1>2. NamesReserved'
    BY <1>1 DEF NamesReserved
  <1>3. NamesOwned'
    BY <1>1 DEF NamesOwned
  <1> QED BY <1>2, <1>3

(* Only a free name is taken: it is nobody's.                              *)
LEMMA FreeIsUnused ==
  ASSUME IInv, NamesReserved, NEW p \in Process, holder \in {NoProcess, p},
         NEW x \in Prefix, NEW k, Free(x, k), NEW q \in Process \ {p}, UsesName(q, x)
  PROVE  iface[q][x] # k
  <1>1. SectionsExclusive
    BY CoveredIsExclusive
  <1>2. pc[q] \notin {"c_bridge", "c_virtual"}
    BY <1>1, NoProcessAssumption DEF SectionsExclusive, CleaningUp, CleanupLabel
  <1> QED BY <1>2 DEF NamesReserved, Free

LEMMA AllocKeepsNames ==
  ASSUME IInv, NamesInv, NEW p \in Process, AllocBridge(p) \/ AllocVirtual(p)
  PROVE  NamesReserved' /\ NamesOwned'
  <1> USE DEF NamesInv
  <1>0. TypeOK /\ Local(p)
    BY StepIsLocal DEF IInv, SetUp
  <1>1. PICK x \in Prefix, k \in Slot :
          /\ Free(x, k) /\ holder \in {NoProcess, p}
          /\ reserved' = reserved \cup {<<x, k>>} /\ net' = net
          /\ iface' = [iface EXCEPT ![p] = [iface[p] EXCEPT ![x] = k]]
          /\ x = "br" => pc[p] = "alloc_br" /\ pc'[p] \in {"alloc_ap", "list"}
          /\ x = "ap" => pc[p] = "alloc_ap" /\ pc'[p] = "add_ap"
    <2>1. CASE AllocBridge(p)
      BY <1>0, <2>1
         DEF AllocBridge, AllocNewIface, Locked, AfterBridge, At, Goto, TypeOK, Prefix
    <2>2. CASE AllocVirtual(p)
      BY <1>0, <2>2 DEF AllocVirtual, AllocNewIface, Locked, At, Goto, TypeOK, Prefix
    <2> QED BY <2>1, <2>2
  <1>2. /\ iface'[p][x] = k
        /\ \A y \in Prefix \ {x} : iface'[p][y] = iface[p][y]
        /\ \A q \in Process \ {p} : iface'[q] = iface[q]
    BY <1>0, <1>1 DEF TypeOK
  <1>3. ASSUME NEW y \in Prefix, y # x, UsesName(p, y)'
        PROVE  UsesName(p, y) /\ ~Created(p, y)'
    BY <1>1, <1>2, <1>3
       DEF UsesName, Created, NamesInOrder, BeforeNames, Prefix, Sharing, Serving, Dead
  <1>4. ~Created(p, x)'
    BY <1>1 DEF Created, Sharing, Serving, Prefix
  <1>5. \A q \in Process \ {p}, y \in Prefix :
           (UsesName(q, y)' <=> UsesName(q, y)) /\ (Created(q, y)' <=> Created(q, y))
    BY <1>0, <1>2 DEF Local, UsesName, Created
  <1>6. \A q \in Process \ {p} : UsesName(q, x) => iface[q][x] # k
    BY <1>1, FreeIsUnused
  <1>7. NamesReserved'
    <2>1. ASSUME NEW q \in Process, NEW y \in Prefix, UsesName(q, y)',
                 pc'[q] \notin {"c_bridge", "c_virtual"}
          PROVE  <<y, iface'[q][y]>> \in reserved'
      <3>1. CASE q = p /\ y = x
        BY <1>1, <1>2, <3>1
      <3>2. CASE q = p /\ y # x
        <4>1. pc[p] \in {"alloc_br", "alloc_ap"}
          BY <1>1 DEF Prefix
        <4>2. UsesName(p, y) /\ iface'[p][y] = iface[p][y]
          BY <1>2, <1>3, <2>1, <3>2
        <4> QED BY <1>1, <3>2, <4>1, <4>2 DEF NamesReserved
      <3>3. CASE q # p
        BY <1>0, <1>1, <1>2, <1>5, <2>1, <3>3 DEF NamesReserved, Local
      <3> QED BY <3>1, <3>2, <3>3
    <2> QED BY <2>1 DEF NamesReserved
  <1>8. NamesOwned'
    <2>1. ASSUME NEW q \in Process, NEW y \in Prefix, UsesName(q, y)'
          PROVE  /\ net'[y][iface'[q][y]] \in {q, NoProcess}
                 /\ Created(q, y)' => net'[y][iface'[q][y]] = q
                 /\ \A r \in Process \ {q} : UsesName(r, y)' => iface'[r][y] # iface'[q][y]
      <3>1. CASE q = p /\ y = x
        BY <1>1, <1>2, <1>4, <1>5, <1>6, <3>1 DEF Free
      <3>2. CASE q = p /\ y # x
        <4>1. UsesName(p, y) /\ ~Created(p, y)' /\ iface'[p][y] = iface[p][y]
          BY <1>2, <1>3, <2>1, <3>2
        <4>2. \A r \in Process \ {p} : UsesName(r, y)' => iface'[r][y] # iface'[p][y]
          BY <1>2, <1>5, <4>1 DEF NamesOwned
        <4> QED BY <1>1, <3>2, <4>1, <4>2 DEF NamesOwned
      <3>3. CASE q # p /\ y = x
        BY <1>1, <1>2, <1>5, <1>6, <2>1, <3>3 DEF NamesOwned
      <3>4. CASE q # p /\ y # x
        BY <1>1, <1>2, <1>3, <1>5, <2>1, <3>4 DEF NamesOwned
      <3> QED BY <3>1, <3>2, <3>3, <3>4
    <2> QED BY <2>1 DEF NamesOwned
  <1> QED BY <1>7, <1>8

LEMMA AddKeepsNames ==
  ASSUME IInv, NamesInv, NEW p \in Process, AddVirtual(p) \/ AddBridge(p)
  PROVE  NamesReserved' /\ NamesOwned'
  <1> USE DEF NamesInv
  <1>0. TypeOK /\ Local(p)
    BY StepIsLocal DEF IInv, SetUp
  <1>1. PICK x \in Prefix :
          /\ iface[p][x] # NoSlot
          /\ net' = [net EXCEPT ![x] = [net[x] EXCEPT ![iface[p][x]] = p]]
          /\ iface' = iface /\ reserved' = reserved
          /\ x = "ap" => pc[p] = "add_ap" /\ pc'[p] = "list"
          /\ x = "br" => pc[p] = "add_br" /\ pc'[p] = "watchdog"
    <2>1. CASE AddVirtual(p)
      <3>1. iface[p]["ap"] # NoSlot
        BY <2>1 DEF AddVirtual, AddInterface, At, NamesInOrder
      <3> QED BY <1>0, <2>1, <3>1
              DEF AddVirtual, AddInterface, At, Goto, TypeOK, Prefix, shellVars
    <2>2. CASE AddBridge(p)
      <3>1. iface[p]["br"] # NoSlot
        BY <2>2
           DEF AddBridge, AddInterface, At, NamesInOrder, BeforeNames, Registering,
               SetupLabel
      <3> QED BY <1>0, <2>2, <3>1
              DEF AddBridge, AddInterface, At, Goto, TypeOK, Prefix, shellVars
    <2> QED BY <2>1, <2>2
  <1>2. iface[p][x] \in Slot
    BY <1>0, <1>1 DEF TypeOK
  <1>3. /\ net'[x][iface[p][x]] = p
        /\ \A k \in Slot : k # iface[p][x] => net'[x][k] = net[x][k]
        /\ \A y \in Prefix \ {x} : net'[y] = net[y]
    BY <1>0, <1>1, <1>2 DEF TypeOK
  <1>p. pc[p] \in {"add_ap", "add_br"} /\ pc'[p] \in {"list", "watchdog"}
    BY <1>1 DEF Prefix
  <1>4. UsesName(p, x)
    BY <1>1, <1>p DEF UsesName, Dead
  <1>5. ASSUME NEW q \in Process, NEW y \in Prefix, UsesName(q, y)'
        PROVE  UsesName(q, y)
    <2>1. CASE q = p
      BY <1>1, <1>5, <1>p, <2>1 DEF UsesName, Dead
    <2>2. CASE q # p
      BY <1>0, <1>1, <1>5, <2>2 DEF UsesName, Local
    <2> QED BY <2>1, <2>2
  <1>6. ASSUME NEW q \in Process, NEW y \in Prefix, Created(q, y)', UsesName(q, y)'
        PROVE  Created(q, y) \/ (q = p /\ y = x)
    BY <1>0, <1>1, <1>6 DEF Local, Created, Sharing, Serving, Prefix
  <1>7. NamesReserved'
    BY <1>0, <1>1, <1>5, <1>p DEF NamesReserved, Local
  <1>8. NamesOwned'
    <2>1. ASSUME NEW q \in Process, NEW y \in Prefix, UsesName(q, y)'
          PROVE  /\ net'[y][iface[q][y]] \in {q, NoProcess}
                 /\ Created(q, y)' => net'[y][iface[q][y]] = q
                 /\ \A r \in Process \ {q} : UsesName(r, y)' => iface[r][y] # iface[q][y]
      <3>1. UsesName(q, y) /\ iface[q][y] \in Slot
        BY <1>0, <1>5, <2>1 DEF TypeOK, UsesName
      <3>2. \A r \in Process \ {q} : UsesName(r, y)' => iface[r][y] # iface[q][y]
        BY <1>5, <3>1 DEF NamesOwned
      <3>3. CASE q = p /\ y = x
        BY <1>3, <3>2, <3>3
      <3>4. CASE q # p /\ y = x
        <4>1. iface[q][y] # iface[p][x]
          BY <1>4, <3>1, <3>4 DEF NamesOwned
        <4> QED BY <1>3, <1>6, <2>1, <3>1, <3>2, <3>4, <4>1 DEF NamesOwned
      <3>5. CASE y # x
        BY <1>3, <1>6, <2>1, <3>1, <3>2, <3>5 DEF NamesOwned
      <3> QED BY <3>3, <3>4, <3>5
    <2> QED BY <1>1, <2>1 DEF NamesOwned
  <1> QED BY <1>7, <1>8

LEMMA DeleteKeepsNames ==
  ASSUME IInv, NamesInv, NEW p \in Process, DeleteBridge(p) \/ DeleteVirtual(p)
  PROVE  NamesReserved' /\ NamesOwned'
  <1> USE DEF NamesInv
  <1>0. TypeOK /\ Local(p)
    BY StepIsLocal DEF IInv, CleanUp
  <1>1. PICK x \in Prefix :
          /\ iface[p][x] # NoSlot =>
               /\ net' = [net EXCEPT ![x] = [net[x] EXCEPT ![iface[p][x]] = NoProcess]]
               /\ reserved' = reserved \ {<<x, iface[p][x]>>}
          /\ iface[p][x] = NoSlot => net' = net /\ reserved' = reserved
          /\ iface' = iface
          /\ x = "br" => pc[p] = "c_bridge" /\ pc'[p] = "c_virtual"
          /\ x = "ap" => pc[p] = "c_virtual" /\ pc'[p] = "c_unlock"
    <2>1. CASE DeleteBridge(p)
      BY <1>0, <2>1
         DEF DeleteBridge, DeleteInterface, At, Goto, TypeOK, Prefix, shellVars
    <2>2. CASE DeleteVirtual(p)
      BY <1>0, <2>2
         DEF DeleteVirtual, DeleteInterface, At, Goto, TypeOK, Prefix, shellVars
    <2> QED BY <2>1, <2>2
  <1>2. \A y \in Prefix : UsesName(p, y)' =>
            y # x /\ UsesName(p, y) /\ ~Created(p, y)' /\ pc'[p] = "c_virtual"
    BY <1>1 DEF UsesName, Created, Sharing, Serving, Dead, Prefix
  <1>3. \A q \in Process \ {p}, y \in Prefix :
           (UsesName(q, y)' <=> UsesName(q, y)) /\ (Created(q, y)' <=> Created(q, y))
    BY <1>0, <1>1 DEF Local, UsesName, Created
  <1>4. ASSUME NEW q \in Process, NEW y \in Prefix, UsesName(q, y)'
        PROVE  /\ UsesName(q, y) /\ iface[q][y] \in Slot
               /\ y = x => q # p /\ iface[q][y] # iface[p][x]
    <2>1. UsesName(q, y) /\ (y = x => q # p)
      BY <1>2, <1>3, <1>4
    <2>2. iface[q][y] \in Slot
      BY <1>0, <2>1 DEF TypeOK, UsesName
    <2>3. CASE y = x /\ iface[p][x] # NoSlot
      <3>1. UsesName(p, x)
        BY <1>1, <2>3 DEF UsesName, Dead, Prefix
      <3> QED BY <2>1, <2>2, <2>3, <3>1 DEF NamesOwned
    <2>4. CASE y = x /\ iface[p][x] = NoSlot
      BY <2>1, <2>2, <2>4 DEF UsesName
    <2> QED BY <2>1, <2>2, <2>3, <2>4
  <1>5. ASSUME NEW q \in Process, NEW y \in Prefix, UsesName(q, y)'
        PROVE  /\ net'[y][iface[q][y]] = net[y][iface[q][y]]
               /\ <<y, iface[q][y]>> \in reserved => <<y, iface[q][y]>> \in reserved'
    <2>1. CASE iface[p][x] = NoSlot
      BY <1>1, <2>1
    <2>2. CASE iface[p][x] # NoSlot
      <3>1. iface[p][x] \in Slot /\ iface[q][y] \in Slot
        BY <1>0, <1>4, <1>5, <2>2 DEF TypeOK
      <3>2. net'[y][iface[q][y]] = net[y][iface[q][y]]
        BY <1>0, <1>1, <1>4, <1>5, <2>2, <3>1 DEF TypeOK
      <3>3. <<y, iface[q][y]>> # <<x, iface[p][x]>>
        BY <1>4, <1>5
      <3> QED BY <1>1, <2>2, <3>2, <3>3
    <2> QED BY <2>1, <2>2
  <1>6. NamesReserved'
    BY <1>0, <1>1, <1>2, <1>3, <1>4, <1>5 DEF NamesReserved, Local
  <1>7. NamesOwned'
    <2>1. ASSUME NEW q \in Process, NEW y \in Prefix, UsesName(q, y)'
          PROVE  /\ net'[y][iface[q][y]] \in {q, NoProcess}
                 /\ Created(q, y)' => net'[y][iface[q][y]] = q
                 /\ \A r \in Process \ {q} : UsesName(r, y)' => iface[r][y] # iface[q][y]
      <3>1. UsesName(q, y) /\ (Created(q, y)' => Created(q, y))
        BY <1>2, <1>3, <1>4, <2>1
      <3>2. \A r \in Process \ {q} : UsesName(r, y)' => iface[r][y] # iface[q][y]
        BY <1>4, <3>1 DEF NamesOwned
      <3> QED BY <1>5, <2>1, <3>1, <3>2 DEF NamesOwned
    <2> QED BY <1>1, <2>1 DEF NamesOwned
  <1> QED BY <1>6, <1>7

(* The last one removes the reservations, when nobody uses a name but it,  *)
(* which is about to delete its own.                                       *)
LEMMA RemoveKeepsNames ==
  ASSUME IInv, NamesInv, NEW p \in Process, RemoveCommonConfdir(p)
  PROVE  NamesReserved' /\ NamesOwned'
  <1> USE DEF NamesInv
  <1>0. TypeOK /\ Local(p) /\ SectionsExclusive
    BY StepIsLocal, CoveredIsExclusive DEF IInv, CleanUp
  <1>1. /\ pc[p] = "c_rmcommon" /\ pc'[p] = "c_bridge"
        /\ net' = net /\ iface' = iface
    BY <1>0 DEF RemoveCommonConfdir, At, Goto, TypeOK, shellVars
  <1>2. \A q \in Process : ~Running(q)
    BY <1>1 DEF IInv, LastIsAlone, Last, NoneRunning
  <1>3. ASSUME NEW q \in Process, NEW x \in Prefix, UsesName(q, x)'
        PROVE  q = p /\ UsesName(q, x) /\ ~Created(q, x)'
    <2>1. UsesName(q, x)
      BY <1>0, <1>1, <1>3 DEF UsesName, Dead, Local
    <2>2. pc[q] \in CleaningUp
      BY <1>2, <2>1, NamersSeen
    <2>3. holder = q /\ holder = p
      BY <1>0, <1>1, <2>2 DEF SectionsExclusive, CleaningUp, CleanupLabel
    <2>4. ~Created(q, x)'
      BY <1>1, <2>3 DEF Created, Sharing, Serving
    <2> QED BY <2>1, <2>3, <2>4
  <1>4. NamesReserved'
    BY <1>1, <1>3 DEF NamesReserved
  <1>5. NamesOwned'
    BY <1>1, <1>3 DEF NamesOwned
  <1> QED BY <1>4, <1>5

(* The names of one process, from one of its steps to the next.            *)
LEMMA OthersKeepNames ==
  ASSUME IInv, ServersListed, NamesInv, NEW p \in Process,
         Register(p) \/ SetUp(p) \/ CleanUp(p) \/ Watchdog(p) \/ Environment(p),
         ~(AllocBridge(p) \/ AllocVirtual(p) \/ AddVirtual(p) \/ AddBridge(p)),
         ~(DeleteBridge(p) \/ DeleteVirtual(p) \/ RemoveCommonConfdir(p)),
         NEW x \in Prefix, UsesName(p, x)'
  PROVE  /\ UsesName(p, x) /\ iface'[p][x] = iface[p][x]
         /\ Created(p, x)' => Created(p, x)
         /\ pc[p] \in {"c_bridge", "c_virtual"} => pc'[p] \in {"c_bridge", "c_virtual"}
  <1> USE DEF NamesInv, UsesName, Prefix
  <1>0. TypeOK
    BY DEF IInv
  <1>1. CASE Register(p)
    <2>1. pc[p] \in BeforeNames /\ iface' = iface
      BY <1>1
         DEF At, shellVars, BeforeNames, Registering, Register, LockRegistry, Enter,
             MakeConfdir, MakeCommonConfdir, SaveForwarding, Save, SaveIpForward,
             SaveBridgeNf, UnlockRegistry, Leave, AfterBridge
    <2> QED BY <2>1 DEF NamesInOrder
  <1>2. CASE SetUp(p) /\ ~AddVirtualFails(p)
    <2>1. iface' = iface /\ reserved' = reserved /\ net' = net
      BY <1>2
         DEF shellVars, systemVars, SetUp, AllocBridge, AllocNewIface, Free, Locked,
             AfterBridge, AllocVirtual, AddVirtual, AddInterface, AddVirtualFails,
             ListInstance, AfterListing, SetForwarding, Set, Written, SetIpForward,
             SetBridgeNf, AddBridge, StartDnsmasq, StartWatchdog, NoteWatchdogPid,
             StartHostapd, NoteHostapdPid, WaitReturns
    <2>2. /\ pc[p] \in SetupLabel /\ pc[p] \notin {"unlock", "alloc_br", "alloc_ap", "add_ap"}
          /\ pc'[p] \in Serving /\ pc[p] \notin Serving =>
                pc[p] \in Sharing \cup {"list"} /\ ~OwnBridge(p)
          /\ pc'[p] \in Sharing \cup {"list"} => pc[p] \in Sharing \cup {"list"}
      <3> USE DEF TypeOK, Goto, At, Sharing, Serving, SetupLabel
      <3>1. CASE ListInstance(p)
        BY <1>0, <3>1 DEF ListInstance, AfterListing, OwnBridge
      <3>2. CASE SetForwarding(p) \/ SetIpForward(p) \/ SetBridgeNf(p)
        BY <1>0, <3>2
           DEF SetForwarding, Set, SetIpForward, SetBridgeNf, OwnBridge, ServersListed
      <3>3. CASE StartDnsmasq(p) \/ StartWatchdog(p) \/ NoteWatchdogPid(p)
                 \/ StartHostapd(p) \/ NoteHostapdPid(p) \/ WaitReturns(p)
        BY <1>0, <3>3 DEF StartDnsmasq, StartWatchdog, NoteWatchdogPid, StartHostapd,
                    NoteHostapdPid, WaitReturns
      <3> QED BY <1>2, <3>1, <3>2, <3>3 DEF SetUp
    <2>3. x = "br" => OwnBridge(p)
      BY <2>1 DEF NamesInOrder
    <2> QED BY <2>1, <2>2, <2>3 DEF Created, SetupLabel, Dead
  <1>3. CASE AddVirtualFails(p)
    <2>1. /\ pc[p] = "add_ap" /\ pc'[p] = "c_lock"
          /\ iface' = [iface EXCEPT ![p] = [iface[p] EXCEPT !["ap"] = NoSlot]]
      BY <1>0, <1>3 DEF AddVirtualFails, At, Goto, TypeOK
    <2>2. iface'[p]["ap"] = NoSlot /\ iface'[p]["br"] = iface[p]["br"]
      BY <1>0, <2>1 DEF TypeOK
    <2> QED BY <1>3, <2>1, <2>2
               DEF Created, Sharing, Serving, Dead, AddVirtualFails, systemVars
  <1>4. CASE CleanUp(p)
    <2>1. iface' = iface /\ reserved' = reserved /\ net' = net
      BY <1>4
         DEF shellVars, systemVars, CleanUp, LockCleanup, Enter, KillChildren,
             RemoveConfdir, RestoreForwarding, Restore, Written, KeepForwarding,
             LockScan, FindRunning, Leave, FindNoneRunning, KillHaveged,
             DropOrphanedLock, RestoreIpForward, RestoreBridgeNf, RemoveCommonConfdir,
             DeleteBridge, DeleteInterface, DeleteVirtual, UnlockCleanup, Exit
    <2>2. /\ pc[p] \in CleanupLabel \ {"c_bridge", "c_virtual"}
          /\ pc[p] \in {"c_unlock", "c_exit"} => pc'[p] \in {"c_exit", "gone"}
          /\ pc'[p] \notin Sharing \cup {"list"}
      BY <1>0, <1>4
         DEF TypeOK, Goto, At, CleanupLabel, Sharing, Serving, CleanUp, LockCleanup,
             Enter, KillChildren, RemoveConfdir, RestoreForwarding, Restore, Written,
             KeepForwarding, LockScan, FindRunning, Leave, FindNoneRunning,
             KillHaveged, DropOrphanedLock, RestoreIpForward, RestoreBridgeNf,
             RemoveCommonConfdir, DeleteBridge, DeleteInterface, DeleteVirtual,
             UnlockCleanup, Exit
    <2> QED BY <2>1, <2>2 DEF Created, Sharing, CleanupLabel, Dead
  <1>5. CASE Watchdog(p)
    BY <1>5
       DEF Created, shellVars, systemVars, Watchdog, WatchdogFindsNone, WatchdogStep,
           WatchdogLocks, Enter, WatchdogStartsHaveged, WatchdogUnlocks, Leave
  <1>6. CASE Environment(p)
    <2>1. iface' = iface /\ reserved' = reserved /\ net' = net
      BY <1>6
         DEF shellVars, systemVars, Environment, QuitEarly, Abort, AbortInMutex,
             ShortSection, AfterListing, Enter, Leave, Crash, DropOrphanedLock,
             HostapdEnds
    <2>2. \/ pc'[p] = pc[p]
          \/ pc'[p] \in Dead
          \/ pc[p] \in SetupLabel /\ pc'[p] \in {"c_lock", "hung"}
      BY <1>0, <1>6, AbortMeans
         DEF Environment, QuitEarly, Crash, HostapdEnds, TypeOK, Goto, At, Dead
    <2> QED BY <2>1, <2>2 DEF Created, Sharing, Serving, SetupLabel, Dead
  <1> QED BY <1>1, <1>2, <1>3, <1>4, <1>5, <1>6

(* Nobody has a name or an interface of another.                           *)
LEMMA StepKeepsNames ==
  ASSUME IInv, ServersListed, NamesInv, [Next]_vars PROVE NamesReserved' /\ NamesOwned'
  <1>0. TypeOK
    BY DEF IInv
  <1>1. ASSUME NEW p \in Process,
               Register(p) \/ SetUp(p) \/ CleanUp(p) \/ Watchdog(p) \/ Environment(p)
        PROVE  NamesReserved' /\ NamesOwned'
    <2>1. CASE AllocBridge(p) \/ AllocVirtual(p)
      BY <2>1, AllocKeepsNames
    <2>2. CASE AddVirtual(p) \/ AddBridge(p)
      BY <2>2, AddKeepsNames
    <2>3. CASE DeleteBridge(p) \/ DeleteVirtual(p)
      BY <2>3, DeleteKeepsNames
    <2>4. CASE RemoveCommonConfdir(p)
      BY <2>4, RemoveKeepsNames
    <2>5. CASE ~(AllocBridge(p) \/ AllocVirtual(p) \/ AddVirtual(p) \/ AddBridge(p))
               /\ ~(DeleteBridge(p) \/ DeleteVirtual(p) \/ RemoveCommonConfdir(p))
      <3>1. Local(p)
        BY <1>0, <1>1, StepIsLocal
      <3>2. UNCHANGED <<reserved, net>>
        BY <1>1, <2>5
           DEF systemVars, Register, LockRegistry, Enter, MakeConfdir,
               MakeCommonConfdir, SaveForwarding, Save, SaveIpForward, SaveBridgeNf,
               UnlockRegistry, Leave, AfterBridge, SetUp, AllocBridge, AllocNewIface,
               Free, Locked, AfterBridge, AllocVirtual, AddVirtual, AddInterface,
               AddVirtualFails, ListInstance, AfterListing, SetForwarding, Set,
               Written, SetIpForward, SetBridgeNf, AddBridge, StartDnsmasq,
               StartWatchdog, NoteWatchdogPid, StartHostapd, NoteHostapdPid,
               WaitReturns, CleanUp, LockCleanup, Enter, KillChildren, RemoveConfdir,
               RestoreForwarding, Restore, Written, KeepForwarding, LockScan,
               FindRunning, Leave, FindNoneRunning, KillHaveged, DropOrphanedLock,
               RestoreIpForward, RestoreBridgeNf, RemoveCommonConfdir, DeleteBridge,
               DeleteInterface, DeleteVirtual, UnlockCleanup, Exit, Watchdog,
               WatchdogFindsNone, WatchdogStep, WatchdogLocks, Enter,
               WatchdogStartsHaveged, WatchdogUnlocks, Leave, Environment, QuitEarly,
               Abort, AbortInMutex, ShortSection, AfterListing, Enter, Leave, Crash,
               DropOrphanedLock, HostapdEnds
      <3> QED BY <1>1, <2>5, <3>1, <3>2, OthersKeepNames, NamesUndisturbed DEF NamesInv
    <2> QED BY <2>1, <2>2, <2>3, <2>4, <2>5
  <1>2. CASE UNCHANGED vars
    BY <1>2
       DEF vars, shellVars, systemVars, NamesInv, NamesReserved, NamesOwned, UsesName,
           Created
  <1> QED BY <1>1, <1>2 DEF Next

-----------------------------------------------------------------------------
(* A step of one process takes the lock from no other that lives.          *)
LEMMA LockStays ==
  ASSUME IInv, NEW p \in Process,
         Register(p) \/ SetUp(p) \/ CleanUp(p) \/ Watchdog(p) \/ Environment(p),
         NEW q \in Process, q # p, holder = q, pc[q] \notin Dead
  PROVE  holder' = q
  <1>0. TypeOK /\ Local(p)
    BY StepIsLocal DEF IInv
  <1>1. depth[p] = 0
    BY <1>0, NoProcessAssumption DEF IInv, LockCovers, TypeOK, LockTypeOK
  <1>2. ~Enter(p) /\ ~Leave(p)
    BY <1>1, NoProcessAssumption DEF Enter, Leave
  <1>3. DropOrphanedLock => holder' = q
    <2>1. pc'[q] \notin Dead
      BY <1>0 DEF Local
    <2>2. KeepsLockFile(q)'
      BY <2>1 DEF KeepsLockFile
    <2> QED BY <2>2 DEF DropOrphanedLock
  <1>4. CASE Register(p)
    BY <1>2, <1>4
       DEF Register, LockRegistry, MakeConfdir, MakeCommonConfdir, SaveForwarding,
           Save, SaveIpForward, SaveBridgeNf, UnlockRegistry, lockVars
  <1>5. CASE SetUp(p)
    BY <1>5
       DEF SetUp, AllocBridge, AllocNewIface, Locked, AllocVirtual, AddVirtual,
           AddInterface, AddVirtualFails, ListInstance, SetForwarding, Set,
           SetIpForward, SetBridgeNf, AddBridge, StartDnsmasq, StartWatchdog,
           NoteWatchdogPid, StartHostapd, NoteHostapdPid, WaitReturns, lockVars
  <1>6. CASE CleanUp(p)
    BY <1>2, <1>3, <1>6
       DEF CleanUp, LockCleanup, KillChildren, RemoveConfdir, RestoreForwarding,
           Restore, KeepForwarding, LockScan, FindRunning, FindNoneRunning,
           KillHaveged, RestoreIpForward, RestoreBridgeNf, RemoveCommonConfdir,
           DeleteBridge, DeleteInterface, DeleteVirtual, UnlockCleanup, Exit, lockVars
  <1>7. CASE Watchdog(p)
    BY <1>2, <1>7
       DEF Watchdog, WatchdogFindsNone, WatchdogLocks, WatchdogStartsHaveged,
           WatchdogUnlocks, lockVars
  <1>8. CASE Environment(p)
    BY <1>2, <1>3, <1>8
       DEF Environment, QuitEarly, Abort, AbortInMutex, Crash, HostapdEnds, lockVars
  <1> QED BY <1>4, <1>5, <1>6, <1>7, <1>8

(* The clauses of HalfRegistered for one process.                          *)
Seen(p) ==
    /\ Running(p) /\ ~common[p] => holder = p
    /\ watchdog[p] # "none" \/ watchdogPid[p] => common[p]
    /\ pc[p] \in CleanupLabel \ {"c_lock", "c_kill", "c_rmconf"} => "pid" \notin confdir[p]

(* Between the lines that write pid and COMMON_CONFDIR, and from there     *)
(* through an aborted registration, a process has the lock.                *)
LEMMA StepKeepsHalf == ASSUME IInv, HalfRegistered, [Next]_vars PROVE HalfRegistered'
  <1>0. TypeOK /\ UsersRegistered /\ SectionsExclusive
    BY CoveredIsExclusive DEF IInv
  <1>1. ASSUME NEW p \in Process,
               Register(p) \/ SetUp(p) \/ CleanUp(p) \/ Watchdog(p) \/ Environment(p)
        PROVE  HalfRegistered'
    <2>1. ASSUME NEW q \in Process, q # p PROVE Seen(q)'
      <3>1. Local(p) /\ Seen(q)
        BY <1>0, <1>1, StepIsLocal DEF HalfRegistered, Seen
      <3>2. holder = q /\ pc[q] \notin Dead => holder' = q
        BY <1>1, <2>1, LockStays
      <3> QED BY <2>1, <3>1, <3>2 DEF Seen, Local, Running
    <2>2. Seen(p)'
      <3> USE DEF Seen, HalfRegistered, Running, Goto, At, shellVars, childVars, systemVars
      <3>1. CASE Register(p)
        <4>1. CASE LockRegistry(p)
          BY <1>0, <4>1 DEF TypeOK, LockRegistry, Enter, CleanupLabel
        <4>2. CASE ~LockRegistry(p)
          <5>1. pc[p] \in Registering /\ holder = p /\ pc'[p] \notin CleanupLabel
            BY <1>0, <3>1, <4>2
               DEF SectionsExclusive, TypeOK, Registering, CleanupLabel, Register,
                   LockRegistry, Enter, MakeConfdir, MakeCommonConfdir,
                   SaveForwarding, Save, SaveIpForward, SaveBridgeNf, UnlockRegistry,
                   Leave, AfterBridge
          <5>2. holder' = p \/ UnlockRegistry(p)
            BY <3>1, <4>2, <5>1
               DEF lockVars, Register, LockRegistry, Enter, MakeConfdir,
                   MakeCommonConfdir, SaveForwarding, Save, SaveIpForward,
                   SaveBridgeNf, UnlockRegistry, Leave, AfterBridge
          <5>3. pc[p] = "unlock" => common[p]
            BY <1>0 DEF UsersRegistered, SetupLabel
          <5>4. common[p] => common'[p]
            BY <1>0, <3>1
               DEF TypeOK, Register, LockRegistry, Enter, MakeConfdir,
                   MakeCommonConfdir, SaveForwarding, Save, SaveIpForward,
                   SaveBridgeNf, UnlockRegistry, Leave, AfterBridge
          <5>5. watchdog' = watchdog /\ watchdogPid' = watchdogPid
            BY <3>1
               DEF Register, LockRegistry, Enter, MakeConfdir, MakeCommonConfdir,
                   SaveForwarding, Save, SaveIpForward, SaveBridgeNf, UnlockRegistry,
                   Leave, AfterBridge
          <5> QED BY <5>1, <5>2, <5>3, <5>4, <5>5 DEF UnlockRegistry
        <4> QED BY <4>1, <4>2
      <3>2. CASE SetUp(p)
        <4>1. pc[p] \in SetupLabel \ {"mkconf", "mkcommon"} /\ common' = common
          BY <3>2
             DEF SetupLabel, SetUp, AllocBridge, AllocNewIface, Free, Locked,
                 AfterBridge, AllocVirtual, AddVirtual, AddInterface, AddVirtualFails,
                 ListInstance, AfterListing, SetForwarding, Set, Written,
                 SetIpForward, SetBridgeNf, AddBridge, StartDnsmasq, StartWatchdog,
                 NoteWatchdogPid, StartHostapd, NoteHostapdPid, WaitReturns
        <4>2. pc'[p] \in SetupLabel \cup {"c_lock"}
          BY <1>0, <3>2
             DEF TypeOK, SetupLabel, SetUp, AllocBridge, AllocNewIface, Free, Locked,
                 AfterBridge, AllocVirtual, AddVirtual, AddInterface, AddVirtualFails,
                 ListInstance, AfterListing, SetForwarding, Set, Written,
                 SetIpForward, SetBridgeNf, AddBridge, StartDnsmasq, StartWatchdog,
                 NoteWatchdogPid, StartHostapd, NoteHostapdPid, WaitReturns
        <4>3. common'[p]
          BY <1>0, <4>1 DEF UsersRegistered
        <4> QED BY <4>2, <4>3 DEF SetupLabel, CleanupLabel
      <3>3. CASE CleanUp(p)
        <4>1. CASE LockCleanup(p)
          BY <1>0, <4>1 DEF TypeOK, LockCleanup, Enter
        <4>2. CASE KillChildren(p)
          <5>1. holder = p /\ holder' = p
            BY <1>0, <4>2
               DEF SectionsExclusive, KillChildren, CleaningUp, CleanupLabel, lockVars
          <5>2. watchdog'[p] # "none" => watchdog[p] # "none" \/ watchdogPid[p]
            BY <1>0, <4>2 DEF TypeOK, KillChildren
          <5> QED BY <1>0, <4>2, <5>1, <5>2 DEF TypeOK, KillChildren, CleanupLabel
        <4>3. CASE ~LockCleanup(p) /\ ~KillChildren(p)
          <5>1. /\ common' = common /\ watchdog' = watchdog /\ watchdogPid' = watchdogPid
                /\ pc[p] \in CleanupLabel \ {"c_lock", "c_kill"}
                /\ pc[p] = "c_rmconf" => confdir'[p] = {}
                /\ pc[p] # "c_rmconf" => confdir'[p] = confdir[p]
            BY <1>0, <3>3, <4>3
               DEF TypeOK, CleanupLabel, CleanUp, LockCleanup, Enter, KillChildren,
                   RemoveConfdir, RestoreForwarding, Restore, Written, KeepForwarding,
                   LockScan, FindRunning, Leave, FindNoneRunning, KillHaveged,
                   DropOrphanedLock, RestoreIpForward, RestoreBridgeNf,
                   RemoveCommonConfdir, DeleteBridge, DeleteInterface, DeleteVirtual,
                   UnlockCleanup, Exit
          <5> QED BY <5>1
        <4> QED BY <3>3, <4>1, <4>2, <4>3 DEF CleanUp
      <3>4. CASE Watchdog(p)
        <4>1. /\ pc' = pc /\ common' = common /\ confdir' = confdir /\ watchdog[p] # "none"
              /\ watchdogPid' = watchdogPid
          BY <3>4 DEF Watchdog, WatchdogFindsNone, WatchdogStep, WatchdogLocks,
                   Enter, WatchdogStartsHaveged, WatchdogUnlocks, Leave
        <4> QED BY <4>1
      <3>5. CASE Environment(p)
        <4>1. /\ common' = common /\ confdir' = confdir
              /\ watchdog' = watchdog /\ watchdogPid' = watchdogPid
          BY <3>5
             DEF Environment, QuitEarly, Abort, AbortInMutex, ShortSection,
                 AfterListing, Enter, Leave, Crash, DropOrphanedLock, HostapdEnds
        <4>3. CASE Abort(p)
          BY <1>0, <4>1, <4>3, NoProcessAssumption
             DEF TypeOK, Abort, Enter, SetupLabel, CleanupLabel, Dead, lockVars
        <4>4. CASE HostapdEnds(p)
          <5>1. pc' = pc /\ (pc[p] \notin Dead => holder' = holder \/ holder # p)
            BY <4>4 DEF HostapdEnds, DropOrphanedLock, KeepsLockFile
          <5> QED BY <4>1, <5>1
        <4>5. CASE pc'[p] \in Dead
          BY <4>1, <4>5 DEF CleanupLabel, Dead
        <4>6. CASE AbortInMutex(p)
          <5>1. common[p]
            BY <1>0, <4>6
               DEF UsersRegistered, AbortInMutex, ShortSection, AfterListing,
                   SetupLabel
          <5> QED BY <1>0, <4>1, <4>6, <5>1 DEF TypeOK, AbortInMutex, CleanupLabel
        <4> QED BY <1>0, <3>5, <4>3, <4>4, <4>5, <4>6
                DEF TypeOK, Environment, QuitEarly, Crash, Dead
      <3> QED BY <1>1, <3>1, <3>2, <3>3, <3>4, <3>5
    <2> QED BY <2>1, <2>2 DEF HalfRegistered, Seen
  <1>2. CASE UNCHANGED vars
    BY <1>2 DEF vars, lockVars, shellVars, childVars, HalfRegistered, Running
  <1> QED BY <1>1, <1>2 DEF Next

(* A crash is for ever.                                                    *)
LEMMA CrashOfOneStays ==
  ASSUME TypeOK, NEW p \in Process, pc[p] = "crashed",
         Register(p) \/ SetUp(p) \/ CleanUp(p) \/ Watchdog(p) \/ Environment(p)
  PROVE  pc'[p] = "crashed"
  <1>1. ~Register(p)
    BY DEF At, Register, LockRegistry, Enter, MakeConfdir, MakeCommonConfdir,
           SaveForwarding, Save, SaveIpForward, SaveBridgeNf, UnlockRegistry, Leave,
           AfterBridge
  <1>2. ~SetUp(p)
    BY DEF At, SetUp, AllocBridge, AllocNewIface, Free, Locked, AfterBridge,
           AllocVirtual, AddVirtual, AddInterface, AddVirtualFails, ListInstance,
           AfterListing, SetForwarding, Set, Written, SetIpForward, SetBridgeNf,
           AddBridge, StartDnsmasq, StartWatchdog, NoteWatchdogPid, StartHostapd,
           NoteHostapdPid, WaitReturns
  <1>3. ~CleanUp(p)
    BY DEF At, CleanUp, LockCleanup, Enter, KillChildren, RemoveConfdir,
           RestoreForwarding, Restore, Written, KeepForwarding, LockScan, FindRunning,
           Leave, FindNoneRunning, KillHaveged, DropOrphanedLock, RestoreIpForward,
           RestoreBridgeNf, RemoveCommonConfdir, DeleteBridge, DeleteInterface,
           DeleteVirtual, UnlockCleanup, Exit
  <1>4. CASE Watchdog(p)
    BY <1>4 DEF Watchdog, WatchdogFindsNone, WatchdogStep, WatchdogLocks,
              Enter, WatchdogStartsHaveged, WatchdogUnlocks, Leave
  <1>5. CASE Environment(p)
    <2>1. ~QuitEarly(p) /\ ~Abort(p) /\ ~AbortInMutex(p) /\ ~Crash(p)
      BY DEF QuitEarly, At, Abort, AbortInMutex, ShortSection, AfterListing, Crash,
             SetupLabel, Dead
    <2> QED BY <1>5, <2>1 DEF Environment, HostapdEnds
  <1> QED BY <1>1, <1>2, <1>3, <1>4, <1>5

LEMMA CrashStays ==
  ASSUME TypeOK, NEW p \in Process, Crashed,
         Register(p) \/ SetUp(p) \/ CleanUp(p) \/ Watchdog(p) \/ Environment(p)
  PROVE  Crashed'
  <1>1. PICK q \in Process : pc[q] = "crashed"
    BY DEF Crashed
  <1> QED BY <1>1, StepIsLocal, CrashOfOneStays DEF Crashed, Local

(* Whom has_running_instance finds in a cleanup will clean up after it.    *)
LEMMA RunningOwes ==
  ASSUME IInv, HalfRegistered, NEW p \in Process, pc[p] = "c_last",
         NEW q \in Process, Running(q)
  PROVE  q # p /\ Owes(q)
  <1>1. q # p
    BY DEF HalfRegistered, CleanupLabel, Running
  <1>2. SectionsExclusive /\ TypeOK
    BY CoveredIsExclusive DEF IInv
  <1>3. holder = p
    BY <1>2 DEF SectionsExclusive, CleaningUp, CleanupLabel
  <1>4. common[q]
    BY <1>1, <1>3 DEF HalfRegistered
  <1>5. pc[q] \in Label \ (Dead \cup {"start"})
    BY <1>2, <1>4 DEF TypeOK, Running, IInv, UsersRegistered
  <1>6. pc[q] \notin CleanupLabel \ {"c_lock", "c_kill", "c_rmconf"}
    BY DEF HalfRegistered, Running
  <1> QED BY <1>1, <1>4, <1>5, <1>6 DEF Owes, Label

(* Who makes a backup or a reservation owes its removal, and only hands    *)
(* that on to one that is running.                                         *)
LEMMA StepKeepsOwed ==
  ASSUME IInv, HalfRegistered, CommonOwed, [Next]_vars PROVE CommonOwed'
  <1>0. TypeOK /\ UsersRegistered
    BY DEF IInv
  <1>1. ASSUME NEW p \in Process,
               Register(p) \/ SetUp(p) \/ CleanUp(p) \/ Watchdog(p) \/ Environment(p)
        PROVE  CommonOwed'
    <2>1. Local(p)
      BY <1>0, <1>1, StepIsLocal
    <2>2. CASE Crashed
      BY <1>0, <1>1, <2>2, CrashStays DEF CommonOwed
    <2>3. CASE RemoveCommonConfdir(p) /\ common[p]
      BY <2>3 DEF RemoveCommonConfdir, CommonOwed
    <2>4. CASE Crash(p)
      BY <1>0, <2>4 DEF Crash, Goto, TypeOK, CommonOwed, Crashed
    <2>5. CASE FindRunning(p)
      <3>1. PICK q \in Process : Running(q)
        BY <2>5 DEF FindRunning
      <3>2. q # p /\ Owes(q)
        BY <2>5, <3>1, RunningOwes DEF FindRunning, At
      <3> QED BY <2>1, <3>2 DEF Local, Owes, CommonOwed
    <2>6. CASE ~(RemoveCommonConfdir(p) /\ common[p]) /\ ~Crash(p) /\ ~FindRunning(p)
      <3>1. Owes(p) => Owes(p)'
        <4> USE DEF Owes, TypeOK, Goto, At, shellVars, childVars, systemVars, SetupLabel, Last
        <4>1. CASE Register(p)
          BY <1>0, <4>1
             DEF Register, LockRegistry, Enter, MakeConfdir, MakeCommonConfdir,
                 SaveForwarding, Save, SaveIpForward, SaveBridgeNf, UnlockRegistry,
                 Leave, AfterBridge
        <4>2. CASE SetUp(p)
          BY <1>0, <4>2
             DEF SetUp, AllocBridge, AllocNewIface, Free, Locked, AfterBridge,
                 AllocVirtual, AddVirtual, AddInterface, AddVirtualFails,
                 ListInstance, AfterListing, SetForwarding, Set, Written,
                 SetIpForward, SetBridgeNf, AddBridge, StartDnsmasq, StartWatchdog,
                 NoteWatchdogPid, StartHostapd, NoteHostapdPid, WaitReturns
        <4>3. CASE CleanUp(p)
          BY <1>0, <2>6, <4>3
             DEF CleanUp, LockCleanup, Enter, KillChildren, RemoveConfdir,
                 RestoreForwarding, Restore, Written, KeepForwarding, LockScan,
                 FindRunning, Leave, FindNoneRunning, KillHaveged, DropOrphanedLock,
                 RestoreIpForward, RestoreBridgeNf, RemoveCommonConfdir, DeleteBridge,
                 DeleteInterface, DeleteVirtual, UnlockCleanup, Exit
        <4>4. CASE Watchdog(p)
          BY <1>0, <4>4 DEF Watchdog, WatchdogFindsNone, WatchdogStep, WatchdogLocks,
                   Enter, WatchdogStartsHaveged, WatchdogUnlocks, Leave
        <4>5. CASE Environment(p)
          BY <1>0, <2>6, <4>5
             DEF UsersRegistered, Environment, QuitEarly, Abort, AbortInMutex,
                 ShortSection, AfterListing, Enter, Leave, Crash, DropOrphanedLock,
                 HostapdEnds
        <4> QED BY <1>1, <4>1, <4>2, <4>3, <4>4, <4>5
      <3>2. (\E q \in Process : Owes(q)) => \E q \in Process : Owes(q)'
        BY <2>1, <3>1 DEF Local, Owes
      <3>3. Owes(p)' \/ (reserved' \subseteq reserved /\ \A s \in Setting :
                            saved[s] = "unsaved" => saved'[s] = "unsaved")
        <4>1. CASE SaveForwarding(p) \/ SaveIpForward(p) \/ SaveBridgeNf(p)
          <5>1. pc[p] \in {"save_dev", "save_ip", "save_nf"}
            BY <4>1 DEF SaveForwarding, SaveIpForward, SaveBridgeNf, Save, At
          <5>2. Owes(p)
            BY <1>0, <5>1 DEF Owes, UsersRegistered, SetupLabel
          <5> QED BY <3>1, <5>2
        <4>2. CASE AllocBridge(p) \/ AllocVirtual(p)
          <5>1. pc[p] \in {"alloc_br", "alloc_ap"}
            BY <4>2 DEF AllocBridge, AllocVirtual, AllocNewIface, At
          <5>2. Owes(p)
            BY <1>0, <5>1 DEF Owes, UsersRegistered, SetupLabel
          <5> QED BY <3>1, <5>2
        <4>3. CASE CleanUp(p)
          BY <1>0, <4>3
             DEF TypeOK, shellVars, childVars, systemVars, CleanUp, LockCleanup,
                 Enter, KillChildren, RemoveConfdir, RestoreForwarding, Restore,
                 Written, KeepForwarding, LockScan, FindRunning, Leave,
                 FindNoneRunning, KillHaveged, DropOrphanedLock, RestoreIpForward,
                 RestoreBridgeNf, RemoveCommonConfdir, DeleteBridge, DeleteInterface,
                 DeleteVirtual, UnlockCleanup, Exit
        <4>4. CASE ~(SaveForwarding(p) \/ SaveIpForward(p) \/ SaveBridgeNf(p))
                   /\ ~(AllocBridge(p) \/ AllocVirtual(p)) /\ ~CleanUp(p)
          <5>1. UNCHANGED <<reserved, saved>>
            BY <1>1, <4>4
               DEF systemVars, Register, LockRegistry, Enter, MakeConfdir,
                   MakeCommonConfdir, SaveForwarding, Save, SaveIpForward,
                   SaveBridgeNf, UnlockRegistry, Leave, AfterBridge, SetUp,
                   AddVirtual, AddInterface, AddVirtualFails, ListInstance,
                   SetForwarding, Set, SetIpForward, SetBridgeNf, AddBridge,
                   StartDnsmasq, StartWatchdog, NoteWatchdogPid, StartHostapd,
                   NoteHostapdPid, WaitReturns, Watchdog, WatchdogFindsNone,
                   WatchdogStep, WatchdogLocks, Enter, WatchdogStartsHaveged,
                   WatchdogUnlocks, Leave, Environment, QuitEarly, Abort,
                   AbortInMutex, ShortSection, AfterListing, Enter, Leave, Crash,
                   DropOrphanedLock, HostapdEnds
          <5> QED BY <5>1
        <4> QED BY <4>1, <4>2, <4>3, <4>4
      <3>4. CASE Owes(p)'
        BY <3>4 DEF CommonOwed
      <3>5. CASE /\ reserved' \subseteq reserved
                 /\ \A s \in Setting : saved[s] = "unsaved" => saved'[s] = "unsaved"
        BY <2>2, <3>2, <3>5 DEF CommonOwed
      <3> QED BY <3>3, <3>4, <3>5
    <2> QED BY <2>3, <2>4, <2>5, <2>6
  <1>2. CASE UNCHANGED vars
    BY <1>2 DEF vars, shellVars, systemVars, CommonOwed, Crashed, Owes
  <1> QED BY <1>1, <1>2 DEF Next

(* A process that has created an interface keeps its name until it has     *)
(* deleted it.                                                             *)
LEMMA CreatorKeepsName ==
  ASSUME TypeOK, NamesInOrder, NEW p \in Process,
         Register(p) \/ SetUp(p) \/ CleanUp(p) \/ Watchdog(p) \/ Environment(p),
         ~(AddVirtual(p) \/ AddBridge(p)),
         NEW x \in Prefix, UsesName(p, x), <<pc[p], x>> # <<"add_ap", "ap">>,
         net'[x][iface[p][x]] = p
  PROVE  \/ pc'[p] = "crashed"
         \/ /\ UsesName(p, x)' /\ iface'[p][x] = iface[p][x]
            /\ <<pc'[p], x>> # <<"add_ap", "ap">>
  <1> USE DEF TypeOK, UsesName, Goto, At, Prefix
  <1>0. iface[p][x] # NoSlot
    OBVIOUS
  <1>1. CASE Register(p)
    <2>1. pc[p] \in BeforeNames
      BY <1>1
         DEF BeforeNames, Registering, Register, LockRegistry, Enter, MakeConfdir,
             MakeCommonConfdir, SaveForwarding, Save, SaveIpForward, SaveBridgeNf,
             UnlockRegistry, Leave, AfterBridge
    <2> QED BY <1>0, <2>1 DEF NamesInOrder
  <1>2. CASE SetUp(p)
    <2>1. CASE AllocBridge(p)
      <3>1. pc[p] \in BeforeNames
        BY <2>1 DEF BeforeNames, AllocBridge, AllocNewIface
      <3> QED BY <1>0, <3>1 DEF NamesInOrder
    <2>2. CASE AllocVirtual(p)
      <3>1. /\ pc[p] = "alloc_ap" /\ pc'[p] = "add_ap"
            /\ \E k \in Slot : iface' = [iface EXCEPT ![p] = [iface[p] EXCEPT !["ap"] = k]]
        BY <2>2 DEF AllocVirtual, AllocNewIface
      <3>2. x = "br"
        BY <1>0, <3>1 DEF NamesInOrder
      <3>3. iface'[p]["br"] = iface[p]["br"]
        BY <3>1
      <3> QED BY <1>0, <3>1, <3>2, <3>3 DEF Dead
    <2>3. CASE AddVirtualFails(p)
      <3>1. /\ pc[p] = "add_ap" /\ pc'[p] = "c_lock"
            /\ iface' = [iface EXCEPT ![p] = [iface[p] EXCEPT !["ap"] = NoSlot]]
        BY <2>3 DEF AddVirtualFails
      <3>2. x = "br" /\ iface'[p]["br"] = iface[p]["br"]
        BY <3>1
      <3> QED BY <1>0, <3>1, <3>2 DEF Dead
    <2>4. CASE ~(AllocBridge(p) \/ AllocVirtual(p) \/ AddVirtualFails(p))
      <3>1. pc'[p] \in SetupLabel \cup {"c_lock"} /\ pc'[p] # "add_ap"
        <4> USE DEF SetupLabel
        <4>1. CASE ListInstance(p)
          BY <4>1 DEF ListInstance, AfterListing
        <4>2. CASE SetForwarding(p) \/ SetIpForward(p) \/ SetBridgeNf(p)
          BY <4>2 DEF SetForwarding, Set, SetIpForward, SetBridgeNf
        <4>3. CASE StartDnsmasq(p) \/ StartWatchdog(p) \/ NoteWatchdogPid(p)
                   \/ StartHostapd(p) \/ NoteHostapdPid(p) \/ WaitReturns(p)
          BY <4>3 DEF StartDnsmasq, StartWatchdog, NoteWatchdogPid, StartHostapd,
                      NoteHostapdPid, WaitReturns
        <4> QED BY <1>2, <2>4, <4>1, <4>2, <4>3 DEF SetUp
      <3>2. iface' = iface
        BY <1>2, <2>4
           DEF shellVars, SetUp, AllocBridge, AllocNewIface, Free, Locked,
               AfterBridge, AllocVirtual, AddVirtual, AddInterface, AddVirtualFails,
               ListInstance, AfterListing, SetForwarding, Set, Written, SetIpForward,
               SetBridgeNf, AddBridge, StartDnsmasq, StartWatchdog, NoteWatchdogPid,
               StartHostapd, NoteHostapdPid, WaitReturns
      <3> QED BY <1>0, <3>1, <3>2 DEF SetupLabel, Dead
    <2> QED BY <2>1, <2>2, <2>3, <2>4
  <1>3. CASE CleanUp(p)
    <2>1. iface' = iface
      BY <1>3
         DEF shellVars, CleanUp, LockCleanup, Enter, KillChildren, RemoveConfdir,
             RestoreForwarding, Restore, Written, KeepForwarding, LockScan,
             FindRunning, Leave, FindNoneRunning, KillHaveged, DropOrphanedLock,
             RestoreIpForward, RestoreBridgeNf, RemoveCommonConfdir, DeleteBridge,
             DeleteInterface, DeleteVirtual, UnlockCleanup, Exit
    <2>2. CASE DeleteBridge(p) \/ DeleteVirtual(p)
      <3>1. PICK y \in Prefix :
              /\ iface[p][y] # NoSlot =>
                    net' = [net EXCEPT ![y] = [net[y] EXCEPT ![iface[p][y]] = NoProcess]]
              /\ y = "br" => pc[p] = "c_bridge" /\ pc'[p] = "c_virtual"
              /\ y = "ap" => pc[p] = "c_virtual" /\ pc'[p] = "c_unlock"
        BY <2>2 DEF DeleteBridge, DeleteVirtual, DeleteInterface
      <3>2. x # y
        <4>1. SUFFICES ASSUME x = y PROVE FALSE
          OBVIOUS
        <4>2. iface[p][x] \in Slot
          BY <1>0
        <4>3. net'[x][iface[p][x]] = NoProcess
          BY <1>0, <3>1, <4>1, <4>2
        <4> QED BY <4>3, NoProcessAssumption
      <3> QED BY <1>0, <2>1, <3>1, <3>2 DEF Dead
    <2>3. CASE ~(DeleteBridge(p) \/ DeleteVirtual(p))
      <3>1. /\ pc[p] \in {"c_unlock", "c_exit"}
               \/ pc'[p] \in CleanupLabel \ {"c_virtual", "c_unlock", "c_exit"}
        BY <1>3, <2>3
           DEF CleanupLabel, CleanUp, LockCleanup, Enter, KillChildren, RemoveConfdir,
               RestoreForwarding, Restore, Written, KeepForwarding, LockScan,
               FindRunning, Leave, FindNoneRunning, KillHaveged, DropOrphanedLock,
               RestoreIpForward, RestoreBridgeNf, RemoveCommonConfdir, DeleteBridge,
               DeleteInterface, DeleteVirtual, UnlockCleanup, Exit
      <3> QED BY <1>0, <2>1, <3>1 DEF CleanupLabel, Dead
    <2> QED BY <2>2, <2>3
  <1>4. CASE Watchdog(p)
    BY <1>4 DEF shellVars, Watchdog, WatchdogFindsNone, WatchdogStep, WatchdogLocks,
                Enter, WatchdogStartsHaveged, WatchdogUnlocks, Leave
  <1>5. CASE Environment(p)
    <2>1. iface' = iface
      BY <1>5
         DEF shellVars, Environment, QuitEarly, Abort, AbortInMutex, ShortSection,
             AfterListing, Enter, Leave, Crash, DropOrphanedLock, HostapdEnds
    <2>2. \/ pc'[p] = pc[p]
          \/ pc'[p] = "crashed"
          \/ pc[p] = "start"
          \/ pc[p] \in SetupLabel /\ pc'[p] \in {"c_lock", "hung"}
      BY <1>5, AbortMeans DEF Environment, QuitEarly, Crash, HostapdEnds
    <2>3. pc[p] # "start"
      BY <1>0 DEF NamesInOrder, BeforeNames
    <2> QED BY <1>0, <2>1, <2>2, <2>3 DEF SetupLabel, Dead
  <1> QED BY <1>1, <1>2, <1>3, <1>4, <1>5

(* What InterfacesOwed says of one process.                                *)
OwesNet(p) ==
    \A x \in Prefix : \A k \in Slot : net[x][k] = p =>
        \/ pc[p] = "crashed"
        \/ UsesName(p, x) /\ iface[p][x] = k /\ <<pc[p], x>> # <<"add_ap", "ap">>

(* An interface in the net is that of a process which will delete it, or   *)
(* has crashed.                                                            *)
LEMMA StepKeepsNet ==
  ASSUME IInv, NamesInv, InterfacesOwed, [Next]_vars PROVE InterfacesOwed'
  <1>0. TypeOK /\ NamesInOrder
    BY DEF IInv, NamesInv
  <1>1. ASSUME NEW p \in Process,
               Register(p) \/ SetUp(p) \/ CleanUp(p) \/ Watchdog(p) \/ Environment(p)
        PROVE  InterfacesOwed'
    <2>1. Local(p) /\ OwesNet(p)
      BY <1>0, <1>1, StepIsLocal DEF InterfacesOwed, OwesNet
    <2>2. CASE AddVirtual(p) \/ AddBridge(p)
      <3>1. PICK x \in Prefix :
              /\ iface[p][x] \in Slot /\ iface' = iface
              /\ net' = [net EXCEPT ![x] = [net[x] EXCEPT ![iface[p][x]] = p]]
              /\ pc[p] \in {"add_ap", "add_br"} /\ pc'[p] \in {"list", "watchdog"}
        <4>1. CASE AddVirtual(p)
          <5>1. iface[p]["ap"] \in Slot
            BY <1>0, <4>1 DEF AddVirtual, AddInterface, At, NamesInOrder, TypeOK, Prefix
          <5> QED BY <1>0, <4>1, <5>1
                  DEF AddVirtual, AddInterface, At, Goto, TypeOK, Prefix, shellVars
        <4>2. CASE AddBridge(p)
          <5>1. iface[p]["br"] \in Slot
            BY <1>0, <4>2 DEF AddBridge, AddInterface, At, NamesInOrder, BeforeNames,
                              Registering, SetupLabel, TypeOK, Prefix
          <5> QED BY <1>0, <4>2, <5>1
                  DEF AddBridge, AddInterface, At, Goto, TypeOK, Prefix, shellVars
        <4> QED BY <2>2, <4>1, <4>2
      <3>2. ASSUME NEW y \in Prefix, NEW k \in Slot, ~(y = x /\ k = iface[p][x])
            PROVE  net'[y][k] = net[y][k]
        BY <1>0, <3>1, <3>2 DEF TypeOK
      <3>3. net'[x][iface[p][x]] = p
        BY <1>0, <3>1 DEF TypeOK
      <3>4. OwesNet(p)'
        <4>1. \A y \in Prefix : iface[p][y] # NoSlot => UsesName(p, y)'
          BY <3>1 DEF UsesName, Dead
        <4>2. iface[p][x] # NoSlot
          BY <3>1, MaxSlotAssumption DEF Slot, NoSlot
        <4> QED BY <2>1, <3>1, <3>2, <4>1, <4>2 DEF OwesNet, UsesName
      <3>5. ASSUME NEW q \in Process, q # p PROVE OwesNet(q)'
        <4>1. \A y \in Prefix, k \in Slot : net'[y][k] = q => net[y][k] = q
          BY <3>2, <3>3, <3>5
        <4> QED BY <2>1, <3>1, <3>5, <4>1 DEF InterfacesOwed, OwesNet, Local, UsesName
      <3> QED BY <3>4, <3>5 DEF InterfacesOwed, OwesNet
    <2>3. CASE ~(AddVirtual(p) \/ AddBridge(p))
      <3>1. \A y \in Prefix, k \in Slot : net'[y][k] \in {net[y][k], NoProcess}
        <4>1. CASE DeleteBridge(p) \/ DeleteVirtual(p)
          <5>1. PICK x \in Prefix : \/ net' = net
                                    \/ /\ iface[p][x] # NoSlot
                                       /\ net' = [net EXCEPT ![x][iface[p][x]] = NoProcess]
            BY <4>1 DEF DeleteBridge, DeleteVirtual, DeleteInterface, Prefix
          <5>2. CASE net' # net
            <6>1. iface[p][x] \in Slot
              BY <1>0, <5>1, <5>2 DEF TypeOK
            <6>2. net' = [net EXCEPT ![x] = [net[x] EXCEPT ![iface[p][x]] = NoProcess]]
              BY <5>1, <5>2
            <6> QED BY <1>0, <6>1, <6>2 DEF TypeOK
          <5> QED BY <5>1, <5>2
        <4>2. CASE ~(DeleteBridge(p) \/ DeleteVirtual(p))
          <5>1. net' = net
            BY <1>1, <2>3, <4>2
               DEF systemVars, Register, LockRegistry, Enter, MakeConfdir,
                   MakeCommonConfdir, SaveForwarding, Save, SaveIpForward,
                   SaveBridgeNf, UnlockRegistry, Leave, AfterBridge, SetUp,
                   AllocBridge, AllocNewIface, Free, Locked, AfterBridge,
                   AllocVirtual, AddVirtual, AddInterface, AddVirtualFails,
                   ListInstance, AfterListing, SetForwarding, Set, Written,
                   SetIpForward, SetBridgeNf, AddBridge, StartDnsmasq, StartWatchdog,
                   NoteWatchdogPid, StartHostapd, NoteHostapdPid, WaitReturns,
                   CleanUp, LockCleanup, Enter, KillChildren, RemoveConfdir,
                   RestoreForwarding, Restore, Written, KeepForwarding, LockScan,
                   FindRunning, Leave, FindNoneRunning, KillHaveged, DropOrphanedLock,
                   RestoreIpForward, RestoreBridgeNf, RemoveCommonConfdir,
                   DeleteBridge, DeleteInterface, DeleteVirtual, UnlockCleanup, Exit,
                   Watchdog, WatchdogFindsNone, WatchdogStep, WatchdogLocks, Enter,
                   WatchdogStartsHaveged, WatchdogUnlocks, Leave, Environment,
                   QuitEarly, Abort, AbortInMutex, ShortSection, AfterListing, Enter,
                   Leave, Crash, DropOrphanedLock, HostapdEnds
          <5> QED BY <5>1
        <4> QED BY <4>1, <4>2
      <3>2. ASSUME NEW q \in Process, q # p PROVE OwesNet(q)'
        <4>1. \A y \in Prefix, k \in Slot : net'[y][k] = q => net[y][k] = q
          BY <3>1, <3>2, NoProcessAssumption
        <4> QED BY <2>1, <3>2, <4>1 DEF InterfacesOwed, OwesNet, Local, UsesName
      <3>3. ASSUME NEW x \in Prefix, NEW k \in Slot, net'[x][k] = p
            PROVE  \/ pc'[p] = "crashed"
                   \/ /\ UsesName(p, x)' /\ iface'[p][x] = k
                      /\ <<pc'[p], x>> # <<"add_ap", "ap">>
        <4>1. net[x][k] = p
          BY <3>1, <3>3, NoProcessAssumption
        <4>2. CASE pc[p] = "crashed"
          BY <1>0, <1>1, <4>2, CrashOfOneStays
        <4>3. CASE UsesName(p, x) /\ iface[p][x] = k /\ <<pc[p], x>> # <<"add_ap", "ap">>
          BY <1>0, <1>1, <2>3, <3>3, <4>1, <4>3, CreatorKeepsName
        <4> QED BY <2>1, <4>1, <4>2, <4>3 DEF OwesNet
      <3> QED BY <3>2, <3>3 DEF InterfacesOwed, OwesNet
    <2> QED BY <2>2, <2>3
  <1>2. CASE UNCHANGED vars
    BY <1>2 DEF vars, shellVars, systemVars, InterfacesOwed, UsesName
  <1> QED BY <1>1, <1>2 DEF Next

-----------------------------------------------------------------------------
LEMMA InitShares == Init => SharedInv
  <1> SUFFICES ASSUME Init PROVE SharedInv
    OBVIOUS
  <1> USE DEF Init
  <1>1. KeptInv
    BY DEF KeptInv, ServersListed, SettingsSet, Sharing, Serving, SetupLabel
  <1>2. NamesInv
    BY DEF NamesInv, NamesInOrder, NamesReserved, NamesOwned, UsesName, Prefix,
           SetupLabel
  <1>3. OwedInv
    BY NoProcessAssumption
       DEF OwedInv, CommonOwed, HalfRegistered, InterfacesOwed, Running, CleanupLabel
  <1> QED BY <1>1, <1>2, <1>3 DEF SharedInv

(* SharedInv holds in every state of every behaviour.                      *)
THEOREM SharedInvariant == Spec => []SharedInv
  <1>1. IInv /\ SharedInv /\ [Next]_vars => SharedInv'
    <2> SUFFICES ASSUME IInv, SharedInv, [Next]_vars PROVE SharedInv'
      OBVIOUS
    <2> USE DEF SharedInv, KeptInv, NamesInv, OwedInv
    <2>1. KeptInv'
      BY StepKeepsListed, StepKeepsSet
    <2>2. NamesInv'
      BY StepKeepsOrder, StepKeepsNames
    <2>3. OwedInv'
      BY StepKeepsOwed, StepKeepsHalf, StepKeepsNet
    <2> QED BY <2>1, <2>2, <2>3
  <1> QED BY <1>1, InitShares, Invariance, PTL DEF Spec

(* No cleanup, of whichever instance and in whatever order, turns off      *)
(* forwarding, or turns the filtering of bridges on, under an instance     *)
(* that serves (lines 721-757, 1895-1896, 1903).                           *)
THEOREM ServersKeepSettings == Spec => []ServingKeepsSettings
  <1>1. SharedInv => ServingKeepsSettings
    BY DEF SharedInv, KeptInv, SettingsSet, ServingKeepsSettings
  <1> QED BY <1>1, SharedInvariant, PTL

(* No two processes are given the same interface by alloc_new_iface, and   *)
(* what a cleanup deletes is its own (lines 408-428, 770, 820-821).        *)
THEOREM NamesAreOwned == Spec => []InterfacesOwned
  <1>1. SharedInv => InterfacesOwned
    BY DEF SharedInv, NamesInv, NamesOwned, InterfacesOwned, Created
  <1> QED BY <1>1, SharedInvariant, PTL

(* When all have gone through exit, without a crash, the common settings   *)
(* are what they were and no backup, reservation or interface is left: the *)
(* one that finds nobody running is the last (lines 735-757, 965-981).     *)
THEOREM NothingIsLeft == Spec => []AllRestored
  <1>1. TypeOK /\ SettingsRecoverable /\ OwedInv => AllRestored
    <2> SUFFICES ASSUME TypeOK, SettingsRecoverable, OwedInv,
                        \A p \in Process : pc[p] = "gone"
                 PROVE  /\ \A s \in CommonSetting : value[s] = orig[s]
                        /\ \A s \in Setting : saved[s] = "unsaved"
                        /\ reserved = {}
                        /\ \A x \in Prefix : \A k \in Slot : net[x][k] = NoProcess
      BY DEF AllRestored
    <2>1. ~Crashed /\ \A p \in Process : ~Owes(p)
      BY DEF Crashed, Owes, SetupLabel, Last
    <2>2. reserved = {} /\ \A s \in Setting : saved[s] = "unsaved"
      BY <2>1 DEF OwedInv, CommonOwed
    <2>3. \A s \in CommonSetting : value[s] = orig[s]
      BY <2>2 DEF SettingsRecoverable, Recoverable, Setting
    <2>4. ASSUME NEW x \in Prefix, NEW k \in Slot PROVE net[x][k] = NoProcess
      <3>1. net[x][k] \in Process \cup {NoProcess}
        BY DEF TypeOK
      <3>2. ASSUME NEW p \in Process PROVE net[x][k] # p
        BY DEF OwedInv, InterfacesOwed, UsesName, Dead
      <3> QED BY <3>1, <3>2
    <2> QED BY <2>2, <2>3, <2>4
  <1>2. IInv /\ SharedInv => AllRestored
    BY <1>1 DEF IInv, SharedInv
  <1> QED BY <1>2, Invariance, SharedInvariant, PTL

(* A backup of a common setting is dropped by a process that is the last.  *)
LEMMA BackupsDropLast ==
  ASSUME IInv, NEW p \in Process,
         Register(p) \/ SetUp(p) \/ CleanUp(p) \/ Watchdog(p) \/ Environment(p),
         NEW s \in CommonSetting, saved[s] # "unsaved", saved'[s] = "unsaved"
  PROVE  pc[p] \in Last
  <1>1. CleanUp(p)
    <2>1. CASE Register(p)
      BY <2>1, CommonSettingAssumption
         DEF IInv, TypeOK, systemVars, Setting, CommonSetting, Register,
             LockRegistry, Enter, MakeConfdir, MakeCommonConfdir, SaveForwarding,
             Save, SaveIpForward, SaveBridgeNf, UnlockRegistry, Leave, AfterBridge
    <2>2. CASE SetUp(p) \/ Watchdog(p) \/ Environment(p)
      BY <2>2
         DEF systemVars, SetUp, AllocBridge, AllocNewIface, Free, Locked,
             AfterBridge, AllocVirtual, AddVirtual, AddInterface, AddVirtualFails,
             ListInstance, AfterListing, SetForwarding, Set, Written, SetIpForward,
             SetBridgeNf, AddBridge, StartDnsmasq, StartWatchdog, NoteWatchdogPid,
             StartHostapd, NoteHostapdPid, WaitReturns, Watchdog, WatchdogFindsNone,
             WatchdogStep, WatchdogLocks, Enter, WatchdogStartsHaveged,
             WatchdogUnlocks, Leave, Environment, QuitEarly, Abort, AbortInMutex,
             ShortSection, AfterListing, Enter, Leave, Crash, DropOrphanedLock,
             HostapdEnds
    <2> QED BY <2>1, <2>2
  <1> QED
    BY <1>1, UplinkDiffers, CommonSettingAssumption
       DEF IInv, TypeOK, At, Last, Setting, CommonSetting, systemVars, CleanUp,
           LockCleanup, Enter, KillChildren, RemoveConfdir, RestoreForwarding,
           Restore, Written, KeepForwarding, LockScan, FindRunning, Leave,
           FindNoneRunning, KillHaveged, DropOrphanedLock, RestoreIpForward,
           RestoreBridgeNf, RemoveCommonConfdir, DeleteBridge, DeleteInterface,
           DeleteVirtual, UnlockCleanup, Exit

(* A reservation is dropped with all others by a process that is the last, *)
(* or by the process whose name it is, in its cleanup.                     *)
LEMMA ReservationsDrop ==
  ASSUME TypeOK, NEW p \in Process,
         Register(p) \/ SetUp(p) \/ CleanUp(p) \/ Watchdog(p) \/ Environment(p),
         NEW t \in reserved \ reserved'
  PROVE  \/ pc[p] \in Last
         \/ pc[p] \in {"c_bridge", "c_virtual"} /\ UsesName(p, t[1]) /\ iface[p][t[1]] = t[2]
  <1>1. CleanUp(p)
    <2>1. CASE Register(p)
      BY <2>1
         DEF systemVars, Register, LockRegistry, MakeConfdir, MakeCommonConfdir,
             SaveForwarding, Save, SaveIpForward, SaveBridgeNf, UnlockRegistry
    <2>2. CASE SetUp(p) \/ Watchdog(p) \/ Environment(p)
      BY <2>2
         DEF systemVars, SetUp, AllocBridge, AllocNewIface, AllocVirtual, AddVirtual,
             AddInterface, AddVirtualFails, ListInstance, SetForwarding, Set,
             SetIpForward, SetBridgeNf, AddBridge, StartDnsmasq, StartWatchdog,
             NoteWatchdogPid, StartHostapd, NoteHostapdPid, WaitReturns, Watchdog,
             WatchdogFindsNone, WatchdogStep, WatchdogLocks, WatchdogStartsHaveged,
             WatchdogUnlocks, Environment, QuitEarly, Abort, AbortInMutex, Crash,
             HostapdEnds
    <2> QED BY <2>1, <2>2
  <1>2. RemoveCommonConfdir(p) \/ DeleteBridge(p) \/ DeleteVirtual(p)
    BY <1>1
       DEF systemVars, CleanUp, LockCleanup, KillChildren, RemoveConfdir,
           RestoreForwarding, Restore, KeepForwarding, LockScan, FindRunning,
           FindNoneRunning, KillHaveged, RestoreIpForward, RestoreBridgeNf,
           UnlockCleanup, Exit
  <1>3. CASE RemoveCommonConfdir(p)
    BY <1>3 DEF RemoveCommonConfdir, At, Last
  <1>4. CASE DeleteBridge(p)
    BY <1>4 DEF DeleteBridge, DeleteInterface, At, UsesName, Dead
  <1>5. CASE DeleteVirtual(p)
    BY <1>5 DEF DeleteVirtual, DeleteInterface, At, UsesName, Dead
  <1> QED BY <1>2, <1>3, <1>4, <1>5

(* No process becomes running but in its registration, in the lock.        *)
LEMMA RunningRegisters ==
  ASSUME TypeOK, NEW p \in Process,
         Register(p) \/ SetUp(p) \/ CleanUp(p) \/ Watchdog(p) \/ Environment(p),
         NEW q \in Process, Running(q)', ~Running(q)
  PROVE  q = p /\ pc[p] = "mkconf"
  <1>1. Local(p)
    BY StepIsLocal
  <1>2. q = p
    BY <1>1 DEF Local, Running
  <1>3. pc[p] \notin Dead
    BY <1>2
       DEF TypeOK, Running, Dead, Goto, At, Register, LockRegistry, MakeConfdir,
           MakeCommonConfdir, SaveForwarding, Save, SaveIpForward, SaveBridgeNf,
           UnlockRegistry, SetUp, AllocBridge, AllocNewIface, AllocVirtual,
           AddVirtual, AddInterface, AddVirtualFails, ListInstance, SetForwarding,
           Set, SetIpForward, SetBridgeNf, AddBridge, StartDnsmasq, StartWatchdog,
           NoteWatchdogPid, StartHostapd, NoteHostapdPid, WaitReturns, CleanUp,
           LockCleanup, KillChildren, RemoveConfdir, RestoreForwarding, Restore,
           KeepForwarding, LockScan, FindRunning, FindNoneRunning, KillHaveged,
           RestoreIpForward, RestoreBridgeNf, RemoveCommonConfdir, DeleteBridge,
           DeleteInterface, DeleteVirtual, UnlockCleanup, Exit, Watchdog,
           WatchdogFindsNone, WatchdogStep, WatchdogLocks, WatchdogStartsHaveged,
           WatchdogUnlocks, Environment, QuitEarly, Abort, AbortInMutex, Crash,
           HostapdEnds, ShortSection, AfterListing, SetupLabel, shellVars
  <1>4. "pid" \in confdir'[p] /\ "pid" \notin confdir[p]
    BY <1>2, <1>3 DEF Running
  <1>5. MakeConfdir(p)
    BY <1>4
       DEF TypeOK, Register, LockRegistry, MakeConfdir, MakeCommonConfdir,
           SaveForwarding, Save, SaveIpForward, SaveBridgeNf, UnlockRegistry, SetUp,
           AllocBridge, AllocNewIface, AllocVirtual, AddVirtual, AddInterface,
           AddVirtualFails, ListInstance, SetForwarding, Set, SetIpForward,
           SetBridgeNf, AddBridge, StartDnsmasq, StartWatchdog, NoteWatchdogPid,
           StartHostapd, NoteHostapdPid, WaitReturns, CleanUp, LockCleanup,
           KillChildren, RemoveConfdir, RestoreForwarding, Restore, KeepForwarding,
           LockScan, FindRunning, FindNoneRunning, KillHaveged, RestoreIpForward,
           RestoreBridgeNf, RemoveCommonConfdir, DeleteBridge, DeleteInterface,
           DeleteVirtual, UnlockCleanup, Exit, Watchdog, WatchdogFindsNone,
           WatchdogStep, WatchdogLocks, WatchdogStartsHaveged, WatchdogUnlocks,
           Environment, QuitEarly, Abort, AbortInMutex, Crash, HostapdEnds, shellVars
  <1> QED BY <1>2, <1>5 DEF MakeConfdir, At

(* No step takes from COMMON_CONFDIR what a running instance relies on: a  *)
(* backup of a common setting is dropped when none runs, a reservation     *)
(* when no running instance has that name, and none registers between the  *)
(* look for others and the end of what it decides (lines 736-757, 770,     *)
(* 820-821 and 965-981).                                                   *)
THEOREM BackupsOutliveUsers == Spec => CommonKeptForOthers
  <1> USE DEF SharedInv, NamesInv, OwedInv
  <1>1. ASSUME IInv, SharedInv, NEW p \in Process,
               Register(p) \/ SetUp(p) \/ CleanUp(p) \/ Watchdog(p) \/ Environment(p)
        PROVE  /\ \A s \in CommonSetting :
                     saved[s] # "unsaved" /\ saved'[s] = "unsaved" => NoneRunning
               /\ \A t \in reserved \ reserved' : \A q \in Users : iface[q][t[1]] # t[2]
               /\ (\E q \in Process : pc[q] \in Last) => NoneRunning'
    <2>0. TypeOK /\ SectionsExclusive
      BY <1>1, CoveredIsExclusive DEF IInv
    <2>1. ASSUME NEW q \in Process, pc[q] \in Last PROVE NoneRunning
      BY <1>1, <2>1 DEF IInv, LastIsAlone
    <2>2. ASSUME NEW s \in CommonSetting, saved[s] # "unsaved", saved'[s] = "unsaved"
          PROVE  NoneRunning
      BY <1>1, <2>1, <2>2, BackupsDropLast
    <2>3. ASSUME NEW t \in reserved \ reserved', NEW q \in Users
          PROVE  iface[q][t[1]] # t[2]
      <3>1. CASE pc[p] \in Last
        BY <2>1, <2>3, <3>1 DEF NoneRunning, Users
      <3>2. CASE pc[p] \notin Last
        <4>1. /\ pc[p] \in {"c_bridge", "c_virtual"}
              /\ UsesName(p, t[1]) /\ iface[p][t[1]] = t[2]
          BY <1>1, <2>0, <2>3, <3>2, ReservationsDrop
        <4>2. t[1] \in Prefix /\ t[2] \in Slot
          BY <2>0, <2>3 DEF TypeOK
        <4>3. q \in Process /\ Running(q) /\ q # p
          BY <1>1, <2>3, <4>1 DEF Users, HalfRegistered, CleanupLabel, Running
        <4>4. pc[q] \notin Dead \cup {"c_unlock", "c_exit", "c_virtual"}
          BY <1>1, <4>3 DEF HalfRegistered, CleanupLabel, Running
        <4>5. iface[q][t[1]] = t[2] => UsesName(q, t[1])
          BY <4>2, <4>4, MaxSlotAssumption DEF UsesName, Slot, NoSlot
        <4> QED BY <1>1, <4>1, <4>2, <4>3, <4>5 DEF NamesOwned
      <3> QED BY <3>1, <3>2
    <2>4. ASSUME NEW q \in Process, pc[q] \in Last, NEW r \in Process PROVE ~Running(r)'
      <3>1. ~Running(r)
        BY <2>1, <2>4 DEF NoneRunning
      <3>2. ASSUME Running(r)' PROVE r = p /\ pc[p] = "mkconf"
        BY <1>1, <2>0, <3>1, <3>2, RunningRegisters
      <3>3. holder = q
        BY <2>0, <2>4 DEF SectionsExclusive, CleaningUp, CleanupLabel, Last
      <3>4. pc[p] = "mkconf" => holder = p
        BY <2>0 DEF SectionsExclusive, Registering
      <3> QED BY <2>4, <3>2, <3>3, <3>4 DEF Last
    <2> QED BY <2>2, <2>3, <2>4 DEF NoneRunning
  <1>2. IInv /\ SharedInv /\ [Next]_vars =>
          [/\ \A s \in CommonSetting :
                saved[s] # "unsaved" /\ saved'[s] = "unsaved" => NoneRunning
           /\ \A t \in reserved \ reserved' : \A q \in Users : iface[q][t[1]] # t[2]
           /\ (\E p \in Process : pc[p] \in Last) => NoneRunning']_vars
    BY <1>1 DEF Next
  <1> QED BY <1>2, Invariance, SharedInvariant, PTL DEF Spec, CommonKeptForOthers

=============================================================================
