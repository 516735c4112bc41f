------------------------------ MODULE CreateAp ------------------------------
(***************************************************************************)
(* The life of create_ap processes (src/src/scripts/create_ap, lines       *)
(* 1596-2037 and _cleanup, 702-838) on one machine, and what they share:   *)
(* the process lock, the CONFDIR directories by which they see each other, *)
(* the backups, reservations and haveged.pid in COMMON_CONFDIR, the kernel *)
(* settings and network interfaces, and the children they start.           *)
(*                                                                         *)
(* A label of pc names the command a main shell executes next.  die and a  *)
(* trapped signal may end the setup between any two commands.  A process   *)
(* is one Process value and runs once; the mutex functions are those of    *)
(* ProcessLock (RecursiveMutex shows what they are worth).  A definition   *)
(* called a mutant is no part of the specification: it is what a slip in   *)
(* the code would make of the definition after it, and a run refutes it.   *)
(***************************************************************************)
EXTENDS ProcessLock

CONSTANTS
    Uplink,      \* the interfaces an Internet connection is shared from
    Internet,    \* INTERNET_IFACE of a process
    Share,       \* SHARE_METHOD of a process: "nat", "bridge" or "none"
    Bridges,     \* the Uplink interfaces that are bridges already
    Virtual,     \* the processes without --no-virt
    Haveged,     \* the processes without --no-haveged
    Crashable,   \* bound: the processes that kill -9 may hit
    MaxSlot      \* bound: the highest number alloc_new_iface tries

ASSUME InternetAssumption == Internet \in [Process -> Uplink]
ASSUME ShareAssumption == Share \in [Process -> {"nat", "bridge", "none"}]
ASSUME CommonSettingAssumption == {"ip_forward", "bridge_nf"} \cap Uplink = {}
ASSUME MaxSlotAssumption == MaxSlot \in Nat

(* /proc/sys/net/ipv4/ip_forward, /proc/sys/net/bridge/bridge-nf-call-     *)
(* iptables, and /proc/sys/net/ipv4/conf/<uplink>/forwarding.              *)
CommonSetting == {"ip_forward", "bridge_nf"}
Setting == CommonSetting \cup Uplink

Slot == 0..MaxSlot
NoSlot == MaxSlot + 1
Prefix == {"ap", "br"}

SetupLabel == {"mkconf", "mkcommon", "save_dev", "save_ip", "save_nf",
               "unlock", "alloc_br", "alloc_ap", "add_ap", "list", "set_dev",
               "set_ip", "set_nf", "add_br", "dnsmasq", "watchdog",
               "watchdog_pid", "hostapd", "hostapd_pid", "wait"}

CleanupLabel == {"c_lock", "c_kill", "c_rmconf", "c_dev", "c_scan", "c_last",
                 "c_common", "c_ip", "c_nf", "c_rmcommon", "c_bridge",
                 "c_virtual", "c_unlock", "c_exit"}

(* "hung": a signal interrupted mutex_lock or mutex_unlock, and _cleanup   *)
(* waits for a lock on the counter file that its own shell has.            *)
Dead == {"gone", "crashed"}
Label == {"start", "hung"} \cup SetupLabel \cup CleanupLabel \cup Dead

VARIABLES
    pc,
    confdir,     \* the files in the CONFDIR of a process
    common,      \* the shell variable COMMON_CONFDIR is set
    iface,       \* the shell variables VWIFI_IFACE and BRIDGE_IFACE
    children,    \* dnsmasq and hostapd of a process, while they live
    watchdog,    \* the subshell haveged_watchdog of a process
    watchdogPid, \* the shell variable HAVEGED_WATCHDOG_PID is set
    haveged,     \* by whose watchdogs the living haveged were started
    havegedPid,  \* whose haveged COMMON_CONFDIR/haveged.pid names
    saved,       \* the backups of settings in COMMON_CONFDIR
    reserved,    \* COMMON_CONFDIR/ifaces
    value,       \* the settings
    orig,        \* the settings before any create_ap started
    net          \* which process created an interface

shellVars == <<confdir, common, iface>>
childVars == <<children, watchdog, watchdogPid, haveged, havegedPid>>
systemVars == <<saved, reserved, value, orig, net>>
vars == <<lockVars, pc, shellVars, childVars, systemVars>>

Init ==
    /\ LockInit
    /\ pc = [p \in Process |-> "start"]
    /\ confdir = [p \in Process |-> {}]
    /\ common = [p \in Process |-> FALSE]
    /\ iface = [p \in Process |-> [x \in Prefix |-> NoSlot]]
    /\ children = [p \in Process |-> {}]
    /\ watchdog = [p \in Process |-> "none"]
    /\ watchdogPid = [p \in Process |-> FALSE]
    /\ haveged = {}
    /\ havegedPid = NoProcess
    /\ saved = [s \in Setting |-> "unsaved"]
    /\ reserved = {}
    /\ value \in [Setting -> {"on", "off"}]
    /\ orig = value
    /\ net = [x \in Prefix |-> [k \in Slot |-> NoProcess]]

-----------------------------------------------------------------------------
Goto(p, label) == pc' = [pc EXCEPT ![p] = label]

At(p, label, next) == pc[p] = label /\ Goto(p, next)

(* A process that is alive and has written CONFDIR/pid: what               *)
(* has_running_instance looks for.                                         *)
Running(p) == "pid" \in confdir[p] /\ pc[p] \notin Dead

(* What list_running_conf, --list-running and --stop look for.             *)
Listed(p) == Running(p) /\ "wifi_iface" \in confdir[p]

(* The open file description of the lock file is inherited by hostapd and  *)
(* haveged and shared with the watchdog.                                   *)
KeepsLockFile(p) ==
    \/ pc[p] \notin Dead
    \/ "hostapd" \in children[p]
    \/ watchdog[p] \notin {"none", "dead"}
    \/ p \in haveged

(* The kernel drops a flock with the last descriptor.                      *)
DropOrphanedLock ==
    LET orphaned == {p \in Process : holder = p /\ ~KeepsLockFile(p)'}
    IN /\ holder' = IF orphaned = {} THEN holder ELSE NoProcess
       /\ depth' = [p \in Process |-> IF p \in orphaned THEN 0 ELSE depth[p]]

-----------------------------------------------------------------------------
(* Registration, lines 1596-1620, in a mutex section.                      *)

(* Lines 1596-1597; from here on the EXIT trap is cleanup.                 *)
LockRegistry(p) ==
    /\ At(p, "start", "mkconf")
    /\ Enter(p)
    /\ UNCHANGED <<shellVars, childVars, systemVars>>

(* Anything before line 1597: an option or a check that ends the process,  *)
(* or a signal.                                                            *)
QuitEarly(p) ==
    /\ At(p, "start", "gone")
    /\ UNCHANGED <<lockVars, shellVars, childVars, systemVars>>

(* Mutant: CONFDIR/pid is not written under the mutex (line 1601).         *)
MakeConfdirWithoutPid(p) ==
    /\ At(p, "mkconf", "mkcommon")
    /\ UNCHANGED <<lockVars, shellVars, childVars, systemVars>>

MakeConfdir(p) ==
    /\ At(p, "mkconf", "mkcommon")
    /\ confdir' = [confdir EXCEPT ![p] = {"pid"}]
    /\ UNCHANGED <<lockVars, common, iface, childVars, systemVars>>

MakeCommonConfdir(p) ==
    /\ At(p, "mkcommon", IF Share[p] = "nat" THEN "save_dev" ELSE "save_ip")
    /\ common' = [common EXCEPT ![p] = TRUE]
    /\ confdir' = IF Share[p] = "nat"
                  THEN [confdir EXCEPT ![p] = @ \cup {"nat_internet_iface"}]
                  ELSE confdir
    /\ UNCHANGED <<lockVars, iface, childVars, systemVars>>

(* Mutant: cp instead of cp_n (lines 1613-1618).                           *)
SaveAgain(p, s, label, next) ==
    /\ At(p, label, next)
    /\ saved' = [saved EXCEPT ![s] = value[s]]
    /\ UNCHANGED <<lockVars, shellVars, childVars, reserved, value, orig, net>>

(* cp_n: a backup that exists is kept.                                     *)
Save(p, s, label, next) ==
    /\ At(p, label, next)
    /\ saved' = IF saved[s] = "unsaved" THEN [saved EXCEPT ![s] = value[s]] ELSE saved
    /\ UNCHANGED <<lockVars, shellVars, childVars, reserved, value, orig, net>>

SaveForwarding(p) == Save(p, Internet[p], "save_dev", "save_ip")
SaveIpForward(p) == Save(p, "ip_forward", "save_ip", "save_nf")

(* Mutant: the backup is skipped, as for a file that is not there yet (line 1617). *)
SaveBridgeNfNot(p) ==
    /\ At(p, "save_nf", "unlock")
    /\ UNCHANGED <<lockVars, shellVars, childVars, systemVars>>

SaveBridgeNf(p) == Save(p, "bridge_nf", "save_nf", "unlock")

OwnBridge(p) == Share[p] = "bridge" /\ Internet[p] \notin Bridges

AfterBridge(p) == IF p \in Virtual THEN "alloc_ap" ELSE "list"

UnlockRegistry(p) ==
    /\ At(p, "unlock", IF OwnBridge(p) THEN "alloc_br" ELSE AfterBridge(p))
    /\ Leave(p)
    /\ UNCHANGED <<shellVars, childVars, systemVars>>

-----------------------------------------------------------------------------
(* Interfaces, lines 1622-1698.                                            *)

(* A mutex section of one command: nobody else is inside meanwhile, and    *)
(* the lock is as before afterwards.                                       *)
Locked(p) == holder \in {NoProcess, p} /\ UNCHANGED lockVars

(* Mutant: the reservations are not looked at (line 414).                  *)
FreeOfInterfaces(x, k) == net[x][k] = NoProcess

Free(x, k) == net[x][k] = NoProcess /\ <<x, k>> \notin reserved

(* The lowest number that is neither an interface nor reserved.            *)
AllocNewIface(p, x, label, next) ==
    /\ At(p, label, next)
    /\ Locked(p)
    /\ \E k \in Slot :
        /\ Free(x, k)
        /\ \A m \in 0..(k - 1) : ~Free(x, m)
        /\ reserved' = reserved \cup {<<x, k>>}
        /\ iface' = [iface EXCEPT ![p][x] = k]
    /\ UNCHANGED <<confdir, common, childVars, saved, value, orig, net>>

AllocBridge(p) == AllocNewIface(p, "br", "alloc_br", AfterBridge(p))
AllocVirtual(p) == AllocNewIface(p, "ap", "alloc_ap", "add_ap")

(* iw dev interface add and ip link add fail if the name is taken.         *)
AddInterface(p, x, label, next) ==
    /\ At(p, label, next)
    /\ net[x][iface[p][x]] = NoProcess
    /\ net' = [net EXCEPT ![x][iface[p][x]] = p]
    /\ UNCHANGED <<lockVars, shellVars, childVars, saved, reserved, value, orig>>

AddVirtual(p) == AddInterface(p, "ap", "add_ap", "list")

(* Lines 1682-1684: VWIFI_IFACE is emptied before die.                     *)
AddVirtualFails(p) ==
    /\ At(p, "add_ap", "c_lock")
    /\ iface' = [iface EXCEPT ![p]["ap"] = NoSlot]
    /\ UNCHANGED <<lockVars, confdir, common, childVars, systemVars>>

(* Lines 1889-1900: Internet sharing comes next, if there is any.         *)
AfterListing(p) ==
    IF Share[p] = "nat" THEN "set_dev"
    ELSE IF Share[p] = "bridge" THEN "set_nf" ELSE "dnsmasq"

(* Lines 1695-1698.                                                        *)
ListInstance(p) ==
    /\ At(p, "list", AfterListing(p))
    /\ Locked(p)
    /\ confdir' = [confdir EXCEPT ![p] = @ \cup {"wifi_iface"}]
    /\ UNCHANGED <<common, iface, childVars, systemVars>>

-----------------------------------------------------------------------------
(* Sharing and children, lines 1888-2037, outside the mutex.               *)

(* The kernel makes a change of ip_forward to every interface.             *)
Written(s, v) ==
    [t \in Setting |->
        IF t = s \/ (s = "ip_forward" /\ value[s] # v /\ t \in Uplink) THEN v ELSE value[t]]

Set(p, s, v, label, next) ==
    /\ At(p, label, next)
    /\ value' = Written(s, v)
    /\ UNCHANGED <<lockVars, shellVars, childVars, saved, reserved, orig, net>>

SetForwarding(p) == Set(p, Internet[p], "on", "set_dev", "set_ip")
SetIpForward(p) == Set(p, "ip_forward", "on", "set_ip", "dnsmasq")
SetBridgeNf(p) ==
    Set(p, "bridge_nf", "off", "set_nf", IF OwnBridge(p) THEN "add_br" ELSE "watchdog")

AddBridge(p) == AddInterface(p, "br", "add_br", "watchdog")

(* dnsmasq writes CONFDIR/dnsmasq.pid before it goes to the background.    *)
StartDnsmasq(p) ==
    /\ At(p, "dnsmasq", "watchdog")
    /\ children' = [children EXCEPT ![p] = @ \cup {"dnsmasq"}]
    /\ confdir' = [confdir EXCEPT ![p] = @ \cup {"dnsmasq"}]
    /\ UNCHANGED <<lockVars, common, iface, watchdog, watchdogPid, haveged,
                   havegedPid, systemVars>>

StartWatchdog(p) ==
    /\ At(p, "watchdog", IF p \in Haveged THEN "watchdog_pid" ELSE "hostapd")
    /\ watchdog' = IF p \in Haveged THEN [watchdog EXCEPT ![p] = "idle"] ELSE watchdog
    /\ UNCHANGED <<lockVars, shellVars, children, watchdogPid, haveged,
                   havegedPid, systemVars>>

NoteWatchdogPid(p) ==
    /\ At(p, "watchdog_pid", "hostapd")
    /\ watchdogPid' = [watchdogPid EXCEPT ![p] = TRUE]
    /\ UNCHANGED <<lockVars, shellVars, children, watchdog, haveged,
                   havegedPid, systemVars>>

StartHostapd(p) ==
    /\ At(p, "hostapd", "hostapd_pid")
    /\ children' = [children EXCEPT ![p] = @ \cup {"hostapd"}]
    /\ UNCHANGED <<lockVars, shellVars, watchdog, watchdogPid, haveged,
                   havegedPid, systemVars>>

(* Lines 2019-2020: HOSTAPD_PID=$! and CONFDIR/hostapd.pid.                *)
NoteHostapdPid(p) ==
    /\ At(p, "hostapd_pid", "wait")
    /\ confdir' = [confdir EXCEPT ![p] = @ \cup {"hostapd"}]
    /\ UNCHANGED <<lockVars, common, iface, childVars, systemVars>>

(* hostapd ended: die or clean_exit.                                       *)
WaitReturns(p) ==
    /\ At(p, "wait", "c_lock")
    /\ "hostapd" \notin children[p]
    /\ UNCHANGED <<lockVars, shellVars, childVars, systemVars>>

HostapdEnds(p) ==
    /\ "hostapd" \in children[p]
    /\ children' = [children EXCEPT ![p] = @ \ {"hostapd"}]
    /\ UNCHANGED <<pc, shellVars, watchdog, watchdogPid, haveged, havegedPid, systemVars>>
    /\ DropOrphanedLock

(* The main shell has a short mutex section in or before its next step:    *)
(* lines 1695-1698, and networkmanager_add_unmanaged in lines 1641, 1720   *)
(* and 1926.                                                               *)
ShortSection(p) ==
    \/ pc[p] \in {"list", "add_ap", "add_br"}
    \/ p \notin Virtual /\ pc[p] = AfterListing(p)

(* A command fails and the shell dies, or a trapped signal (Ctrl-C,        *)
(* --stop, a failing subshell) is handled after the command it arrived in, *)
(* perhaps in a short section.                                             *)
Abort(p) ==
    /\ pc[p] \in SetupLabel
    /\ Goto(p, "c_lock")
    /\ UNCHANGED lockVars \/ (ShortSection(p) /\ Enter(p))
    /\ UNCHANGED <<shellVars, childVars, systemVars>>

(* The same inside mutex_unlock at line 1620, or mutex_lock and            *)
(* mutex_unlock of a short section, with or without the global lock: the   *)
(* mutex_lock of _cleanup never returns.                                   *)
AbortInMutex(p) ==
    /\ pc[p] = "unlock" \/ ShortSection(p)
    /\ Goto(p, "hung")
    /\ \/ UNCHANGED lockVars
       \/ pc[p] = "unlock" /\ Leave(p)
       \/ ShortSection(p) /\ Enter(p)
    /\ UNCHANGED <<shellVars, childVars, systemVars>>

(* kill -9 of the main shell.                                              *)
Crash(p) ==
    /\ p \in Crashable
    /\ pc[p] \notin Dead
    /\ Goto(p, "crashed")
    /\ UNCHANGED <<shellVars, childVars, systemVars>>
    /\ DropOrphanedLock

-----------------------------------------------------------------------------
(* haveged_watchdog, lines 448-467.  It looks for haveged outside the      *)
(* mutex section in which it starts one.                                   *)

WatchdogStep(p, from, to) ==
    /\ watchdog[p] = from
    /\ watchdog' = [watchdog EXCEPT ![p] = to]
    /\ UNCHANGED <<pc, shellVars, children, watchdogPid, systemVars>>

WatchdogFindsNone(p) ==
    /\ WatchdogStep(p, "idle", "found_none")
    /\ haveged = {}
    /\ UNCHANGED <<lockVars, haveged, havegedPid>>

WatchdogLocks(p) ==
    /\ WatchdogStep(p, "found_none", "locked")
    /\ Enter(p)
    /\ UNCHANGED <<haveged, havegedPid>>

WatchdogStartsHaveged(p) ==
    /\ WatchdogStep(p, "locked", "started")
    /\ haveged' = haveged \cup {p}
    /\ havegedPid' = p
    /\ UNCHANGED lockVars

(* Mutant: the watchdog does not leave its section (line 462).             *)
WatchdogStaysLocked(p) ==
    /\ WatchdogStep(p, "started", "idle")
    /\ UNCHANGED <<lockVars, haveged, havegedPid>>

WatchdogUnlocks(p) ==
    /\ WatchdogStep(p, "started", "idle")
    /\ Leave(p)
    /\ UNCHANGED <<haveged, havegedPid>>

-----------------------------------------------------------------------------
(* _cleanup, lines 702-838, in a mutex section.                            *)

(* Mutant: _cleanup without its mutex_lock (line 706).                     *)
LockCleanupNot(p) ==
    /\ At(p, "c_lock", "c_kill")
    /\ UNCHANGED <<lockVars, shellVars, childVars, systemVars>>

LockCleanup(p) ==
    /\ At(p, "c_lock", "c_kill")
    /\ Enter(p)
    /\ UNCHANGED <<shellVars, childVars, systemVars>>

(* Lines 709-717: the watchdog and the children whose pid is known.        *)
KillChildren(p) ==
    /\ At(p, "c_kill", "c_rmconf")
    /\ watchdog' = IF watchdogPid[p] THEN [watchdog EXCEPT ![p] = "dead"] ELSE watchdog
    /\ children' = [children EXCEPT ![p] = @ \ confdir[p]]
    /\ UNCHANGED <<lockVars, shellVars, watchdogPid, haveged, havegedPid, systemVars>>

(* Mutant: CONFDIR is removed too late (line 719).                         *)
RemoveConfdirNot(p) ==
    /\ At(p, "c_rmconf", "c_dev")
    /\ UNCHANGED <<lockVars, shellVars, childVars, systemVars>>

RemoveConfdir(p) ==
    /\ At(p, "c_rmconf", "c_dev")
    /\ confdir' = [confdir EXCEPT ![p] = {}]
    /\ UNCHANGED <<lockVars, common, iface, childVars, systemVars>>

(* A backup, if there is one, is copied back and removed.                  *)
Restore(p, s, label, next) ==
    /\ At(p, label, next)
    /\ IF common[p] /\ saved[s] # "unsaved"
       THEN /\ value' = Written(s, saved[s])
            /\ saved' = [saved EXCEPT ![s] = "unsaved"]
       ELSE UNCHANGED <<value, saved>>
    /\ UNCHANGED <<lockVars, shellVars, childVars, reserved, orig, net>>

(* Mutant: found is never set (line 724).                                  *)
UplinkNotFound(p) == Listed(p)

(* Lines 721-727: another listed process shares the same uplink with nat.  *)
UplinkInUse(p) ==
    \E q \in Process : /\ Listed(q)
                       /\ "nat_internet_iface" \in confdir[q]
                       /\ Internet[q] = Internet[p]

RestoreForwarding(p) ==
    /\ ~UplinkInUse(p) /\ Share[p] # "none"
    /\ Restore(p, Internet[p], "c_dev", "c_scan")

KeepForwarding(p) ==
    /\ UplinkInUse(p) \/ Share[p] = "none"
    /\ At(p, "c_dev", "c_scan")
    /\ UNCHANGED <<lockVars, shellVars, childVars, systemVars>>

(* has_running_instance, lines 965-981.                                    *)
LockScan(p) ==
    /\ At(p, "c_scan", "c_last")
    /\ Enter(p)
    /\ UNCHANGED <<shellVars, childVars, systemVars>>

FindRunning(p) ==
    /\ \E q \in Process : Running(q)
    /\ At(p, "c_last", "c_bridge")
    /\ Leave(p)
    /\ UNCHANGED <<shellVars, childVars, systemVars>>

(* Mutants: has_running_instance goes by list_running_conf, or overlooks   *)
(* the instances that do not share with nat.                               *)
FindNoneListed(p) ==
    /\ \A q \in Process : ~Listed(q)
    /\ At(p, "c_last", "c_common")
    /\ Enter(p)
    /\ UNCHANGED <<shellVars, childVars, systemVars>>

FindNoNat(p) ==
    /\ \A q \in Process : Running(q) => "nat_internet_iface" \notin confdir[q]
    /\ At(p, "c_last", "c_common")
    /\ Enter(p)
    /\ UNCHANGED <<shellVars, childVars, systemVars>>

(* Line 978 is a mutex_lock.                                               *)
FindNoneRunning(p) ==
    /\ \A q \in Process : ~Running(q)
    /\ At(p, "c_last", "c_common")
    /\ Enter(p)
    /\ UNCHANGED <<shellVars, childVars, systemVars>>

(* Lines 737-740.                                                          *)
KillHaveged(p) ==
    /\ At(p, "c_common", "c_ip")
    /\ haveged' = IF common[p] THEN haveged \ {havegedPid} ELSE haveged
    /\ UNCHANGED <<shellVars, children, watchdog, watchdogPid, havegedPid, systemVars>>
    /\ DropOrphanedLock

RestoreIpForward(p) == Restore(p, "ip_forward", "c_ip", "c_nf")
RestoreBridgeNf(p) == Restore(p, "bridge_nf", "c_nf", "c_rmcommon")

RemoveCommonConfdir(p) ==
    /\ At(p, "c_rmcommon", "c_bridge")
    /\ IF common[p]
       THEN /\ saved' = [s \in Setting |-> "unsaved"]
            /\ reserved' = {}
            /\ havegedPid' = NoProcess
       ELSE UNCHANGED <<saved, reserved, havegedPid>>
    /\ UNCHANGED <<lockVars, shellVars, children, watchdog, watchdogPid,
                   haveged, value, orig, net>>

(* The interface the shell variable names is deleted, whoever created it,  *)
(* and its reservation with it.                                            *)
DeleteInterface(p, x, label, next) ==
    /\ At(p, label, next)
    /\ LET k == iface[p][x]
       IN IF k # NoSlot
          THEN /\ net' = [net EXCEPT ![x][k] = NoProcess]
               /\ reserved' = reserved \ {<<x, k>>}
          ELSE UNCHANGED <<net, reserved>>
    /\ UNCHANGED <<lockVars, shellVars, childVars, saved, value, orig>>

(* Mutant: the bridge is deleted by the name of the virtual interface.     *)
DeleteBridgeAsVirtual(p) == DeleteInterface(p, "ap", "c_bridge", "c_virtual")

DeleteBridge(p) == DeleteInterface(p, "br", "c_bridge", "c_virtual")
DeleteVirtual(p) == DeleteInterface(p, "ap", "c_virtual", "c_unlock")

UnlockCleanup(p) ==
    /\ At(p, "c_unlock", "c_exit")
    /\ Leave(p)
    /\ UNCHANGED <<shellVars, childVars, systemVars>>

Exit(p) ==
    /\ At(p, "c_exit", "gone")
    /\ UNCHANGED <<shellVars, childVars, systemVars>>
    /\ DropOrphanedLock

-----------------------------------------------------------------------------
Register(p) ==
    \/ LockRegistry(p) \/ MakeConfdir(p) \/ MakeCommonConfdir(p)
    \/ SaveForwarding(p) \/ SaveIpForward(p) \/ SaveBridgeNf(p)
    \/ UnlockRegistry(p)

SetUp(p) ==
    \/ AllocBridge(p) \/ AllocVirtual(p) \/ AddVirtual(p) \/ AddVirtualFails(p)
    \/ ListInstance(p) \/ SetForwarding(p) \/ SetIpForward(p) \/ SetBridgeNf(p)
    \/ AddBridge(p) \/ StartDnsmasq(p) \/ StartWatchdog(p) \/ NoteWatchdogPid(p)
    \/ StartHostapd(p) \/ NoteHostapdPid(p) \/ WaitReturns(p)

CleanUp(p) ==
    \/ LockCleanup(p) \/ KillChildren(p) \/ RemoveConfdir(p)
    \/ RestoreForwarding(p) \/ KeepForwarding(p)
    \/ LockScan(p) \/ FindRunning(p) \/ FindNoneRunning(p)
    \/ KillHaveged(p) \/ RestoreIpForward(p) \/ RestoreBridgeNf(p)
    \/ RemoveCommonConfdir(p) \/ DeleteBridge(p) \/ DeleteVirtual(p)
    \/ UnlockCleanup(p) \/ Exit(p)

Watchdog(p) ==
    \/ WatchdogFindsNone(p) \/ WatchdogLocks(p)
    \/ WatchdogStartsHaveged(p) \/ WatchdogUnlocks(p)

Environment(p) ==
    \/ QuitEarly(p) \/ Abort(p) \/ AbortInMutex(p) \/ Crash(p) \/ HostapdEnds(p)

Next ==
    \E p \in Process :
        Register(p) \/ SetUp(p) \/ CleanUp(p) \/ Watchdog(p) \/ Environment(p)

Spec == Init /\ [][Next]_vars

-----------------------------------------------------------------------------
(* Fairness: a main shell goes on with what it does, whatever it is; a     *)
(* process that waits for the lock is served when it is free again and     *)
(* again; a watchdog leaves its section; a signalled hostapd is not        *)
(* assumed to end, and nothing is assumed about aborts and crashes.        *)
Fairness ==
    \A p \in Process :
        /\ SF_vars(Register(p) \/ CleanUp(p))
        /\ SF_vars(WatchdogLocks(p) \/ WatchdogStartsHaveged(p) \/ WatchdogUnlocks(p))

FairSpec == Spec /\ Fairness

-----------------------------------------------------------------------------
(* Properties.                                                             *)

TypeOK ==
    /\ LockTypeOK
    /\ pc \in [Process -> Label]
    /\ confdir \in [Process -> SUBSET {"pid", "nat_internet_iface",
                                       "wifi_iface", "dnsmasq", "hostapd"}]
    /\ common \in [Process -> BOOLEAN]
    /\ iface \in [Process -> [Prefix -> Slot \cup {NoSlot}]]
    /\ children \in [Process -> SUBSET {"dnsmasq", "hostapd"}]
    /\ watchdog \in [Process -> {"none", "idle", "found_none", "locked", "started", "dead"}]
    /\ watchdogPid \in [Process -> BOOLEAN]
    /\ haveged \subseteq Process
    /\ havegedPid \in Process \cup {NoProcess}
    /\ saved \in [Setting -> {"on", "off", "unsaved"}]
    /\ reserved \subseteq Prefix \X Slot
    /\ value \in [Setting -> {"on", "off"}]
    /\ orig \in [Setting -> {"on", "off"}]
    /\ net \in [Prefix -> [Slot -> Process \cup {NoProcess}]]

Registering == {"mkconf", "mkcommon", "save_dev", "save_ip", "save_nf", "unlock"}
Serving == {"dnsmasq", "watchdog", "watchdog_pid", "hostapd", "hostapd_pid", "wait"}
CleaningUp == CleanupLabel \ {"c_lock", "c_exit"}

(* Setting back the common values, lines 736-757.                          *)
Last == {"c_common", "c_ip", "c_nf", "c_rmcommon"}

NoneRunning == \A q \in Process : ~Running(q)

(* Registration and cleanup exclude each other: a process between its      *)
(* mutex_lock and mutex_unlock holds the lock although has_running_instance*)
(* and the watchdog of the process count on the same counter.              *)
SectionsExclusive ==
    \A p \in Process : pc[p] \in Registering \cup CleaningUp => holder = p

(* At every moment, through aborts, crashes and any order of starts and    *)
(* stops, the original value of a common setting is either in force or in  *)
(* its backup: no process backs up a value another one has changed, and    *)
(* none removes a backup another one still needs (lines 736-757).          *)
Recoverable(s) ==
    IF saved[s] = "unsaved" THEN value[s] = orig[s] ELSE saved[s] = orig[s]

SettingsRecoverable == \A s \in CommonSetting : Recoverable(s)

(* Line 735, "if we are the last create_ap instance then set back the      *)
(* common values", for the forwarding setting of an uplink, whose backup   *)
(* is in COMMON_CONFDIR too (lines 729-733, 1613-1614): when all processes *)
(* have gone through exit, it is what it was.  (If ip_forward was off, the *)
(* kernel turns the forwarding of every uplink off when it is restored.)   *)
ForwardingRestored ==
    (\A p \in Process : pc[p] = "gone") /\ orig["ip_forward"] = "on" =>
        \A s \in Uplink : value[s] = orig[s]

(* While a process serves, no other process's cleanup takes away the       *)
(* settings it relies on (lines 1895-1896 and 1903).                       *)
ServingKeepsSettings ==
    \A p \in Process :
        pc[p] \in Serving =>
            /\ Share[p] = "nat" =>
                value["ip_forward"] = "on" /\ value[Internet[p]] = "on"
            /\ Share[p] = "bridge" => value["bridge_nf"] = "off"

(* alloc_new_iface gives no two processes the same name, so the interface  *)
(* a process serves on is the one it created, and what its cleanup deletes *)
(* is that one or nothing (lines 408-428, 770 and 820-821).                *)
UsesName(p, x) ==
    /\ iface[p][x] # NoSlot
    /\ pc[p] \notin Dead \cup {"c_unlock", "c_exit"}
    /\ x = "br" => pc[p] # "c_virtual"

InterfacesOwned ==
    \A p \in Process : \A x \in Prefix : UsesName(p, x) =>
        /\ net[x][iface[p][x]] \in {p, NoProcess}
        /\ pc[p] \in Serving => net[x][iface[p][x]] = p
        /\ \A q \in Process \ {p} : UsesName(q, x) => iface[q][x] # iface[p][x]

(* When every process has gone through exit and none crashed, the machine  *)
(* is as it was: common settings restored, no backup, no reservation and   *)
(* no interface left behind.                                               *)
AllRestored ==
    (\A p \in Process : pc[p] = "gone") =>
        /\ \A s \in CommonSetting : value[s] = orig[s]
        /\ \A s \in Setting : saved[s] = "unsaved"
        /\ reserved = {}
        /\ \A x \in Prefix : \A k \in Slot : net[x][k] = NoProcess

(* Who relies on COMMON_CONFDIR: it runs and has not begun to clean up.    *)
Users == {p \in Process : Running(p) /\ common[p]}

(* No step takes from COMMON_CONFDIR what a running instance relies on: a  *)
(* backup of a common setting is dropped when none runs, a reservation     *)
(* when no running instance has that name, and none registers between the  *)
(* look for others and the end of what it decides (lines 736-757, 770,     *)
(* 820-821 and 965-981).                                                   *)
CommonKeptForOthers ==
    [][/\ \A s \in CommonSetting :
             saved[s] # "unsaved" /\ saved'[s] = "unsaved" => NoneRunning
       /\ \A t \in reserved \ reserved' :
             \A q \in Users : iface[q][t[1]] # t[2]
       /\ (\E p \in Process : pc[p] \in Last) => NoneRunning']_vars

(* The instances as the machine they share sees them: who relies on the    *)
(* settings, and whose the names are.                                      *)
Sharing == {"set_dev", "set_ip", "set_nf", "add_br"} \cup Serving

Sharers == {p \in Process : pc[p] \in Sharing}

Names == {t \in Process \X Prefix \X Slot :
             UsesName(t[1], t[2]) /\ iface[t[1]][t[2]] = t[3]}

Host == INSTANCE SharedHost
    WITH users <- Users, sharing <- Sharers, names <- Names, kept <- saved

(* Through files, locks and kills, each command does to the shared machine *)
(* only what SharedHost allows an instance: it changes a common setting    *)
(* only with its value kept, puts back what nobody needs any more, and     *)
(* creates and deletes interfaces by a name that is its own (lines         *)
(* 1596-1926 and 702-838).                                                 *)
ImplementsHost == Host!HostSpec

(* If no process hangs in its own mutex or crashes, and none that is gone  *)
(* has left the lock to a child that keeps its lock file open, every       *)
(* cleanup that starts comes to its end (lines 702-838).                   *)
CleanupEnds ==
    [](\A p \in Process : /\ pc[p] \notin {"hung", "crashed"}
                          /\ pc[p] = "gone" => holder # p)
        => \A p \in Process : pc[p] = "c_lock" ~> pc[p] = "gone"

(* Line 214, "decrease counter and unlock global mutex": a process whose   *)
(* cleanup starts outside of every section does not have the lock after    *)
(* the last mutex_unlock of that cleanup.                                  *)
UnlockReleases ==
    \A p \in Process :
        [](pc[p] = "c_lock" /\ depth[p] = 0
            => [](pc[p] = "c_exit" => holder # p))

(* Line 712, "kill processes": no hostapd survives its create_ap.          *)
NoOrphan == \A p \in Process : pc[p] = "gone" => "hostapd" \notin children[p]

-----------------------------------------------------------------------------
(* The inductive invariant behind SectionsExclusive and SettingsRecoverable*)

AfterSave(s) ==
    SetupLabel \ ({"mkconf", "mkcommon", "save_dev", "save_ip"}
                  \cup (IF s = "bridge_nf" THEN {"save_nf"} ELSE {}))

InSection(n) == IF n THEN 1 ELSE 0

(* The sections a process must still be inside: its own, that of           *)
(* has_running_instance in it, and that of its watchdog.                   *)
Sections(p) ==
    InSection(pc[p] \in Registering \cup CleaningUp)
    + InSection(pc[p] = "c_last")
    + InSection(watchdog[p] \in {"locked", "started"})

LockCovers ==
    \A p \in Process :
        /\ depth[p] > 0 => holder = p
        /\ depth[p] >= Sections(p)
        /\ watchdog[p] # "none" =>
            pc[p] \notin {"start"} \cup
                (SetupLabel \ {"watchdog_pid", "hostapd", "hostapd_pid", "wait"})

(* Who may have used COMMON_CONFDIR is seen by has_running_instance.       *)
UsersRegistered ==
    \A p \in Process :
        /\ pc[p] \in {"start", "mkconf"} => ~common[p]
        /\ pc[p] \in SetupLabel \ {"mkconf", "mkcommon"} => common[p]
        /\ common[p] /\ pc[p] \in SetupLabel \cup {"c_lock", "c_kill", "c_rmconf"} =>
            "pid" \in confdir[p]
        /\ pc[p] = "mkcommon" => "pid" \in confdir[p]

(* The last one is alone until it has dropped the backups.                 *)
LastIsAlone ==
    \A p \in Process :
        /\ pc[p] \in Last => NoneRunning
        /\ pc[p] \in {"c_nf", "c_rmcommon"} /\ common[p] => saved["ip_forward"] = "unsaved"
        /\ pc[p] = "c_rmcommon" /\ common[p] => saved["bridge_nf"] = "unsaved"

BackupsKept ==
    \A p \in Process : \A s \in CommonSetting :
        pc[p] \in AfterSave(s) => saved[s] # "unsaved"

IInv ==
    /\ TypeOK
    /\ LockCovers
    /\ UsersRegistered
    /\ LastIsAlone
    /\ BackupsKept
    /\ SettingsRecoverable

=============================================================================
