------------------------ MODULE CreateApHost_proofs -------------------------
(***************************************************************************)
(* CreateAp implements SharedHost, for every set of processes, uplinks and *)
(* options: each command of an instance is a step of SharedHost or changes *)
(* nothing of what the instances share.                                    *)
(***************************************************************************)
EXTENDS CreateApShared_proofs

HostStep == [Host!HostNext]_Host!hostVars

InUse(p) == Running(p) /\ common[p]
Named(p, x, k) == UsesName(p, x) /\ iface[p][x] = k

(* What a step of p may do to the three sets is seen from p alone.         *)
LEMMA OthersStay ==
  ASSUME NEW p \in Process, Local(p), NEW q \in Process \ {p}
  PROVE  /\ q \in Users' <=> q \in Users
         /\ q \in Sharers' <=> q \in Sharers
         /\ \A x \in Prefix, k \in Slot : Named(q, x, k)' <=> Named(q, x, k)
  BY DEF Local, Users, Sharers, Running, Named, UsesName

LEMMA UsersAfter ==
  ASSUME NEW p \in Process, Local(p)
  PROVE  /\ InUse(p)' => Users' = Users \cup {p}
         /\ ~InUse(p)' => Users' = Users \ {p}
         /\ (InUse(p)' <=> InUse(p)) => Users' = Users
         /\ pc'[p] \in Sharing => Sharers' = Sharers \cup {p}
         /\ pc'[p] \notin Sharing => Sharers' = Sharers \ {p}
         /\ (pc'[p] \in Sharing <=> pc[p] \in Sharing) => Sharers' = Sharers
  <1>1. p \in Users' <=> InUse(p)'
    BY DEF Users, InUse
  <1>2. p \in Users <=> InUse(p)
    BY DEF Users, InUse
  <1>3. p \in Sharers' <=> pc'[p] \in Sharing
    BY DEF Sharers
  <1>4. p \in Sharers <=> pc[p] \in Sharing
    BY DEF Sharers
  <1>5. Users \subseteq Process /\ Users' \subseteq Process
    BY DEF Users
  <1>6. Sharers \subseteq Process /\ Sharers' \subseteq Process
    BY DEF Sharers
  <1> QED BY <1>1, <1>2, <1>3, <1>4, <1>5, <1>6, OthersStay

LEMMA NamesAre ==
  /\ Names \subseteq Process \X Prefix \X Slot
  /\ \A q \in Process, x \in Prefix, k \in Slot : <<q, x, k>> \in Names <=> Named(q, x, k)
  BY DEF Names, Named

LEMMA NamesAreNext ==
  /\ Names' \subseteq Process \X Prefix \X Slot
  /\ \A q \in Process, x \in Prefix, k \in Slot : <<q, x, k>> \in Names' <=> Named(q, x, k)'
  BY DEF Names, Named

LEMMA NamesAfter ==
  ASSUME NEW p \in Process, Local(p),
         NEW N, N \subseteq Process \X Prefix \X Slot,
         \A q \in Process \ {p}, x \in Prefix, k \in Slot : <<q, x, k>> \in N <=> <<q, x, k>> \in Names,
         \A x \in Prefix, k \in Slot : <<p, x, k>> \in N <=> Named(p, x, k)'
  PROVE  Names' = N
  <1>1. ASSUME NEW q \in Process, NEW x \in Prefix, NEW k \in Slot
        PROVE  <<q, x, k>> \in Names' <=> <<q, x, k>> \in N
    <2>1. CASE q = p
      BY <2>1, NamesAreNext
    <2>2. CASE q # p
      BY <2>2, NamesAre, NamesAreNext, OthersStay
    <2> QED BY <2>1, <2>2
  <1>2. \A t \in Process \X Prefix \X Slot : t \in Names' <=> t \in N
    BY <1>1
  <1> QED BY <1>2, NamesAreNext

(* A step that changes none of it.                                         *)
KeepsNames(p) ==
  \A x \in Prefix : /\ UsesName(p, x)' <=> UsesName(p, x)
                    /\ UsesName(p, x) => iface'[p][x] = iface[p][x]

LEMMA NamesKept ==
  ASSUME NEW p \in Process, Local(p), KeepsNames(p)
  PROVE  Names' = Names
  <1>1. \A x \in Prefix, k \in Slot : <<p, x, k>> \in Names <=> Named(p, x, k)'
    BY NamesAre DEF Named, KeepsNames
  <1>2. Names \subseteq Process \X Prefix \X Slot
    BY NamesAre
  <1> QED BY <1>1, <1>2, NamesAfter

LEMMA QuietStep ==
  ASSUME NEW p \in Process, Local(p), KeepsNames(p), InUse(p)' <=> InUse(p),
         pc'[p] \in Sharing <=> pc[p] \in Sharing, UNCHANGED <<saved, value, net>>
  PROVE  HostStep
  BY UsersAfter, NamesKept DEF HostStep, Host!hostVars

-----------------------------------------------------------------------------
(* Commands that neither begin nor end anything the others can see.        *)
LEMMA QuietRegister ==
  ASSUME IInv, SharedInv, NEW p \in Process, LockRegistry(p) \/ MakeConfdir(p) \/ UnlockRegistry(p)
  PROVE  HostStep
  <1> USE DEF Goto, At, shellVars, childVars, systemVars
  <1>0. TypeOK /\ Local(p) /\ UsersRegistered /\ NamesInOrder
    BY StepIsLocal DEF IInv, SharedInv, NamesInv, Register
  <1>1. KeepsNames(p)
    BY <1>0 DEF TypeOK, KeepsNames, UsesName, Dead, LockRegistry, MakeConfdir, UnlockRegistry,
                AfterBridge
  <1>2. InUse(p)' <=> InUse(p)
    BY <1>0 DEF TypeOK, UsersRegistered, InUse, Running, Dead, LockRegistry, MakeConfdir,
                UnlockRegistry, AfterBridge
  <1>3. pc'[p] \notin Sharing /\ pc[p] \notin Sharing
    BY <1>0 DEF TypeOK, Sharing, Serving, LockRegistry, MakeConfdir, UnlockRegistry, AfterBridge
  <1>4. UNCHANGED <<saved, value, net>>
    BY DEF LockRegistry, MakeConfdir, UnlockRegistry
  <1> QED BY <1>0, <1>1, <1>2, <1>3, <1>4, QuietStep

LEMMA QuietSetUp ==
  ASSUME IInv, SharedInv, NEW p \in Process,
         \/ StartDnsmasq(p) \/ StartWatchdog(p) \/ NoteWatchdogPid(p)
         \/ StartHostapd(p) \/ NoteHostapdPid(p)
  PROVE  HostStep
  <1> USE DEF Goto, At, shellVars, childVars, systemVars, StartDnsmasq, StartWatchdog,
              NoteWatchdogPid, StartHostapd, NoteHostapdPid
  <1>0. TypeOK /\ Local(p) /\ SetUp(p)
    BY StepIsLocal DEF IInv, SetUp
  <1>1. pc[p] \in Serving /\ pc'[p] \in Serving
    BY <1>0 DEF TypeOK, Serving
  <1>2. UNCHANGED <<iface, common, saved, value, net>> /\ confdir[p] \subseteq confdir'[p]
        /\ ("pid" \in confdir'[p] => "pid" \in confdir[p])
    BY <1>0 DEF TypeOK
  <1>3. KeepsNames(p)
    BY <1>1, <1>2 DEF KeepsNames, UsesName, Serving, Dead
  <1>4. InUse(p)' <=> InUse(p)
    BY <1>1, <1>2 DEF InUse, Running, Serving, Dead
  <1> QED BY <1>0, <1>1, <1>2, <1>3, <1>4, QuietStep DEF Sharing

LEMMA QuietCleanUp ==
  ASSUME IInv, SharedInv, NEW p \in Process,
         \/ LockCleanup(p) \/ KillChildren(p) \/ KeepForwarding(p) \/ LockScan(p)
         \/ FindRunning(p) \/ FindNoneRunning(p) \/ KillHaveged(p) \/ UnlockCleanup(p) \/ Exit(p)
  PROVE  HostStep
  <1> USE DEF Goto, At, shellVars, childVars, systemVars, LockCleanup, KillChildren,
              KeepForwarding, LockScan, FindRunning, FindNoneRunning, KillHaveged,
              UnlockCleanup, Exit
  <1>0. TypeOK /\ Local(p) /\ CleanUp(p) /\ HalfRegistered
    BY StepIsLocal DEF IInv, SharedInv, OwedInv, CleanUp
  <1>1. /\ pc[p] \notin Sharing /\ pc'[p] \notin Sharing
        /\ UNCHANGED <<confdir, iface, common, saved, value, net>>
        /\ \/ pc[p] \in {"c_unlock", "c_exit"} /\ pc'[p] \in {"c_exit", "gone"}
           \/ /\ pc[p] \notin Dead \cup {"c_unlock", "c_exit", "c_virtual"}
              /\ pc'[p] \notin Dead \cup {"c_unlock", "c_exit", "c_virtual"}
    BY <1>0 DEF TypeOK, Sharing, Serving, Dead
  <1>2. KeepsNames(p)
    BY <1>1 DEF KeepsNames, UsesName, Dead
  <1>3. InUse(p)' <=> InUse(p)
    BY <1>0, <1>1 DEF InUse, Running, Dead, HalfRegistered, CleanupLabel
  <1> QED BY <1>0, <1>1, <1>2, <1>3, QuietStep

LEMMA QuietOther ==
  ASSUME IInv, SharedInv, NEW p \in Process, Watchdog(p) \/ QuitEarly(p) \/ HostapdEnds(p)
  PROVE  HostStep
  <1> USE DEF Goto, At, shellVars, childVars, systemVars
  <1>0. TypeOK /\ Local(p) /\ UsersRegistered /\ NamesInOrder
    BY StepIsLocal DEF IInv, SharedInv, NamesInv, Environment
  <1>1. UNCHANGED <<confdir, iface, common, saved, value, net>>
    BY DEF Watchdog, WatchdogFindsNone, WatchdogStep, WatchdogLocks, WatchdogStartsHaveged,
           WatchdogUnlocks, QuitEarly, HostapdEnds
  <1>2. CASE Watchdog(p) \/ HostapdEnds(p)
    <2>1. UNCHANGED pc
      BY <1>2 DEF Watchdog, WatchdogFindsNone, WatchdogStep, WatchdogLocks,
                  WatchdogStartsHaveged, WatchdogUnlocks, HostapdEnds
    <2>2. KeepsNames(p) /\ (InUse(p)' <=> InUse(p))
      BY <1>1, <2>1 DEF KeepsNames, UsesName, InUse, Running
    <2> QED BY <1>0, <1>1, <2>1, <2>2, QuietStep
  <1>3. CASE QuitEarly(p)
    <2>1. pc[p] = "start" /\ pc'[p] = "gone"
      BY <1>0, <1>3 DEF TypeOK, QuitEarly
    <2>2. ~common[p] /\ \A x \in Prefix : iface[p][x] = NoSlot
      BY <1>0, <2>1 DEF UsersRegistered, NamesInOrder
    <2>3. KeepsNames(p) /\ (InUse(p)' <=> InUse(p))
      BY <1>1, <2>1, <2>2 DEF KeepsNames, UsesName, InUse, Running, Dead
    <2> QED BY <1>0, <1>1, <2>1, <2>3, QuietStep DEF Sharing, Serving
  <1> QED BY <1>2, <1>3

-----------------------------------------------------------------------------
(* Coming and going.                                                       *)
LEMMA ComesAs ==
  ASSUME IInv, SharedInv, NEW p \in Process, MakeCommonConfdir(p)
  PROVE  HostStep
  <1> USE DEF Goto, At, MakeCommonConfdir
  <1>0. TypeOK /\ Local(p) /\ UsersRegistered
    BY StepIsLocal DEF IInv, Register
  <1>1. pc[p] = "mkcommon" /\ pc'[p] \in {"save_dev", "save_ip"} /\ iface' = iface
    BY <1>0 DEF TypeOK
  <1>2. InUse(p)'
    <2>1. "pid" \in confdir'[p] /\ common'[p]
      BY <1>0, <1>1 DEF TypeOK, UsersRegistered
    <2> QED BY <1>1, <2>1 DEF InUse, Running, Dead
  <1>3. KeepsNames(p)
    BY <1>1 DEF KeepsNames, UsesName, Dead
  <1>4. Users' = Users \cup {p} /\ Sharers' = Sharers /\ Names' = Names
    BY <1>0, <1>1, <1>2, <1>3, UsersAfter, NamesKept DEF Sharing, Serving
  <1>5. Host!Join(p)
    BY <1>4 DEF Host!Join, childVars, systemVars
  <1> QED BY <1>5 DEF HostStep, Host!HostNext

LEMMA SharesAs ==
  ASSUME IInv, SharedInv, NEW p \in Process, ListInstance(p)
  PROVE  HostStep
  <1> USE DEF Goto, At, ListInstance
  <1>0. TypeOK /\ Local(p) /\ UsersRegistered
    BY StepIsLocal DEF IInv, SetUp
  <1>1. pc[p] = "list" /\ pc'[p] \in {"set_dev", "set_nf", "dnsmasq"} /\ UNCHANGED <<iface, common>>
    BY <1>0 DEF TypeOK, AfterListing
  <1>2. InUse(p)
    BY <1>0, <1>1 DEF UsersRegistered, InUse, Running, Dead, SetupLabel
  <1>3. InUse(p)'
    BY <1>0, <1>1, <1>2 DEF TypeOK, InUse, Running, Dead
  <1>4. KeepsNames(p)
    BY <1>1 DEF KeepsNames, UsesName, Dead
  <1>5. Users' = Users /\ Sharers' = Sharers \cup {p} /\ Names' = Names /\ p \in Users
    BY <1>0, <1>1, <1>2, <1>3, <1>4, UsersAfter, NamesKept DEF Sharing, Serving, Users, InUse
  <1>6. Host!BeginSharing(p)
    BY <1>5 DEF Host!BeginSharing, childVars, systemVars
  <1> QED BY <1>6 DEF HostStep, Host!HostNext

LEMMA EndsAs ==
  ASSUME IInv, SharedInv, NEW p \in Process, WaitReturns(p) \/ Abort(p) \/ AbortInMutex(p)
  PROVE  HostStep
  <1> USE DEF Goto, At
  <1>0. TypeOK /\ Local(p)
    BY StepIsLocal DEF IInv, SetUp, Environment
  <1>1. /\ pc[p] \in SetupLabel /\ pc'[p] \in {"c_lock", "hung"}
        /\ UNCHANGED <<confdir, iface, common, saved, value, net>>
    BY <1>0, AbortMeans DEF TypeOK, WaitReturns, SetupLabel, shellVars, systemVars
  <1>2. KeepsNames(p)
    BY <1>1 DEF KeepsNames, UsesName, Dead, SetupLabel
  <1>3. InUse(p)' <=> InUse(p)
    BY <1>1 DEF InUse, Running, Dead, SetupLabel
  <1>4. Users' = Users /\ Sharers' = Sharers \ {p} /\ Names' = Names
    BY <1>0, <1>1, <1>2, <1>3, UsersAfter, NamesKept DEF Sharing, Serving
  <1>5. Host!EndSharing(p)
    BY <1>1, <1>4 DEF Host!EndSharing
  <1> QED BY <1>5 DEF HostStep, Host!HostNext

LEMMA PartsAs ==
  ASSUME IInv, SharedInv, NEW p \in Process, RemoveConfdir(p)
  PROVE  HostStep
  <1> USE DEF Goto, At, RemoveConfdir
  <1>0. TypeOK /\ Local(p)
    BY StepIsLocal DEF IInv, CleanUp
  <1>1. /\ pc[p] = "c_rmconf" /\ pc'[p] = "c_dev" /\ confdir'[p] = {}
        /\ UNCHANGED <<iface, common, saved, value, net>>
    BY <1>0 DEF TypeOK, systemVars
  <1>2. KeepsNames(p)
    BY <1>1 DEF KeepsNames, UsesName, Dead
  <1>3. Users' = Users \ {p} /\ Sharers' = Sharers /\ Names' = Names /\ p \notin Sharers
    BY <1>0, <1>1, <1>2, UsersAfter, NamesKept DEF Sharing, Serving, Sharers, InUse, Running
  <1>4. Host!Part(p)
    BY <1>1, <1>3 DEF Host!Part
  <1> QED BY <1>4 DEF HostStep, Host!HostNext

LEMMA VanishesAs ==
  ASSUME IInv, SharedInv, NEW p \in Process, Crash(p)
  PROVE  HostStep
  <1> USE DEF Goto, Crash
  <1>0. TypeOK /\ Local(p)
    BY StepIsLocal DEF IInv, Environment
  <1>1. pc'[p] = "crashed" /\ UNCHANGED <<saved, value, net>>
    BY <1>0 DEF TypeOK, systemVars
  <1>2. Users' = Users \ {p} /\ Sharers' = Sharers \ {p}
    BY <1>0, <1>1, UsersAfter DEF Sharing, Serving, InUse, Running, Dead
  <1>3. Names' = Names \ ({p} \X Prefix \X Slot)
    <2> DEFINE N == Names \ ({p} \X Prefix \X Slot)
    <2>1. \A x \in Prefix, k \in Slot : ~Named(p, x, k)' /\ <<p, x, k>> \notin N
      BY <1>1 DEF Named, UsesName, Dead
    <2>2. \A q \in Process \ {p}, x \in Prefix, k \in Slot : <<q, x, k>> \in N <=> <<q, x, k>> \in Names
      OBVIOUS
    <2>3. N \subseteq Process \X Prefix \X Slot
      BY NamesAre
    <2> HIDE DEF N
    <2>4. Names' = N
      BY <1>0, <2>1, <2>2, <2>3, NamesAfter
    <2> QED BY <2>4 DEF N
  <1>4. Host!Vanish(p)
    BY <1>1, <1>2, <1>3 DEF Host!Vanish
  <1> QED BY <1>4 DEF HostStep, Host!HostNext

-----------------------------------------------------------------------------
(* Settings: kept by one who uses them, changed by one who shares, put     *)
(* back when nobody needs them.                                            *)
LEMMA SameSettings ==
  /\ Host!Common = CommonSetting /\ Host!Setting = Setting
  /\ \A s, v : Host!Becomes(s, v) = Written(s, v)
  BY DEF Host!Common, Host!Setting, CommonSetting, Setting, Host!Becomes, Written

LEMMA KeepsAs ==
  ASSUME IInv, SharedInv, NEW p \in Process,
         SaveForwarding(p) \/ SaveIpForward(p) \/ SaveBridgeNf(p)
  PROVE  HostStep
  <1> USE DEF Goto, At, SaveForwarding, SaveIpForward, SaveBridgeNf, Save
  <1>0. TypeOK /\ Local(p) /\ UsersRegistered
    BY StepIsLocal DEF IInv, Register
  <1>1. PICK s \in Setting :
          saved' = IF saved[s] = "unsaved" THEN [saved EXCEPT ![s] = value[s]] ELSE saved
    BY UplinkDiffers
  <1>2. /\ pc[p] \in {"save_dev", "save_ip", "save_nf"}
        /\ pc'[p] \in {"save_ip", "save_nf", "unlock"}
        /\ UNCHANGED <<confdir, common, iface, value, net>>
    BY <1>0 DEF TypeOK, shellVars
  <1>3. KeepsNames(p) /\ InUse(p) /\ InUse(p)'
    BY <1>0, <1>2 DEF UsersRegistered, SetupLabel, KeepsNames, UsesName, Dead, InUse, Running
  <1>4. pc[p] \notin Sharing /\ pc'[p] \notin Sharing
    BY <1>2 DEF Sharing, Serving
  <1>5. CASE saved[s] = "unsaved"
    <2>1. Users' = Users /\ Sharers' = Sharers /\ Names' = Names /\ p \in Users
      BY <1>0, <1>3, <1>4, UsersAfter, NamesKept DEF Users, InUse
    <2>2. Host!Keep(p, s)
      BY <1>1, <1>2, <1>5, <2>1 DEF Host!Keep
    <2> QED BY <2>2, SameSettings DEF HostStep, Host!HostNext
  <1>6. CASE saved[s] # "unsaved"
    BY <1>0, <1>1, <1>2, <1>3, <1>4, <1>6, QuietStep
  <1> QED BY <1>5, <1>6

LEMMA SwitchesAs ==
  ASSUME IInv, SharedInv, NEW p \in Process,
         SetForwarding(p) \/ SetIpForward(p) \/ SetBridgeNf(p)
  PROVE  HostStep
  <1> USE DEF Goto, At, SetForwarding, SetIpForward, SetBridgeNf, Set
  <1>0. TypeOK /\ Local(p) /\ UsersRegistered /\ BackupsKept /\ ServersListed
    BY StepIsLocal DEF IInv, SharedInv, KeptInv, SetUp
  <1>1. /\ pc[p] \in {"set_dev", "set_ip", "set_nf"}
        /\ pc'[p] \in Sharing
        /\ UNCHANGED <<confdir, common, iface, saved, net>>
    BY <1>0 DEF TypeOK, shellVars, Sharing, Serving
  <1>2. PICK s \in Setting, v \in {"on", "off"} :
          /\ value' = Written(s, v)
          /\ <<s, v>> \in Host!Needs(p)
          /\ s \in CommonSetting => saved[s] # "unsaved"
    <2>1. CASE SetForwarding(p)
      <3>1. Share[p] = "nat"
        BY <1>0, <2>1 DEF ServersListed
      <3>2. <<Internet[p], "on">> \in Host!Needs(p)
        BY <3>1 DEF Host!Needs
      <3>3. Internet[p] \in Setting /\ Internet[p] \notin CommonSetting
        BY UplinkDiffers DEF CommonSetting
      <3> QED BY <2>1, <3>2, <3>3
    <2>2. CASE SetIpForward(p)
      <3>1. Share[p] = "nat"
        BY <1>0, <2>2 DEF ServersListed
      <3>2. <<"ip_forward", "on">> \in Host!Needs(p)
        BY <3>1 DEF Host!Needs
      <3>3. saved["ip_forward"] # "unsaved"
        BY <1>0, <2>2 DEF BackupsKept, CommonSetting, AfterSave, SetupLabel
      <3> QED BY <2>2, <3>2, <3>3, UplinkDiffers
    <2>3. CASE SetBridgeNf(p)
      <3>1. Share[p] = "bridge"
        BY <1>0, <2>3 DEF ServersListed
      <3>2. <<"bridge_nf", "off">> \in Host!Needs(p)
        BY <3>1 DEF Host!Needs
      <3>3. saved["bridge_nf"] # "unsaved"
        BY <1>0, <2>3 DEF BackupsKept, CommonSetting, AfterSave, SetupLabel
      <3> QED BY <2>3, <3>2, <3>3, UplinkDiffers
    <2> QED BY <2>1, <2>2, <2>3
  <1>3. KeepsNames(p) /\ (InUse(p)' <=> InUse(p))
    BY <1>1 DEF KeepsNames, UsesName, Dead, InUse, Running, Sharing, Serving
  <1>4. Users' = Users /\ Sharers' = Sharers /\ Names' = Names /\ p \in Sharers
    BY <1>0, <1>1, <1>3, UsersAfter, NamesKept DEF Sharers, Sharing
  <1>5. Host!Switch(p, s, v)
    BY <1>1, <1>2, <1>4, SameSettings DEF Host!Switch
  <1> QED BY <1>5, SameSettings DEF HostStep, Host!HostNext

LEMMA PutsBackAs ==
  ASSUME IInv, SharedInv, NEW p \in Process,
         RestoreForwarding(p) \/ RestoreIpForward(p) \/ RestoreBridgeNf(p)
  PROVE  HostStep
  <1> USE DEF Goto, At, RestoreForwarding, RestoreIpForward, RestoreBridgeNf, Restore
  <1>0. TypeOK /\ Local(p) /\ LastIsAlone /\ ServersListed
    BY StepIsLocal DEF IInv, SharedInv, KeptInv, CleanUp
  <1>1. /\ pc[p] \in {"c_dev", "c_ip", "c_nf"}
        /\ pc'[p] \in {"c_scan", "c_nf", "c_rmcommon"}
        /\ UNCHANGED <<confdir, common, iface, net>>
    BY <1>0 DEF TypeOK, shellVars
  <1>2. KeepsNames(p) /\ (InUse(p)' <=> InUse(p)) /\ pc[p] \notin Sharing /\ pc'[p] \notin Sharing
    BY <1>1 DEF KeepsNames, UsesName, Dead, InUse, Running, Sharing, Serving
  <1>3. PICK s \in Setting :
          /\ IF common[p] /\ saved[s] # "unsaved"
             THEN value' = Written(s, saved[s]) /\ saved' = [saved EXCEPT ![s] = "unsaved"]
             ELSE UNCHANGED <<value, saved>>
          /\ Host!Unneeded(s)
    <2>1. CASE RestoreForwarding(p)
      <3>1. ASSUME NEW q \in Sharers, Share[q] = "nat", Internet[q] = Internet[p] PROVE FALSE
        <4>1. q \in Process /\ pc[q] \in Sharing
          BY <3>1 DEF Sharers
        <4>2. Listed(q) /\ "nat_internet_iface" \in confdir[q]
          BY <1>0, <3>1, <4>1, SharersSeen
        <4> QED BY <2>1, <3>1, <4>1, <4>2 DEF UplinkInUse
      <3>2. Internet[p] \in Setting /\ Internet[p] \notin CommonSetting
        BY UplinkDiffers DEF CommonSetting
      <3>3. Host!Unneeded(Internet[p])
        BY <3>1, <3>2, SameSettings DEF Host!Unneeded
      <3> QED BY <2>1, <3>2, <3>3
    <2>2. CASE RestoreIpForward(p) \/ RestoreBridgeNf(p)
      <3>1. Users = {}
        BY <1>0, <2>2 DEF LastIsAlone, Last, NoneRunning, Users
      <3>2. Host!Unneeded("ip_forward") /\ Host!Unneeded("bridge_nf")
        BY <3>1 DEF Host!Unneeded, Host!Common
      <3> QED BY <2>2, <3>2, UplinkDiffers
    <2> QED BY <2>1, <2>2
  <1>4. CASE common[p] /\ saved[s] # "unsaved"
    <2>1. Users' = Users /\ Sharers' = Sharers /\ Names' = Names
      BY <1>0, <1>2, UsersAfter, NamesKept
    <2>2. Host!PutBack(s)
      BY <1>1, <1>3, <1>4, <2>1, SameSettings DEF Host!PutBack
    <2> QED BY <2>2, SameSettings DEF HostStep, Host!HostNext
  <1>5. CASE ~(common[p] /\ saved[s] # "unsaved")
    BY <1>0, <1>1, <1>2, <1>3, <1>5, QuietStep
  <1> QED BY <1>4, <1>5

LEMMA ForgetsAs ==
  ASSUME IInv, SharedInv, NEW p \in Process, RemoveCommonConfdir(p)
  PROVE  HostStep
  <1> USE DEF Goto, At, RemoveCommonConfdir
  <1>0. TypeOK /\ Local(p) /\ LastIsAlone
    BY StepIsLocal DEF IInv, CleanUp
  <1>1. /\ pc[p] = "c_rmcommon" /\ pc'[p] = "c_bridge"
        /\ UNCHANGED <<confdir, common, iface, value, net>>
    BY <1>0 DEF TypeOK, shellVars
  <1>2. KeepsNames(p) /\ (InUse(p)' <=> InUse(p)) /\ pc[p] \notin Sharing /\ pc'[p] \notin Sharing
    BY <1>1 DEF KeepsNames, UsesName, Dead, InUse, Running, Sharing, Serving
  <1>3. CASE common[p]
    <2>1. Users = {} /\ saved["ip_forward"] = "unsaved" /\ saved["bridge_nf"] = "unsaved"
      BY <1>0, <1>1, <1>3 DEF LastIsAlone, Last, NoneRunning, Users
    <2>2. Users' = Users /\ Sharers' = Sharers /\ Names' = Names
      BY <1>0, <1>2, UsersAfter, NamesKept
    <2>3. Host!Forget
      BY <1>1, <1>3, <2>1, <2>2, SameSettings DEF Host!Forget, CommonSetting
    <2> QED BY <2>3 DEF HostStep, Host!HostNext
  <1>4. CASE ~common[p]
    BY <1>0, <1>1, <1>2, <1>4, QuietStep
  <1> QED BY <1>3, <1>4

-----------------------------------------------------------------------------
(* Interfaces: a name is taken when it is nobody's, and given up with the  *)
(* interface it names.                                                     *)
LEMMA TakesAs ==
  ASSUME IInv, SharedInv, NEW p \in Process, AllocBridge(p) \/ AllocVirtual(p)
  PROVE  HostStep
  <1>0. TypeOK /\ Local(p) /\ UsersRegistered /\ NamesInOrder /\ NamesReserved
    BY StepIsLocal DEF IInv, SharedInv, NamesInv, SetUp
  <1>1. PICK x \in Prefix, k \in Slot :
          /\ Free(x, k) /\ holder \in {NoProcess, p}
          /\ iface' = [iface EXCEPT ![p] = [iface[p] EXCEPT ![x] = k]]
          /\ x = "br" => pc[p] = "alloc_br" /\ pc'[p] \in {"alloc_ap", "list"}
          /\ x = "ap" => pc[p] = "alloc_ap" /\ pc'[p] = "add_ap"
          /\ UNCHANGED <<confdir, common, saved, value, net>>
    <2>1. CASE AllocBridge(p)
      BY <1>0, <2>1
         DEF AllocBridge, AllocNewIface, Locked, AfterBridge, At, Goto, TypeOK, Prefix
    <2>2. CASE AllocVirtual(p)
      BY <1>0, <2>2 DEF AllocVirtual, AllocNewIface, Locked, At, Goto, TypeOK, Prefix
    <2> QED BY <2>1, <2>2
  <1>2. /\ iface'[p][x] = k /\ k # NoSlot
        /\ \A y \in Prefix \ {x} : iface'[p][y] = iface[p][y]
        /\ iface[p][x] = NoSlot
    BY <1>0, <1>1, MaxSlotAssumption DEF TypeOK, NamesInOrder, BeforeNames, Prefix, Slot, NoSlot
  <1>3. /\ pc[p] \in {"alloc_br", "alloc_ap"} /\ pc'[p] \in {"alloc_ap", "list", "add_ap"}
    BY <1>1 DEF Prefix
  <1>4. InUse(p) /\ InUse(p)'
    BY <1>0, <1>1, <1>3 DEF UsersRegistered, InUse, Running, Dead, SetupLabel
  <1>5. Users' = Users /\ Sharers' = Sharers /\ p \in Users
    BY <1>0, <1>3, <1>4, UsersAfter DEF Sharing, Serving, Users, InUse
  <1>6. Names' = Names \cup {<<p, x, k>>}
    <2> DEFINE N == Names \cup {<<p, x, k>>}
    <2>1. \A y \in Prefix, j \in Slot : <<p, y, j>> \in N <=> Named(p, y, j)'
      <3>1. ASSUME NEW y \in Prefix \ {x}, NEW j \in Slot PROVE Named(p, y, j)' <=> Named(p, y, j)
        BY <1>2, <1>3 DEF Named, UsesName, Dead
      <3>2. ASSUME NEW j \in Slot
            PROVE  (Named(p, x, j)' <=> j = k) /\ ~Named(p, x, j)
        BY <1>2, <1>3 DEF Named, UsesName, Dead
      <3> QED BY <3>1, <3>2, NamesAre
    <2>2. \A q \in Process \ {p}, y \in Prefix, j \in Slot : <<q, y, j>> \in N <=> <<q, y, j>> \in Names
      OBVIOUS
    <2>3. N \subseteq Process \X Prefix \X Slot
      BY NamesAre
    <2> HIDE DEF N
    <2>4. Names' = N
      BY <1>0, <2>1, <2>2, <2>3, NamesAfter
    <2> QED BY <2>4 DEF N
  <1>7. \A q \in Process : <<q, x, k>> \notin Names
    <2>1. ASSUME NEW q \in Process, UsesName(q, x) PROVE iface[q][x] # k
      <3>1. CASE q = p
        BY <1>2, <3>1
      <3>2. CASE q # p
        BY <1>0, <1>1, <2>1, <3>2, FreeIsUnused
      <3> QED BY <3>1, <3>2
    <2>2. \A q \in Process : ~Named(q, x, k)
      BY <2>1 DEF Named
    <2> QED BY <2>2, NamesAre
  <1>8. \A j \in Slot : <<p, x, j>> \notin Names
    BY <1>2, NamesAre DEF Named, UsesName
  <1>9. Host!Take(p, x, k)
    BY <1>1, <1>5, <1>6, <1>7, <1>8 DEF Host!Take, Free
  <1> QED BY <1>9 DEF HostStep, Host!HostNext

LEMMA CreatesAs ==
  ASSUME IInv, SharedInv, NEW p \in Process, AddVirtual(p) \/ AddBridge(p)
  PROVE  HostStep
  <1> USE DEF Goto, At, AddVirtual, AddBridge, AddInterface
  <1>0. TypeOK /\ Local(p) /\ NamesInOrder
    BY StepIsLocal DEF IInv, SharedInv, NamesInv, SetUp
  <1>1. PICK x \in Prefix :
          /\ net[x][iface[p][x]] = NoProcess /\ net' = [net EXCEPT ![x][iface[p][x]] = p]
          /\ iface[p][x] # NoSlot
          /\ \/ pc[p] = "add_ap" /\ pc'[p] = "list"
             \/ pc[p] = "add_br" /\ pc'[p] = "watchdog"
          /\ UNCHANGED <<confdir, common, iface, saved, value>>
    BY <1>0 DEF TypeOK, NamesInOrder, BeforeNames, Registering, SetupLabel, Prefix, shellVars
  <1>2. PICK k \in Slot : k = iface[p][x]
    BY <1>0, <1>1 DEF TypeOK
  <1>3. KeepsNames(p) /\ (InUse(p)' <=> InUse(p)) /\ UsesName(p, x)
    BY <1>1 DEF KeepsNames, UsesName, Dead, InUse, Running
  <1>4. Users' = Users /\ Sharers' = Sharers /\ Names' = Names
    BY <1>0, <1>1, <1>3, UsersAfter, NamesKept DEF Sharing, Serving
  <1>5. <<p, x, k>> \in Names
    BY <1>2, <1>3, NamesAre DEF Named
  <1>6. Host!Create(p, x, k)
    BY <1>1, <1>2, <1>4, <1>5 DEF Host!Create
  <1> QED BY <1>6 DEF HostStep, Host!HostNext

(* The names of p after the one with prefix x is given up.                 *)
LEMMA NamesWithout ==
  ASSUME TypeOK, NEW p \in Process, Local(p), NEW x \in Prefix, NEW k \in Slot,
         UsesName(p, x), iface[p][x] = k, ~UsesName(p, x)',
         \A y \in Prefix \ {x} : /\ UsesName(p, y)' <=> UsesName(p, y)
                                 /\ iface'[p][y] = iface[p][y]
  PROVE  <<p, x, k>> \in Names /\ Names' = Names \ {<<p, x, k>>}
  <1> DEFINE N == Names \ {<<p, x, k>>}
  <1>1. \A y \in Prefix, j \in Slot : <<p, y, j>> \in N <=> Named(p, y, j)'
    <2>1. ASSUME NEW y \in Prefix \ {x}, NEW j \in Slot PROVE Named(p, y, j)' <=> Named(p, y, j)
      BY DEF Named
    <2>2. ASSUME NEW j \in Slot
          PROVE  ~Named(p, x, j)' /\ (Named(p, x, j) <=> j = k)
      BY DEF Named
    <2> QED BY <2>1, <2>2, NamesAre
  <1>2. \A q \in Process \ {p}, y \in Prefix, j \in Slot : <<q, y, j>> \in N <=> <<q, y, j>> \in Names
    OBVIOUS
  <1>3. N \subseteq Process \X Prefix \X Slot
    BY NamesAre
  <1>4. <<p, x, k>> \in Names
    BY NamesAre DEF Named
  <1> HIDE DEF N
  <1>5. Names' = N
    BY <1>1, <1>2, <1>3, NamesAfter
  <1> QED BY <1>4, <1>5 DEF N

LEMMA GivesUpAs ==
  ASSUME IInv, SharedInv, NEW p \in Process,
         AddVirtualFails(p) \/ DeleteBridge(p) \/ DeleteVirtual(p)
  PROVE  HostStep
  <1> USE DEF Goto, At
  <1>0. TypeOK /\ Local(p) /\ NamesInOrder /\ NamesOwned /\ InterfacesOwed
    BY StepIsLocal DEF IInv, SharedInv, NamesInv, OwedInv, SetUp, CleanUp
  <1>1. /\ pc[p] \in {"add_ap", "c_bridge", "c_virtual"}
        /\ pc'[p] \in {"c_lock", "c_virtual", "c_unlock"}
        /\ UNCHANGED <<confdir, common, saved, value>>
    BY <1>0 DEF TypeOK, AddVirtualFails, DeleteBridge, DeleteVirtual, DeleteInterface,
                systemVars, shellVars
  <1>2. InUse(p)' <=> InUse(p)
    BY <1>1 DEF InUse, Running, Dead
  <1>3. pc[p] \notin Sharing /\ pc'[p] \notin Sharing
    BY <1>1 DEF Sharing, Serving
  <1>4. Users' = Users /\ Sharers' = Sharers
    BY <1>0, <1>2, <1>3, UsersAfter
  <1>5. ASSUME NEW x \in Prefix, NEW k \in Slot, UsesName(p, x), iface[p][x] = k, ~UsesName(p, x)',
               net' = [net EXCEPT ![x][k] = NoProcess],
               \A y \in Prefix \ {x} : /\ UsesName(p, y)' <=> UsesName(p, y)
                                       /\ iface'[p][y] = iface[p][y]
        PROVE  HostStep
    <2>1. <<p, x, k>> \in Names /\ Names' = Names \ {<<p, x, k>>}
      BY <1>0, <1>5, NamesWithout
    <2>2. net[x][k] \in {p, NoProcess}
      BY <1>0, <1>5 DEF NamesOwned
    <2>3. Host!Delete(p, x, k)
      BY <1>1, <1>4, <1>5, <2>1, <2>2 DEF Host!Delete
    <2> QED BY <2>3 DEF HostStep, Host!HostNext
  <1>6. CASE AddVirtualFails(p)
    <2>1. PICK k \in Slot : iface[p]["ap"] = k
      BY <1>0, <1>6 DEF AddVirtualFails, NamesInOrder, TypeOK, Prefix
    <2>2. /\ pc[p] = "add_ap" /\ pc'[p] = "c_lock" /\ net' = net
          /\ iface'[p]["ap"] = NoSlot /\ iface'[p]["br"] = iface[p]["br"]
      BY <1>0, <1>6 DEF AddVirtualFails, TypeOK, Prefix, systemVars
    <2>3. k # NoSlot
      BY MaxSlotAssumption DEF Slot, NoSlot
    <2>4. UsesName(p, "ap") /\ ~UsesName(p, "ap")' /\ (UsesName(p, "br")' <=> UsesName(p, "br"))
      BY <2>1, <2>2, <2>3 DEF UsesName, Dead
    <2>5. net["ap"][k] = NoProcess
      <3>1. net["ap"][k] # p
        BY <1>0, <2>2 DEF InterfacesOwed, Prefix
      <3> QED BY <1>0, <2>1, <2>4, <3>1 DEF NamesOwned, Prefix
    <2>6. net' = [net EXCEPT !["ap"][k] = NoProcess]
      <3>1. [net["ap"] EXCEPT ![k] = NoProcess] = net["ap"]
        BY <1>0, <2>5 DEF TypeOK, Prefix
      <3>2. net' = [net EXCEPT !["ap"] = [net["ap"] EXCEPT ![k] = NoProcess]]
        BY <1>0, <2>2, <3>1 DEF TypeOK, Prefix
      <3> QED BY <3>2
    <2> QED BY <1>5, <2>1, <2>2, <2>4, <2>6 DEF Prefix
  <1>7. ASSUME NEW x \in Prefix, NEW label, NEW next, DeleteInterface(p, x, label, next),
               UsesName(p, x) <=> iface[p][x] # NoSlot, ~UsesName(p, x)',
               \A y \in Prefix \ {x} : UsesName(p, y)' <=> UsesName(p, y)
        PROVE  HostStep
    <2>1. iface' = iface
      BY <1>7 DEF DeleteInterface, shellVars
    <2>2. CASE iface[p][x] # NoSlot
      <3>1. PICK k \in Slot : iface[p][x] = k
        BY <1>0, <2>2 DEF TypeOK
      <3>2. net' = [net EXCEPT ![x][k] = NoProcess]
        BY <1>7, <2>2, <3>1 DEF DeleteInterface
      <3> QED BY <1>5, <1>7, <2>1, <2>2, <3>1, <3>2
    <2>3. CASE iface[p][x] = NoSlot
      <3>1. net' = net
        BY <1>7, <2>3 DEF DeleteInterface
      <3>2. KeepsNames(p)
        BY <1>7, <2>1, <2>3 DEF KeepsNames
      <3> QED BY <1>0, <1>1, <1>2, <1>3, <3>1, <3>2, QuietStep
    <2> QED BY <2>2, <2>3
  <1>8. CASE DeleteBridge(p)
    <2>1. pc[p] = "c_bridge" /\ pc'[p] = "c_virtual" /\ iface' = iface
      BY <1>0, <1>8 DEF DeleteBridge, DeleteInterface, TypeOK, shellVars
    <2>2. /\ UsesName(p, "br") <=> iface[p]["br"] # NoSlot
          /\ ~UsesName(p, "br")' /\ (UsesName(p, "ap")' <=> UsesName(p, "ap"))
      BY <2>1 DEF UsesName, Dead
    <2> QED BY <1>7, <1>8, <2>2 DEF DeleteBridge, Prefix
  <1>9. CASE DeleteVirtual(p)
    <2>1. pc[p] = "c_virtual" /\ pc'[p] = "c_unlock" /\ iface' = iface
      BY <1>0, <1>9 DEF DeleteVirtual, DeleteInterface, TypeOK, shellVars
    <2>2. /\ UsesName(p, "ap") <=> iface[p]["ap"] # NoSlot
          /\ ~UsesName(p, "ap")' /\ (UsesName(p, "br")' <=> UsesName(p, "br"))
      BY <2>1 DEF UsesName, Dead
    <2> QED BY <1>7, <1>9, <2>2 DEF DeleteVirtual, Prefix
  <1> QED BY <1>6, <1>8, <1>9

-----------------------------------------------------------------------------
LEMMA InitIsHosts == Init => Host!HostInit
  <1> SUFFICES ASSUME Init PROVE Host!HostInit
    OBVIOUS
  <1>1. Users = {} /\ Sharers = {}
    BY DEF Init, Users, Running, Sharers, Sharing, Serving
  <1>2. Names = {}
    BY NamesAre DEF Init, Named, UsesName
  <1> QED BY <1>1, <1>2, SameSettings DEF Init, Host!HostInit

LEMMA StepIsHosts == ASSUME IInv, SharedInv, [Next]_vars PROVE HostStep
  <1>1. ASSUME NEW p \in Process, Register(p) PROVE HostStep
    BY <1>1, QuietRegister, ComesAs, KeepsAs DEF Register
  <1>2. ASSUME NEW p \in Process, SetUp(p) PROVE HostStep
    BY <1>2, QuietSetUp, TakesAs, CreatesAs, GivesUpAs, SharesAs, SwitchesAs, EndsAs DEF SetUp
  <1>3. ASSUME NEW p \in Process, CleanUp(p) PROVE HostStep
    BY <1>3, QuietCleanUp, PartsAs, PutsBackAs, ForgetsAs, GivesUpAs DEF CleanUp
  <1>4. ASSUME NEW p \in Process, Watchdog(p) PROVE HostStep
    BY <1>4, QuietOther
  <1>5. ASSUME NEW p \in Process, Environment(p) PROVE HostStep
    BY <1>5, QuietOther, EndsAs, VanishesAs DEF Environment
  <1>6. CASE UNCHANGED vars
    BY <1>6 DEF HostStep, Host!hostVars, vars, shellVars, systemVars, Users, Running, Sharers,
                Names, UsesName
  <1> QED BY <1>1, <1>2, <1>3, <1>4, <1>5, <1>6 DEF Next

(* Any number of instances, started, stopped, aborted and killed in any    *)
(* order, share the machine as SharedHost allows (lines 1596-1926 and      *)
(* 702-838).                                                               *)
THEOREM InstancesShareHost == Spec => ImplementsHost
  <1>1. IInv /\ SharedInv /\ [Next]_vars => [Host!HostNext]_Host!hostVars
    BY StepIsHosts DEF HostStep
  <1> QED BY <1>1, InitIsHosts, Invariance, SharedInvariant, PTL
         DEF Spec, ImplementsHost, Host!HostSpec
=============================================================================
