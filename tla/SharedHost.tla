----------------------------- MODULE SharedHost -----------------------------
(***************************************************************************)
(* What create_ap promises the machine its instances share: they come and  *)
(* go, and may be killed, in any order; a setting of all is only changed   *)
(* with its value kept, and only put back when nobody is left; the         *)
(* forwarding of an uplink is only put back when nobody shares from it; a  *)
(* name of an interface belongs to one instance, which alone creates and   *)
(* deletes the interface.  CreateAp says by which files, locks and         *)
(* commands this comes about.                                              *)
(***************************************************************************)
CONSTANTS Process, NoProcess, Uplink, Internet, Share, Prefix, Slot

VARIABLES
    users,      \* the instances that may rely on what is kept
    sharing,    \* those that rely on the settings
    names,      \* the interface names given out, and to whom
    kept,       \* the values put aside
    value,      \* the settings
    net         \* which instance created an interface

hostVars == <<users, sharing, names, kept, value, net>>

Common  == {"ip_forward", "bridge_nf"}
Setting == Common \cup Uplink

HostInit ==
    /\ users = {} /\ sharing = {} /\ names = {}
    /\ kept = [s \in Setting |-> "unsaved"]
    /\ value \in [Setting -> {"on", "off"}]
    /\ net = [x \in Prefix |-> [k \in Slot |-> NoProcess]]

-----------------------------------------------------------------------------
Join(p) ==
    /\ users' = users \cup {p}
    /\ UNCHANGED <<sharing, names, kept, value, net>>

BeginSharing(p) ==
    /\ p \in users /\ sharing' = sharing \cup {p}
    /\ UNCHANGED <<users, names, kept, value, net>>

EndSharing(p) ==
    /\ sharing' = sharing \ {p}
    /\ UNCHANGED <<users, names, kept, value, net>>

Part(p) ==
    /\ p \notin sharing /\ users' = users \ {p}
    /\ UNCHANGED <<sharing, names, kept, value, net>>

(* What a killed instance kept, changed and created stays behind.          *)
Vanish(p) ==
    /\ users' = users \ {p} /\ sharing' = sharing \ {p}
    /\ names' = names \ ({p} \X Prefix \X Slot)
    /\ UNCHANGED <<kept, value, net>>

-----------------------------------------------------------------------------
(* Settings.                                                               *)
Keep(p, s) ==
    /\ p \in users /\ kept[s] = "unsaved"
    /\ kept' = [kept EXCEPT ![s] = value[s]]
    /\ UNCHANGED <<users, sharing, names, value, net>>

(* The kernel makes a change of ip_forward to every interface.             *)
Becomes(s, v) ==
    [t \in Setting |->
        IF t = s \/ (s = "ip_forward" /\ value[s] # v /\ t \in Uplink) THEN v ELSE value[t]]

Needs(p) ==
    CASE Share[p] = "nat"    -> {<<Internet[p], "on">>, <<"ip_forward", "on">>}
      [] Share[p] = "bridge" -> {<<"bridge_nf", "off">>}
      [] OTHER               -> {}

Switch(p, s, v) ==
    /\ p \in sharing /\ <<s, v>> \in Needs(p)
    /\ s \in Common => kept[s] # "unsaved"
    /\ value' = Becomes(s, v)
    /\ UNCHANGED <<users, sharing, names, kept, net>>

Unneeded(s) ==
    IF s \in Common THEN users = {}
    ELSE \A p \in sharing : ~(Share[p] = "nat" /\ Internet[p] = s)

PutBack(s) ==
    /\ kept[s] # "unsaved" /\ Unneeded(s)
    /\ value' = Becomes(s, kept[s])
    /\ kept' = [kept EXCEPT ![s] = "unsaved"]
    /\ UNCHANGED <<users, sharing, names, net>>

(* What is kept of an uplink may be lost with the rest, not put back.      *)
Forget ==
    /\ users = {} /\ \A s \in Common : kept[s] = "unsaved"
    /\ kept' = [s \in Setting |-> "unsaved"]
    /\ UNCHANGED <<users, sharing, names, value, net>>

-----------------------------------------------------------------------------
(* Interfaces.                                                             *)
Take(p, x, k) ==
    /\ p \in users /\ net[x][k] = NoProcess
    /\ \A q \in Process : <<q, x, k>> \notin names
    /\ \A j \in Slot : <<p, x, j>> \notin names
    /\ names' = names \cup {<<p, x, k>>}
    /\ UNCHANGED <<users, sharing, kept, value, net>>

Create(p, x, k) ==
    /\ <<p, x, k>> \in names /\ net[x][k] = NoProcess
    /\ net' = [net EXCEPT ![x][k] = p]
    /\ UNCHANGED <<users, sharing, names, kept, value>>

Delete(p, x, k) ==
    /\ <<p, x, k>> \in names /\ net[x][k] \in {p, NoProcess}
    /\ net' = [net EXCEPT ![x][k] = NoProcess]
    /\ names' = names \ {<<p, x, k>>}
    /\ UNCHANGED <<users, sharing, kept, value>>

-----------------------------------------------------------------------------
HostNext ==
    \/ \E p \in Process : Join(p) \/ BeginSharing(p) \/ EndSharing(p) \/ Part(p) \/ Vanish(p)
    \/ \E p \in Process : \E s \in Setting : Keep(p, s) \/ \E v \in {"on", "off"} : Switch(p, s, v)
    \/ (\E s \in Setting : PutBack(s)) \/ Forget
    \/ \E p \in Process : \E x \in Prefix : \E k \in Slot :
          Take(p, x, k) \/ Create(p, x, k) \/ Delete(p, x, k)

HostSpec == HostInit /\ [][HostNext]_hostVars
=============================================================================
