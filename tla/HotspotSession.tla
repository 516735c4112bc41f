--------------------------- MODULE HotspotSession ---------------------------
(***************************************************************************)
(* The window of wihotspot (ui.c) and the create_ap instances it starts,   *)
(* lists and stops.  The main thread handles the user's events; clicks     *)
(* spawn threads, which share running_info, the static command buffers of  *)
(* h_prop.c and every widget with it and with each other, under no lock.   *)
(*                                                                         *)
(* A step is a call of the source that another thread can see.  A          *)
(* definition called a mutant is no part of the specification: it is what  *)
(* a slip in the named line would make of the definition after it.         *)
(***************************************************************************)
EXTENDS Naturals

CONSTANTS
    Worker,      \* threads that can be alive at the same time
    Instance,    \* create_ap processes
    Outside,     \* those of them that may run before the window opens
    Null,        \* a NULL running_info[0]
    Freed,       \* running_info[0] between its g_free and its reset
    Ssid,        \* names the user types
    Band,        \* values of --freq-band
    Shipped,     \* the settings in /etc/create_ap.conf at the start
    AnyBand,     \* no --freq-band: configValues.freq is NULL
    MaxEvents    \* bound: events of the user once one overlapped or a command failed

ASSUME NullAssumption == Null \notin Instance
ASSUME FreedAssumption == Freed \notin Instance /\ Freed # Null
ASSUME OutsideAssumption == Outside \subseteq Instance
ASSUME AnyBandAssumption == AnyBand \notin Band
ASSUME ShippedAssumption ==
    Shipped \in [ssid : {Shipped.ssid}, band : Band \cup {AnyBand}]
ASSUME MaxEventsAssumption == MaxEvents \in Nat

VARIABLES
    main,        \* what the main thread does
    pc,          \* the next call of each thread
    reads,       \* the instance whose output a thread has open with popen
    running,     \* running_info[0]
    listing,     \* h_running_info: the last line of --list-running
    cmdBand,     \* the --freq-band appended to cmd_config
    cmdKill,     \* the pid in cmd_kill
    entry,       \* text of entry_ssd
    radio,       \* the active radio button
    freq,        \* configValues.freq
    create, stop, qr, editable,   \* sensitivity of buttons and entries
    label,       \* what label_status says
    labelPid,    \* the pid it shows
    bar,         \* progress_bar is visible
    pulse,       \* the timer pb_pulse_id names exists
    leaked,      \* a timer exists whose id was overwritten
    file,        \* /etc/create_ap.conf
    inst,        \* the state of each instance
    conf,        \* the settings of each instance
    announced,   \* instances that have printed AP-ENABLED
    crashed,     \* the program died of undefined behaviour
    overlapped,  \* the user has acted while a thread was at work
    denied,      \* a pkexec was refused, or a command failed
    events,      \* events of the user since then, or since a command failed
    shown        \* the pid the status line showed at the last Stop, until its signal

flowVars == <<main, pc, reads, crashed>>
runVars  == <<running, listing>>
cmdVars  == <<cmdBand, cmdKill>>
formVars == <<entry, radio, freq>>
viewVars == <<create, stop, qr, editable, label, labelPid>>
barVars  == <<bar, pulse, leaked>>
instVars == <<file, inst, conf, announced>>
pastVars == <<overlapped, denied, events, shown>>
vars == <<flowVars, runVars, cmdVars, formVars, viewVars, barVars, instVars, pastVars>>

Pid      == Instance \cup {Null}
Name     == Ssid \cup {Shipped.ssid}
Settings == [ssid : Name, band : Band \cup {AnyBand}]

(* What an instance has been told on its command line: no name.            *)
CommandLine == [ssid : {Null}, band : Band \cup {AnyBand}]

InfoLabel == {"i_free", "i_null", "i_list", "i_read", "i_parse", "i_test",
              "i_on", "i_on2", "i_off", "i_hide"}
StopLabel == {"s_test", "s_lock", "s_build", "s_shell"}
RunLabel  == {"r_freq", "r_append", "r_popen", "r_read", "r_close"}
Label     == {"free"} \cup InfoLabel \cup StopLabel \cup RunLabel

Live     == {"listed", "enabled"}
Phase    == {"none", "booting", "listed", "enabled", "stopping", "gone"}

(* A thread is at work unless it only waits for its hotspot to end.        *)
Active(w) == pc[w] \notin {"free", "r_close"}
Busy == \E w \in Worker : Active(w)
Quiet == ~Busy /\ main = "idle" /\ ~crashed

(* Every event of the user notes whether it came in the middle of          *)
(* something.                                                              *)
User == /\ main = "idle"
        /\ overlapped' = (overlapped \/ Busy)
        /\ IF overlapped' \/ denied
             THEN events < MaxEvents /\ events' = events + 1
             ELSE events' = events

At(w, l) == pc[w] = l
Goto(w, l) == pc' = [pc EXCEPT ![w] = l]
Step(w, from, to) == At(w, from) /\ Goto(w, to) /\ UNCHANGED <<main, reads, crashed>>
Crash == crashed' = TRUE /\ UNCHANGED <<main, pc, reads>>
Spawn(w, l) == pc[w] = "free" /\ Goto(w, l)

-----------------------------------------------------------------------------
(* The first state: initUi has shown the bar and started a thread that     *)
(* asks what is running; instances may run already.                        *)
Init ==
    /\ main = "startup"
    /\ \E w \in Worker : pc = [v \in Worker |-> IF v = w THEN "i_free" ELSE "free"]
    /\ reads = [w \in Worker |-> Null]
    /\ running = Null /\ listing = Null
    /\ cmdBand = AnyBand /\ cmdKill = Null
    /\ file = Shipped
    /\ entry = file.ssid /\ radio = file.band /\ freq = file.band
    /\ create = TRUE /\ stop = TRUE /\ qr = TRUE /\ editable = TRUE
    /\ label = "blank" /\ labelPid = Null
    /\ bar = TRUE /\ pulse = TRUE /\ leaked = FALSE
    /\ \E P \in SUBSET Outside :
         inst = [p \in Instance |-> IF p \in P THEN "enabled" ELSE "none"]
    /\ conf = [p \in Instance |-> IF inst[p] = "enabled" THEN file ELSE Null]
    /\ announced = {p \in Instance : inst[p] = "enabled"}
    /\ crashed = FALSE
    /\ overlapped = FALSE /\ denied = FALSE /\ events = 0
    /\ shown = Null

(* The rest of initUi: the configuration is loaded into the form, and      *)
(* gtk_main starts.                                                        *)
initUi ==
    /\ main = "startup"
    /\ main' = "idle"
    /\ entry' = file.ssid /\ radio' = file.band /\ freq' = file.band
    /\ UNCHANGED <<pc, reads, crashed, runVars, cmdVars, viewVars, barVars, instVars, pastVars>>

-----------------------------------------------------------------------------
(* Widgets.                                                                *)
lock_all_views(set_lock) ==
    /\ create' = ~set_lock /\ stop' = ~set_lock /\ editable' = ~set_lock
    /\ UNCHANGED qr

(* Mutant: the entries stay editable beside a running hotspot (line 663).  *)
LockRunningButtons(set_lock) ==
    /\ create' = ~set_lock /\ editable' = TRUE
    /\ stop' = set_lock /\ qr' = set_lock

(* Mutant: the QR button is forgotten (line 680).                          *)
LockRunningNoQr(set_lock) ==
    /\ create' = ~set_lock /\ editable' = ~set_lock
    /\ stop' = set_lock /\ qr' = TRUE

lock_running_views(set_lock) ==
    /\ create' = ~set_lock /\ editable' = ~set_lock
    /\ stop' = set_lock /\ qr' = set_lock

(* A new timer takes the place of the one pb_pulse_id named.               *)
start_pb_pulse ==
    /\ bar' = TRUE /\ pulse' = TRUE
    /\ leaked' = (leaked \/ pulse)

Says(text) == label' = text /\ labelPid' = Null

-----------------------------------------------------------------------------
(* init_running_info, run by a thread of its own or at the end of          *)
(* run_create_hp_shell.                                                    *)

(* clear_running_info: g_free, then NULL.  A second g_free of the same     *)
(* pointer may be noticed.                                                 *)
FreeInfo(w) ==
    /\ \/ Step(w, "i_free", "i_null") /\ running' = (IF running = Null THEN Null ELSE Freed)
       \/ At(w, "i_free") /\ running = Freed /\ Crash /\ UNCHANGED running
    /\ UNCHANGED <<listing, cmdVars, formVars, viewVars, barVars, instVars, pastVars>>

(* Mutant: the pointer is not reset (line 710).                            *)
KeepInfo(w) ==
    /\ Step(w, "i_null", "i_list")
    /\ lock_all_views(TRUE)
    /\ Says("getting_info")
    /\ UNCHANGED <<runVars, cmdVars, formVars, barVars, instVars, pastVars>>

ResetInfo(w) ==
    /\ Step(w, "i_null", "i_list")
    /\ running' = Null
    /\ lock_all_views(TRUE)
    /\ Says("getting_info")
    /\ UNCHANGED <<listing, cmdVars, formVars, barVars, instVars, pastVars>>

(* init_get_running empties the buffer, reads the lines into it and keeps  *)
(* the last; a failed command leaves running_info as it was.               *)
StartListing(w) ==
    /\ Step(w, "i_list", "i_read")
    /\ listing' = Null
    /\ UNCHANGED <<running, cmdVars, formVars, viewVars, barVars, instVars, pastVars>>

Listed == {p \in Instance : inst[p] \in {"listed", "enabled", "stopping"}}

ReadListing(w) ==
    /\ Step(w, "i_read", "i_parse")
    /\ listing' \in (IF Listed = {} THEN {Null} ELSE Listed)
    /\ UNCHANGED <<running, cmdVars, formVars, viewVars, barVars, instVars, pastVars>>

(* Mutant: a failed command ends the thread (line 720).                    *)
ListingGivesUp(w) ==
    /\ Step(w, "i_read", "free")
    /\ denied' = TRUE
    /\ UNCHANGED <<runVars, cmdVars, formVars, viewVars, barVars, instVars,
                   overlapped, events, shown>>

ListingFails(w) ==
    /\ Step(w, "i_read", "i_test")
    /\ denied' = TRUE
    /\ UNCHANGED <<runVars, cmdVars, formVars, viewVars, barVars, instVars,
                   overlapped, events, shown>>

get_h_running_info(w) ==
    /\ Step(w, "i_parse", "i_test")
    /\ running' = (IF listing = Null THEN running ELSE listing)
    /\ UNCHANGED <<listing, cmdVars, formVars, viewVars, barVars, instVars, pastVars>>

(* The status line; a pid that was freed meanwhile prints as anything, or  *)
(* ends the program.                                                       *)
ShowRunning(w) ==
    /\ running # Null
    /\ \/ /\ Step(w, "i_test", "i_on")
          /\ label' = "running_as"
          /\ labelPid' \in (IF running = Freed THEN Pid ELSE {running})
       \/ At(w, "i_test") /\ running = Freed /\ Crash /\ UNCHANGED <<label, labelPid>>
    /\ UNCHANGED <<create, stop, qr, editable, runVars, cmdVars, formVars, barVars,
                   instVars, pastVars>>

ShowStopped(w) ==
    /\ running = Null
    /\ Step(w, "i_test", "i_off")
    /\ Says("not_running")
    /\ UNCHANGED <<create, stop, qr, editable, runVars, cmdVars, formVars, barVars,
                   instVars, pastVars>>

(* The views of a running hotspot are all unlocked before some are locked; *)
(* those of a stopped one only get more locked ones in the second call.    *)
UnlockAll(w) ==
    /\ Step(w, "i_on", "i_on2")
    /\ lock_all_views(FALSE)
    /\ UNCHANGED <<label, labelPid, runVars, cmdVars, formVars, barVars, instVars, pastVars>>

SetViews(w) ==
    /\ \/ Step(w, "i_on2", "i_hide") /\ lock_running_views(TRUE)
       \/ Step(w, "i_off", "i_hide") /\ lock_running_views(FALSE)
    /\ UNCHANGED <<label, labelPid, runVars, cmdVars, formVars, barVars, instVars, pastVars>>

(* Mutant: the timer is not removed (line 696).                            *)
HideBarOnly(w) ==
    /\ Step(w, "i_hide", IF reads[w] = Null THEN "free" ELSE "r_close")
    /\ bar' = FALSE
    /\ UNCHANGED <<pulse, leaked, runVars, cmdVars, formVars, viewVars, instVars, pastVars>>

stop_pb_pulse(w) ==
    /\ Step(w, "i_hide", IF reads[w] = Null THEN "free" ELSE "r_close")
    /\ pulse' = FALSE /\ bar' = FALSE
    /\ UNCHANGED <<leaked, runVars, cmdVars, formVars, viewVars, instVars, pastVars>>

init_running_info(w) ==
    \/ FreeInfo(w) \/ ResetInfo(w) \/ StartListing(w)
    \/ ReadListing(w) \/ ListingFails(w) \/ get_h_running_info(w)
    \/ ShowRunning(w) \/ ShowStopped(w) \/ UnlockAll(w) \/ SetViews(w)
    \/ stop_pb_pulse(w)

-----------------------------------------------------------------------------
(* stopHp.  The thread that ends by spawning init_running_info is the one  *)
(* that goes on as it.                                                     *)
StopTest(w) ==
    /\ \/ running = Null /\ Step(w, "s_test", "free") /\ UNCHANGED <<label, labelPid>>
       \/ running # Null /\ Step(w, "s_test", "s_lock") /\ Says("stopping_it")
    /\ UNCHANGED <<create, stop, qr, editable, runVars, cmdVars, formVars, barVars,
                   instVars, pastVars>>

StopLock(w) ==
    /\ Step(w, "s_lock", "s_build")
    /\ start_pb_pulse
    /\ lock_all_views(TRUE)
    /\ UNCHANGED <<label, labelPid, runVars, cmdVars, formVars, instVars, pastVars>>

(* Mutant: the command is built once (line 177).                           *)
StopBuildOnce(w) ==
    /\ Step(w, "s_build", "s_shell")
    /\ cmdKill' = (IF cmdKill = Null /\ running # Freed THEN running ELSE cmdKill)
    /\ UNCHANGED <<cmdBand, runVars, formVars, viewVars, barVars, instVars, pastVars>>

(* Mutant: the command keeps the pointer (line 177).                       *)
StopBuildPointer(w) ==
    /\ Step(w, "s_build", "s_shell")
    /\ cmdKill' = running
    /\ UNCHANGED <<cmdBand, runVars, formVars, viewVars, barVars, instVars, pastVars>>

(* build_kill_create_ap_command reads running_info again.                  *)
StopBuild(w) ==
    /\ \/ /\ Step(w, "s_build", "s_shell")
          /\ cmdKill' \in (IF running = Freed THEN Pid ELSE {running})
       \/ At(w, "s_build") /\ running = Freed /\ Crash /\ UNCHANGED cmdKill
    /\ UNCHANGED <<cmdBand, runVars, formVars, viewVars, barVars, instVars, pastVars>>

(* create_ap --stop signals the pid if it is listed, and returns at once;  *)
(* pkexec may be refused.                                                  *)
send_stop(w) ==
    /\ Step(w, "s_shell", "i_free")
    /\ inst' = [p \in Instance |-> IF p = cmdKill /\ inst[p] \in Live
                                   THEN "stopping" ELSE inst[p]]
    /\ shown' = Null
    /\ UNCHANGED <<runVars, cmdVars, formVars, viewVars, barVars, file, conf,
                   announced, overlapped, denied, events>>

StopRefused(w) ==
    /\ Step(w, "s_shell", "i_free")
    /\ denied' = TRUE
    /\ shown' = Null
    /\ UNCHANGED <<runVars, cmdVars, formVars, viewVars, barVars, instVars,
                   overlapped, events>>

stopHp(w) ==
    \/ StopTest(w) \/ StopLock(w) \/ StopBuild(w) \/ send_stop(w) \/ StopRefused(w)

-----------------------------------------------------------------------------
(* run_create_hp_shell.                                                    *)
RunFreq(w) ==
    /\ Step(w, "r_freq", IF freq = AnyBand THEN "r_popen" ELSE "r_append")
    /\ UNCHANGED <<runVars, cmdVars, formVars, viewVars, barVars, instVars, pastVars>>

(* configValues.freq is read again: strcat of a NULL ends the program.     *)
RunAppend(w) ==
    /\ \/ /\ freq # AnyBand
          /\ Step(w, "r_append", "r_popen")
          /\ cmdBand' = freq
       \/ freq = AnyBand /\ At(w, "r_append") /\ Crash /\ UNCHANGED cmdBand
    /\ UNCHANGED <<cmdKill, runVars, formVars, viewVars, barVars, instVars, pastVars>>

RunPopen(w) ==
    /\ At(w, "r_popen")
    /\ \E p \in Instance :
         /\ inst[p] = "none"
         /\ inst' = [inst EXCEPT ![p] = "booting"]
         /\ conf' = [conf EXCEPT ![p] = [ssid |-> Null, band |-> cmdBand]]
         /\ reads' = [reads EXCEPT ![w] = p]
    /\ Goto(w, "r_read")
    /\ start_pb_pulse
    /\ UNCHANGED <<main, crashed, runVars, cmdVars, formVars, viewVars, file, announced,
                   pastVars>>

(* Mutant: the bar is shown before the pipe is opened (line 768).          *)
PopenFailsPulsing(w) ==
    /\ Step(w, "r_popen", "free")
    /\ denied' = TRUE
    /\ start_pb_pulse
    /\ UNCHANGED <<runVars, cmdVars, formVars, viewVars, instVars, overlapped, events, shown>>

(* No pipe: the thread returns before it has touched any widget.           *)
PopenFails(w) ==
    /\ Step(w, "r_popen", "free")
    /\ denied' = TRUE
    /\ UNCHANGED <<runVars, cmdVars, formVars, viewVars, barVars, instVars,
                   overlapped, events, shown>>

(* Mutant: any line of output is taken for AP-ENABLED (line 774).          *)
RunAnyLine(w) ==
    /\ Step(w, "r_read", "i_free")
    /\ Says("output")
    /\ UNCHANGED <<create, stop, qr, editable, runVars, cmdVars, formVars, barVars,
                   instVars, pastVars>>

(* AP-ENABLED was read: the views are set, and pclose comes after.         *)
RunEnabled(w) ==
    /\ Step(w, "r_read", "i_free")
    /\ reads[w] \in announced
    /\ Says("output")
    /\ UNCHANGED <<create, stop, qr, editable, runVars, cmdVars, formVars, barVars,
                   instVars, pastVars>>

(* The output ended without it: pclose comes first.                        *)
RunEnded(w) ==
    /\ At(w, "r_read")
    /\ inst[reads[w]] = "gone" /\ reads[w] \notin announced
    /\ Goto(w, "i_free")
    /\ reads' = [reads EXCEPT ![w] = Null]
    /\ UNCHANGED <<main, crashed, runVars, cmdVars, formVars, viewVars, barVars, instVars,
                   pastVars>>

(* pclose waits for the instance.                                          *)
RunClose(w) ==
    /\ At(w, "r_close")
    /\ inst[reads[w]] = "gone"
    /\ Goto(w, "free")
    /\ reads' = [reads EXCEPT ![w] = Null]
    /\ UNCHANGED <<main, crashed, runVars, cmdVars, formVars, viewVars, barVars, instVars,
                   pastVars>>

run_create_hp_shell(w) ==
    \/ RunFreq(w) \/ RunAppend(w) \/ RunPopen(w) \/ PopenFails(w)
    \/ RunEnabled(w) \/ RunEnded(w) \/ RunClose(w)

-----------------------------------------------------------------------------
(* The user.  Refresh, the radio buttons and, at first, every widget are   *)
(* sensitive whatever the threads do.                                      *)

(* on_create_hp_clicked up to its shell: init_config_val_input reads the   *)
(* form (configValues.ssid points into the entry from then on), and the    *)
(* validator may refuse it.                                                *)
ClickCreate ==
    /\ User /\ create
    /\ freq' = radio
    /\ main' \in {"mkconfig", "idle"}
    /\ UNCHANGED <<pc, reads, crashed, runVars, cmdVars, entry, radio, viewVars, barVars,
                   instVars, denied, shown>>

(* Mutant: cmd_config is not built anew (line 162).                        *)
ConfigureOnly ==
    /\ main = "mkconfig"
    /\ main' = "idle"
    /\ \/ file' = [ssid |-> entry, band |-> freq] /\ UNCHANGED denied
       \/ denied' = TRUE /\ UNCHANGED file
    /\ \E w \in Worker : Spawn(w, "r_freq")
    /\ UNCHANGED <<reads, crashed, runVars, cmdVars, formVars, viewVars, barVars, inst, conf,
                   announced, overlapped, events, shown>>

(* create_ap --mkconfig, which waits for pkexec; whether it worked is not  *)
(* asked.  Then the command is built and its thread started.               *)
Configure ==
    /\ main = "mkconfig"
    /\ main' = "idle"
    /\ \/ file' = [ssid |-> entry, band |-> freq] /\ UNCHANGED denied
       \/ denied' = TRUE /\ UNCHANGED file
    /\ cmdBand' = AnyBand
    /\ \E w \in Worker : Spawn(w, "r_freq")
    /\ UNCHANGED <<reads, crashed, runVars, cmdKill, formVars, viewVars, barVars, inst, conf,
                   announced, overlapped, events, shown>>

on_stop_hp_clicked ==
    /\ User /\ stop
    /\ shown' = labelPid
    /\ \E w \in Worker : Spawn(w, "s_test")
    /\ UNCHANGED <<main, reads, crashed, runVars, cmdVars, formVars, viewVars, barVars,
                   instVars, denied>>

(* on_refresh_clicked tests running_info, then set_connected_devices_label *)
(* reads it for --list-clients.  When that prints nothing (the pkexec is   *)
(* refused, or the pid is not, or no longer, listed) the first node of the *)
(* list has a pointer nobody has set.                                      *)
on_refresh_clicked ==
    /\ User
    /\ running # Null
    /\ main' = "refresh"
    /\ UNCHANGED <<pc, reads, crashed, runVars, cmdVars, formVars, viewVars, barVars,
                   instVars, denied, shown>>

set_connected_devices_label ==
    /\ main = "refresh"
    /\ \/ main' = "idle" /\ UNCHANGED <<pc, reads, crashed>>
       \/ Crash
    /\ UNCHANGED <<runVars, cmdVars, formVars, viewVars, barVars, instVars, pastVars>>

(* update_freq_toggle writes configValues.                                 *)
update_freq_toggle ==
    /\ User
    /\ radio' \in (Band \cup {AnyBand}) \ {radio}
    /\ freq' = radio'
    /\ UNCHANGED <<main, pc, reads, crashed, runVars, cmdVars, entry, viewVars, barVars,
                   instVars, denied, shown>>

EditSsid ==
    /\ User /\ editable
    /\ entry' \in Ssid \ {entry}
    /\ UNCHANGED <<main, pc, reads, crashed, runVars, cmdVars, radio, freq, viewVars, barVars,
                   instVars, denied, shown>>

-----------------------------------------------------------------------------
(* create_ap, as far as the window can tell.                               *)

(* It reads the configuration file; options on the command line win.       *)
Boot(p) ==
    /\ inst[p] = "booting"
    /\ inst' = [inst EXCEPT ![p] = "listed"]
    /\ conf' = [conf EXCEPT ![p].ssid = file.ssid,
                            ![p].band = IF @ = AnyBand THEN file.band ELSE @]
    /\ UNCHANGED <<flowVars, runVars, cmdVars, formVars, viewVars, barVars, file,
                   announced, pastVars>>

(* hostapd prints AP-ENABLED.                                              *)
Enable(p) ==
    /\ inst[p] = "listed"
    /\ inst' = [inst EXCEPT ![p] = "enabled"]
    /\ announced' = announced \cup {p}
    /\ UNCHANGED <<flowVars, runVars, cmdVars, formVars, viewVars, barVars, file, conf,
                   pastVars>>

(* It dies at any moment, or its cleanup after a signal ends: it is no     *)
(* longer listed, and its output is closed a moment later.                 *)
End(p) ==
    /\ inst[p] \in {"booting", "listed", "enabled", "stopping"}
    /\ inst' = [inst EXCEPT ![p] = "gone"]
    /\ conf' = [conf EXCEPT ![p] = Null]
    /\ UNCHANGED <<flowVars, runVars, cmdVars, formVars, viewVars, barVars, file,
                   announced, pastVars>>

-----------------------------------------------------------------------------
Thread(w) == init_running_info(w) \/ stopHp(w) \/ run_create_hp_shell(w)
UserActs == \/ ClickCreate \/ on_stop_hp_clicked \/ on_refresh_clicked
            \/ update_freq_toggle \/ EditSsid
Main == initUi \/ Configure \/ set_connected_devices_label
CreateAp(p) == Boot(p) \/ Enable(p) \/ End(p)

(* Nothing is said of what happens once the program has died.              *)
Next ==
    /\ ~crashed
    /\ \/ \E w \in Worker : Thread(w)
       \/ UserActs
       \/ Main
       \/ \E p \in Instance : CreateAp(p)

(* Threads are scheduled and a pkexec dialog is answered; a signalled      *)
(* instance ends.  Nobody has to click, nor an instance to come up.        *)
Fairness ==
    /\ \A w \in Worker : WF_vars(~crashed /\ Thread(w))
    /\ WF_vars(~crashed /\ Main)
    /\ \A p \in Instance : WF_vars(~crashed /\ inst[p] = "stopping" /\ End(p))

Spec == Init /\ [][Next]_vars
FairSpec == Spec /\ Fairness

-----------------------------------------------------------------------------
TypeOK ==
    /\ main \in {"startup", "idle", "mkconfig", "refresh"}
    /\ pc \in [Worker -> Label]
    /\ reads \in [Worker -> Pid]
    /\ running \in Pid \cup {Freed}
    /\ listing \in Pid
    /\ cmdBand \in Band \cup {AnyBand}
    /\ cmdKill \in Pid
    /\ entry \in Name
    /\ radio \in Band \cup {AnyBand} /\ freq \in Band \cup {AnyBand}
    /\ create \in BOOLEAN /\ stop \in BOOLEAN /\ qr \in BOOLEAN /\ editable \in BOOLEAN
    /\ label \in {"blank", "getting_info", "running_as", "not_running",
                  "stopping_it", "output"}
    /\ labelPid \in Pid
    /\ bar \in BOOLEAN /\ pulse \in BOOLEAN /\ leaked \in BOOLEAN
    /\ file \in Settings
    /\ inst \in [Instance -> Phase]
    /\ conf \in [Instance -> Settings \cup CommandLine \cup {Null}]
    /\ \A p \in Instance : inst[p] \in {"none", "gone"} \/ conf[p] \in Settings \cup CommandLine
    /\ announced \subseteq Instance
    /\ crashed \in BOOLEAN /\ denied \in BOOLEAN /\ overlapped \in BOOLEAN
    /\ events \in 0 .. MaxEvents
    /\ shown \in Pid

(* A progress bar that is shown has a thread that will hide it: whatever   *)
(* the user does meanwhile, it never stays when all the work is done       *)
(* (start_pb_pulse and stop_pb_pulse, called by different threads).        *)
WillHide == InfoLabel \cup {"s_build", "s_shell", "r_read"}
BarHasOwner == bar => \E w \in Worker : pc[w] \in WillHide

(* A user who waits until the window has finished sees one state: Create   *)
(* is offered exactly when no pid is known, Stop and the QR code exactly   *)
(* when one is, and the status line names that pid.                        *)
Agree ==
    /\ create = (running = Null) /\ editable = create
    /\ stop = ~create /\ qr = ~create
    /\ labelPid = running
    /\ label = (IF create THEN "not_running" ELSE "running_as")
ViewsAgree == Quiet /\ ~overlapped => Agree

(* The window never says "not_running" beside a hotspot that is up.        *)
Up == {"listed", "enabled", "stopping"}
NoneUp == \A p \in Instance : inst[p] \notin Up
NotRunningMeansNone == Quiet /\ ~overlapped /\ ~denied /\ running = Null => NoneUp

(* No timer goes on pulsing a hidden bar: pb_pulse_id is not overwritten   *)
(* while the timer it names exists.                                        *)
TimersRemoved == ~overlapped => ~leaked /\ (Quiet => ~pulse)

(* The pid that is signalled is the one the user saw when he clicked Stop, *)
(* although running_info is read twice after that.                         *)
StopHitsShown == ~overlapped => \A w \in Worker : pc[w] = "s_shell" => cmdKill = shown

(* A hotspot the window has started runs with the name and the band the    *)
(* form showed at the click, and still shows when nobody touched it: the   *)
(* file that was written, the band the thread appended and the file that   *)
(* create_ap reads belong together.                                        *)
StartedAsAsked ==
    ~overlapped /\ ~denied => \A w \in Worker :
        pc[w] = "r_read" /\ inst[reads[w]] \in Live
            => conf[reads[w]] = [ssid |-> entry, band |-> radio]

(* generate_qr_image is given configValues.ssid, which is the text of the  *)
(* entry: the code that is shown is of the hotspot that is running.        *)
QrShowsRunning ==
    Quiet /\ ~overlapped /\ ~denied =>
        \A w \in Worker : pc[w] = "r_close" /\ running = reads[w] /\ inst[running] # "gone"
                             => entry = conf[running].ssid

(* But for Refresh, which dies of an empty answer by itself, undefined     *)
(* behaviour needs a user who acts while a thread is at work: running_info *)
(* and configValues.freq are read twice by threads that share them with    *)
(* others, under no lock (ui.c:134-142, 707-735 and 750-752).                 *)
CrashNeedsOverlap == crashed => overlapped \/ main = "refresh"

(* Locked buttons are unlocked and the bar goes away, unless an instance is *)
(* still on its way up: threads that take turns in locking, listing and    *)
(* unlocking leave a window that can be used.                              *)
WindowSettles ==
    [](bar \/ (~create /\ ~stop) =>
        <>(\/ ~bar /\ (create \/ stop)
           \/ crashed
           \/ \E w \in Worker : pc[w] = "r_read" /\ inst[reads[w]] \in {"booting", "listed"}))

-----------------------------------------------------------------------------
(* What makes these inductive.                                             *)

(* Until the user overlaps a thread at most one is at work, and none while *)
(* the main thread is inside a handler.                                    *)
OneAtWork ==
    ~overlapped =>
        /\ \A v, w \in Worker : Active(v) /\ Active(w) => v = w
        /\ main \in {"mkconfig", "refresh"} => ~Busy

(* A thread reads an instance from its start to its end.                   *)
ReadersRead ==
    \A w \in Worker :
        /\ pc[w] \in {"r_read", "r_close"} => reads[w] \in Instance
        /\ reads[w] # Null => pc[w] \in InfoLabel \cup {"r_read", "r_close"}
        /\ reads[w] # Null /\ pc[w] # "r_read" => reads[w] \in announced
StartingIsRead ==
    \A p \in Instance :
        /\ inst[p] \in {"booting", "listed"} =>
             \E w \in Worker : pc[w] = "r_read" /\ reads[w] = p
        /\ p \in announced => inst[p] \in {"enabled", "stopping", "gone"}

(* The pointer dangles only between the two assignments.                   *)
FreedIsReset == ~overlapped /\ running = Freed => \E w \in Worker : pc[w] = "i_null"

TimerHasOwner == pulse = bar /\ (~overlapped => ~leaked)

(* The views while a thread is on its way: untouched, or as far as it has  *)
(* brought them.                                                           *)
UntouchedLabel == {"free", "r_close", "i_hide", "s_test", "r_freq", "r_append", "r_popen"}
Untouched == \A w \in Worker : pc[w] \in UntouchedLabel
ViewsFollow ==
    ~overlapped =>
        /\ Untouched => Agree
        /\ \A w \in Worker :
             /\ pc[w] \in {"i_list", "i_read", "i_parse", "i_off"} => running = Null
             /\ pc[w] \in {"i_on", "i_on2"} =>
                    running # Null /\ labelPid = running /\ label = "running_as"
             /\ pc[w] = "i_off" => labelPid = Null /\ label = "not_running"
StopFollows ==
    ~overlapped => \A w \in Worker :
        /\ pc[w] \in {"s_test", "s_lock", "s_build"} => running = shown
        /\ pc[w] = "s_shell" => cmdKill = shown

(* Before the form is loaded only the first listing is under way.          *)
StartupLists ==
    main = "startup" => \A w \in Worker : pc[w] \in {"free"} \cup InfoLabel /\ reads[w] = Null

(* Once a listing was empty nothing comes up before the next Create.       *)
ListingHolds ==
    ~overlapped /\ ~denied =>
        /\ Untouched /\ running = Null => NoneUp
        /\ \A w \in Worker :
             /\ pc[w] = "i_parse" /\ listing = Null => NoneUp
             /\ pc[w] \in {"i_test", "i_on", "i_on2", "i_off"} /\ running = Null => NoneUp

(* The band that is appended is still the one that was tested.             *)
BandFollows ==
    \A w \in Worker : /\ main = "startup" => pc[w] \notin {"r_freq", "r_append"}
                      /\ ~overlapped /\ pc[w] = "r_append" => freq # AnyBand

(* How the form reaches the instance.                                      *)
FormFollows ==
    ~overlapped =>
        /\ main = "mkconfig" => freq = radio
        /\ \A w \in Worker :
             /\ pc[w] \in RunLabel \ {"r_close"} => freq = radio
             /\ pc[w] \in {"r_freq", "r_append"} => cmdBand = AnyBand
             /\ pc[w] = "r_popen" => cmdBand = freq
             /\ pc[w] = "r_read" => inst[reads[w]] # "stopping"
             /\ pc[w] = "r_read" /\ inst[reads[w]] = "booting"
                   => conf[reads[w]] = [ssid |-> Null, band |-> radio]
FileFollows ==
    ~overlapped /\ ~denied => \A w \in Worker :
        /\ pc[w] \in RunLabel \ {"r_close"} => file = [ssid |-> entry, band |-> radio]
        /\ pc[w] = "r_read" /\ inst[reads[w]] \in Live
              => conf[reads[w]] = [ssid |-> entry, band |-> radio]
        /\ reads[w] \in announced /\ inst[reads[w]] # "gone" => conf[reads[w]].ssid = entry

WindowInv ==
    /\ TypeOK /\ BarHasOwner /\ CrashNeedsOverlap
    /\ OneAtWork /\ FreedIsReset /\ BandFollows /\ TimerHasOwner
    /\ ViewsFollow /\ StopFollows

(* And what ties the window to the instances.                              *)
HotspotInv == /\ WindowInv
              /\ ReadersRead /\ StartingIsRead /\ StartupLists
              /\ ListingHolds /\ FormFollows /\ FileFollows

=============================================================================
