----------------------- MODULE HotspotSession_proofs -----------------------
(***************************************************************************)
(* WindowInv of HotspotSession is an invariant for every set of threads,        *)
(* instances, names and bands.                                             *)
(***************************************************************************)
EXTENDS HotspotSession, TLAPS

(* The first state: nothing is known, one thread asks what is running.     *)
LEMMA InitEstablishes == Init => WindowInv
  <1> SUFFICES ASSUME Init PROVE WindowInv
    OBVIOUS
  <1> USE NullAssumption, FreedAssumption, OutsideAssumption, AnyBandAssumption,
          ShippedAssumption, MaxEventsAssumption DEF Init
  <1>0. PICK u \in Worker : pc = [v \in Worker |-> IF v = u THEN "i_free" ELSE "free"]
    OBVIOUS
  <1>1. TypeOK
    <2>1. pc \in [Worker -> Label]
      BY <1>0 DEF Label, InfoLabel
    <2>2. file \in Settings /\ entry \in Name
      BY DEF Settings, Name
    <2>3. inst \in [Instance -> Phase]
      BY DEF Phase
    <2>4. conf \in [Instance -> Settings \cup CommandLine \cup {Null}]
      BY <2>2
    <2>5. announced \subseteq Instance
      OBVIOUS
    <2>6. events \in 0 .. MaxEvents
      OBVIOUS
    <2> QED
      BY <2>1, <2>2, <2>3, <2>4, <2>5, <2>6 DEF TypeOK, Pid
  <1>2. BarHasOwner /\ CrashNeedsOverlap /\ OneAtWork /\ FreedIsReset /\ TimerHasOwner
    BY <1>0 DEF BarHasOwner, CrashNeedsOverlap, OneAtWork, FreedIsReset, TimerHasOwner,
                Active, WillHide, InfoLabel
  <1>3. BandFollows /\ StopFollows
    BY <1>0 DEF BandFollows, StopFollows
  <1>4. ViewsFollow
    BY <1>0 DEF ViewsFollow, Untouched, UntouchedLabel
  <1> QED
    BY <1>1, <1>2, <1>3, <1>4 DEF WindowInv

-----------------------------------------------------------------------------
(* Every step keeps every variable within its type.                        *)
LEMMA StepKeepsTypes == ASSUME TypeOK, [Next]_vars PROVE TypeOK'
  <1> USE NullAssumption, FreedAssumption, AnyBandAssumption, MaxEventsAssumption
  <1> USE DEF TypeOK, Step, At, Goto, Crash, flowVars, runVars, cmdVars, formVars, viewVars,
          barVars, instVars, pastVars, Pid, Label, InfoLabel, StopLabel, RunLabel, Says
  <1>1. ASSUME NEW w \in Worker, init_running_info(w) PROVE TypeOK'
    <2>1. CASE FreeInfo(w)
      <3>1. pc' \in [Worker -> Label]
        BY <2>1 DEF FreeInfo
      <3>2. crashed' \in BOOLEAN
        BY <2>1 DEF FreeInfo
      <3>3. running' \in Pid \cup {Freed}
        BY <2>1 DEF FreeInfo
      <3> QED
        BY <2>1, <3>1, <3>2, <3>3 DEF FreeInfo
    <2>2. CASE ResetInfo(w)
      BY <2>2 DEF ResetInfo, lock_all_views
    <2>3. CASE StartListing(w)
      BY <2>3 DEF StartListing
    <2>4. CASE ReadListing(w)
      BY <2>4 DEF ReadListing, Listed
    <2>5. CASE ListingFails(w)
      BY <2>5 DEF ListingFails
    <2>6. CASE get_h_running_info(w)
      BY <2>6 DEF get_h_running_info
    <2>7. CASE ShowRunning(w)
      <3>1. pc' \in [Worker -> Label]
        BY <2>7 DEF ShowRunning
      <3>2. crashed' \in BOOLEAN
        BY <2>7 DEF ShowRunning
      <3>3. labelPid' \in Pid
        BY <2>7 DEF ShowRunning
      <3>4. label' \in {label, "running_as"}
        BY <2>7 DEF ShowRunning
      <3> QED
        BY <2>7, <3>1, <3>2, <3>3, <3>4 DEF ShowRunning
    <2>8. CASE ShowStopped(w)
      BY <2>8 DEF ShowStopped
    <2>9. CASE UnlockAll(w)
      BY <2>9 DEF UnlockAll, lock_all_views
    <2>10. CASE SetViews(w)
      <3>1. pc' \in [Worker -> Label]
        BY <2>10 DEF SetViews, lock_running_views
      <3>2. create' \in BOOLEAN /\ stop' \in BOOLEAN
        BY <2>10 DEF SetViews, lock_running_views
      <3>3. qr' \in BOOLEAN /\ editable' \in BOOLEAN
        BY <2>10 DEF SetViews, lock_running_views
      <3> QED
        BY <2>10, <3>1, <3>2, <3>3 DEF SetViews, lock_running_views
    <2>11. CASE stop_pb_pulse(w)
      <3>1. pc' \in [Worker -> Label]
        BY <2>11 DEF stop_pb_pulse
      <3>2. pulse' \in BOOLEAN /\ bar' \in BOOLEAN
        BY <2>11 DEF stop_pb_pulse
      <3> QED
        BY <2>11, <3>1, <3>2 DEF stop_pb_pulse
    <2> QED
      BY <1>1, <2>1, <2>2, <2>3, <2>4, <2>5, <2>6, <2>7, <2>8, <2>9, <2>10, <2>11 DEF
          init_running_info
  <1>2. ASSUME NEW w \in Worker, stopHp(w) PROVE TypeOK'
    <2>1. CASE StopTest(w)
      BY <2>1 DEF StopTest
    <2>2. CASE StopLock(w)
      BY <2>2 DEF StopLock, lock_all_views, start_pb_pulse
    <2>3. CASE StopBuild(w)
      <3>1. pc' \in [Worker -> Label]
        BY <2>3 DEF StopBuild
      <3>2. crashed' \in BOOLEAN
        BY <2>3 DEF StopBuild
      <3>3. cmdKill' \in Pid
        BY <2>3 DEF StopBuild
      <3> QED
        BY <2>3, <3>1, <3>2, <3>3 DEF StopBuild
    <2>4. CASE send_stop(w)
      <3>1. inst' \in [Instance -> Phase]
        BY <2>4 DEF send_stop, Phase
      <3>2. \A p \in Instance : inst'[p] = inst[p] \/ inst[p] \in Live
        BY <2>4 DEF send_stop
      <3>3. \A p \in Instance : inst'[p] \in {"none", "gone"}
                                  \/ conf'[p] \in Settings \cup CommandLine
        BY <2>4, <3>2 DEF send_stop, Live
      <3> QED
        BY <2>4, <3>1, <3>3 DEF send_stop
    <2>5. CASE StopRefused(w)
      BY <2>5 DEF StopRefused
    <2> QED
      BY <1>2, <2>1, <2>2, <2>3, <2>4, <2>5 DEF stopHp
  <1>3. ASSUME NEW w \in Worker, run_create_hp_shell(w) PROVE TypeOK'
    <2>1. CASE RunFreq(w)
      BY <2>1 DEF RunFreq
    <2>2. CASE RunAppend(w)
      <3>1. pc' \in [Worker -> Label]
        BY <2>2 DEF RunAppend
      <3>2. crashed' \in BOOLEAN
        BY <2>2 DEF RunAppend
      <3>3. cmdBand' \in Band \cup {AnyBand}
        BY <2>2 DEF RunAppend
      <3>4. main' = main /\ reads' = reads
        BY <2>2 DEF RunAppend
      <3>5. UNCHANGED <<cmdKill, runVars, formVars, viewVars, barVars, instVars, pastVars>>
        BY <2>2 DEF RunAppend
      <3> QED
        BY <3>1, <3>2, <3>3, <3>4, <3>5
    <2>3. CASE RunPopen(w)
      BY <2>3 DEF RunPopen, start_pb_pulse, CommandLine, Phase
    <2>4. CASE PopenFails(w)
      BY <2>4 DEF PopenFails
    <2>5. CASE RunEnabled(w)
      BY <2>5 DEF RunEnabled
    <2>6. CASE RunEnded(w)
      BY <2>6 DEF RunEnded
    <2>7. CASE RunClose(w)
      BY <2>7 DEF RunClose
    <2> QED
      BY <1>3, <2>1, <2>2, <2>3, <2>4, <2>5, <2>6, <2>7 DEF run_create_hp_shell
  <1>4. ASSUME UserActs PROVE TypeOK'
    <2>1. CASE ClickCreate
      BY <2>1 DEF ClickCreate, User
    <2>2. CASE on_stop_hp_clicked
      BY <2>2 DEF on_stop_hp_clicked, Spawn, User
    <2>3. CASE on_refresh_clicked
      BY <2>3 DEF on_refresh_clicked, User
    <2>4. CASE update_freq_toggle
      BY <2>4 DEF update_freq_toggle, User
    <2>5. CASE EditSsid
      BY <2>5 DEF EditSsid, User, Name
    <2> QED
      BY <1>4, <2>1, <2>2, <2>3, <2>4, <2>5 DEF UserActs
  <1>5. ASSUME Main PROVE TypeOK'
    <2>1. CASE initUi
      BY <2>1 DEF initUi, Settings
    <2>2. CASE Configure
      <3>1. file' \in Settings /\ denied' \in BOOLEAN
        <4>1. [ssid |-> entry, band |-> freq] \in Settings
          BY DEF Settings
        <4> QED
          BY <2>2, <4>1 DEF Configure
      <3>2. pc' \in [Worker -> Label]
        BY <2>2 DEF Configure, Spawn
      <3> QED
        BY <2>2, <3>1, <3>2 DEF Configure
    <2>3. CASE set_connected_devices_label
      <3>1. main' \in {main, "idle"}
        BY <2>3 DEF set_connected_devices_label
      <3>2. crashed' \in BOOLEAN
        BY <2>3 DEF set_connected_devices_label
      <3> QED
        BY <2>3, <3>1, <3>2 DEF set_connected_devices_label
    <2> QED
      BY <1>5, <2>1, <2>2, <2>3 DEF Main
  <1>6. ASSUME NEW p \in Instance, CreateAp(p) PROVE TypeOK'
    <2>1. CASE Boot(p)
      <3>1. conf[p] \in Settings \cup CommandLine
        BY <2>1 DEF Boot
      <3>2. conf'[p] \in Settings
        BY <2>1, <3>1 DEF Boot, Settings, CommandLine, Name
      <3>3. \A q \in Instance \ {p} : conf'[q] = conf[q] /\ inst'[q] = inst[q]
        BY <2>1 DEF Boot
      <3>4. conf' \in [Instance -> Settings \cup CommandLine \cup {Null}]
        BY <2>1, <3>2, <3>3 DEF Boot
      <3>5. inst' \in [Instance -> Phase]
        BY <2>1 DEF Boot, Phase
      <3> QED
        BY <2>1, <3>2, <3>3, <3>4, <3>5 DEF Boot
    <2>2. CASE Enable(p)
      BY <2>2 DEF Enable, Phase
    <2>3. CASE End(p)
      BY <2>3 DEF End, Phase
    <2> QED
      BY <1>6, <2>1, <2>2, <2>3 DEF CreateAp
  <1>7. CASE UNCHANGED vars
    BY <1>7 DEF vars
  <1> QED
    BY <1>1, <1>2, <1>3, <1>4, <1>5, <1>6, <1>7 DEF Next, Thread

-----------------------------------------------------------------------------
(* Threads and the main thread keep out of each other's program counters. *)
LEMMA ThreadMoves ==
  ASSUME TypeOK, NEW w \in Worker, Thread(w)
  PROVE  /\ main' = main /\ overlapped' = overlapped
         /\ \A v \in Worker \ {w} : pc'[v] = pc[v] /\ reads'[v] = reads[v]
         /\ pc[w] = "free" => FALSE
         /\ pc[w] = "r_close" => pc'[w] = "free"
  <1> USE DEF TypeOK, Step, At, Goto, Crash, pastVars
  <1>1. CASE init_running_info(w)
    <2>1. CASE FreeInfo(w)
      BY <2>1 DEF FreeInfo
    <2>2. CASE ResetInfo(w)
      BY <2>2 DEF ResetInfo, lock_all_views
    <2>3. CASE StartListing(w)
      BY <2>3 DEF StartListing
    <2>4. CASE ReadListing(w)
      BY <2>4 DEF ReadListing, Listed
    <2>5. CASE ListingFails(w)
      BY <2>5 DEF ListingFails
    <2>6. CASE get_h_running_info(w)
      BY <2>6 DEF get_h_running_info
    <2>7. CASE ShowRunning(w)
      BY <2>7 DEF ShowRunning
    <2>8. CASE ShowStopped(w)
      BY <2>8 DEF ShowStopped
    <2>9. CASE UnlockAll(w)
      BY <2>9 DEF UnlockAll, lock_all_views
    <2>10. CASE SetViews(w)
      BY <2>10 DEF SetViews, lock_running_views
    <2>11. CASE stop_pb_pulse(w)
      BY <2>11 DEF stop_pb_pulse
    <2> QED
      BY <1>1, <2>1, <2>2, <2>3, <2>4, <2>5, <2>6, <2>7, <2>8, <2>9, <2>10, <2>11 DEF
          init_running_info
  <1>2. CASE stopHp(w)
    <2>1. CASE StopTest(w)
      BY <2>1 DEF StopTest
    <2>2. CASE StopLock(w)
      BY <2>2 DEF StopLock, lock_all_views, start_pb_pulse
    <2>3. CASE StopBuild(w)
      BY <2>3 DEF StopBuild
    <2>4. CASE send_stop(w)
      BY <2>4 DEF send_stop
    <2>5. CASE StopRefused(w)
      BY <2>5 DEF StopRefused
    <2> QED
      BY <1>2, <2>1, <2>2, <2>3, <2>4, <2>5 DEF stopHp
  <1>3. CASE run_create_hp_shell(w)
    <2>1. CASE RunFreq(w)
      BY <2>1 DEF RunFreq
    <2>2. CASE RunAppend(w)
      BY <2>2 DEF RunAppend
    <2>3. CASE RunPopen(w)
      BY <2>3 DEF RunPopen, start_pb_pulse
    <2>4. CASE PopenFails(w)
      BY <2>4 DEF PopenFails
    <2>5. CASE RunEnabled(w)
      BY <2>5 DEF RunEnabled
    <2>6. CASE RunEnded(w)
      BY <2>6 DEF RunEnded
    <2>7. CASE RunClose(w)
      BY <2>7 DEF RunClose
    <2> QED
      BY <1>3, <2>1, <2>2, <2>3, <2>4, <2>5, <2>6, <2>7 DEF run_create_hp_shell
  <1> QED
    BY <1>1, <1>2, <1>3 DEF Thread

(* A thread that hides the bar does so before it does anything else.       *)
LEMMA BarLeft ==
  ASSUME pc \in [Worker -> Label], NEW w \in Worker, Thread(w), bar', pc[w] \in WillHide
  PROVE  pc'[w] \in WillHide
  <1> USE DEF Step, At, Goto, Crash, WillHide, InfoLabel
  <1>1. CASE init_running_info(w)
    <2>1. CASE FreeInfo(w)
      BY <2>1 DEF FreeInfo
    <2>2. CASE ResetInfo(w)
      BY <2>2 DEF ResetInfo, lock_all_views
    <2>3. CASE StartListing(w)
      BY <2>3 DEF StartListing
    <2>4. CASE ReadListing(w)
      BY <2>4 DEF ReadListing, Listed
    <2>5. CASE ListingFails(w)
      BY <2>5 DEF ListingFails
    <2>6. CASE get_h_running_info(w)
      BY <2>6 DEF get_h_running_info
    <2>7. CASE ShowRunning(w)
      BY <2>7 DEF ShowRunning
    <2>8. CASE ShowStopped(w)
      BY <2>8 DEF ShowStopped
    <2>9. CASE UnlockAll(w)
      BY <2>9 DEF UnlockAll, lock_all_views
    <2>10. CASE SetViews(w)
      BY <2>10 DEF SetViews, lock_running_views
    <2>11. CASE stop_pb_pulse(w)
      BY <2>11 DEF stop_pb_pulse
    <2> QED
      BY <1>1, <2>1, <2>2, <2>3, <2>4, <2>5, <2>6, <2>7, <2>8, <2>9, <2>10, <2>11 DEF
          init_running_info
  <1>2. CASE stopHp(w)
    <2>1. CASE StopTest(w)
      BY <2>1 DEF StopTest
    <2>2. CASE StopLock(w)
      BY <2>2 DEF StopLock, lock_all_views, start_pb_pulse
    <2>3. CASE StopBuild(w)
      BY <2>3 DEF StopBuild
    <2>4. CASE send_stop(w)
      BY <2>4 DEF send_stop
    <2>5. CASE StopRefused(w)
      BY <2>5 DEF StopRefused
    <2> QED
      BY <1>2, <2>1, <2>2, <2>3, <2>4, <2>5 DEF stopHp
  <1>3. CASE run_create_hp_shell(w)
    <2>1. CASE RunFreq(w)
      BY <2>1 DEF RunFreq
    <2>2. CASE RunAppend(w)
      BY <2>2 DEF RunAppend
    <2>3. CASE RunPopen(w)
      BY <2>3 DEF RunPopen, start_pb_pulse
    <2>4. CASE PopenFails(w)
      BY <2>4 DEF PopenFails
    <2>5. CASE RunEnabled(w)
      BY <2>5 DEF RunEnabled
    <2>6. CASE RunEnded(w)
      BY <2>6 DEF RunEnded
    <2>7. CASE RunClose(w)
      BY <2>7 DEF RunClose
    <2> QED
      BY <1>3, <2>1, <2>2, <2>3, <2>4, <2>5, <2>6, <2>7 DEF run_create_hp_shell
  <1> QED
    BY <1>1, <1>2, <1>3 DEF Thread

(* Who shows it is then one that hides it.                                 *)
LEMMA BarTaken ==
  ASSUME pc \in [Worker -> Label], NEW w \in Worker, Thread(w), bar', ~bar
  PROVE  pc'[w] \in WillHide
  <1> USE DEF Step, At, Goto, Crash, barVars, WillHide, InfoLabel
  <1>1. CASE init_running_info(w)
    <2>1. CASE FreeInfo(w)
      BY <2>1 DEF FreeInfo
    <2>2. CASE ResetInfo(w)
      BY <2>2 DEF ResetInfo, lock_all_views
    <2>3. CASE StartListing(w)
      BY <2>3 DEF StartListing
    <2>4. CASE ReadListing(w)
      BY <2>4 DEF ReadListing, Listed
    <2>5. CASE ListingFails(w)
      BY <2>5 DEF ListingFails
    <2>6. CASE get_h_running_info(w)
      BY <2>6 DEF get_h_running_info
    <2>7. CASE ShowRunning(w)
      BY <2>7 DEF ShowRunning
    <2>8. CASE ShowStopped(w)
      BY <2>8 DEF ShowStopped
    <2>9. CASE UnlockAll(w)
      BY <2>9 DEF UnlockAll, lock_all_views
    <2>10. CASE SetViews(w)
      BY <2>10 DEF SetViews, lock_running_views
    <2>11. CASE stop_pb_pulse(w)
      BY <2>11 DEF stop_pb_pulse
    <2> QED
      BY <1>1, <2>1, <2>2, <2>3, <2>4, <2>5, <2>6, <2>7, <2>8, <2>9, <2>10, <2>11 DEF
          init_running_info
  <1>2. CASE stopHp(w)
    <2>1. CASE StopTest(w)
      BY <2>1 DEF StopTest
    <2>2. CASE StopLock(w)
      BY <2>2 DEF StopLock, lock_all_views, start_pb_pulse
    <2>3. CASE StopBuild(w)
      BY <2>3 DEF StopBuild
    <2>4. CASE send_stop(w)
      BY <2>4 DEF send_stop
    <2>5. CASE StopRefused(w)
      BY <2>5 DEF StopRefused
    <2> QED
      BY <1>2, <2>1, <2>2, <2>3, <2>4, <2>5 DEF stopHp
  <1>3. CASE run_create_hp_shell(w)
    <2>1. CASE RunFreq(w)
      BY <2>1 DEF RunFreq
    <2>2. CASE RunAppend(w)
      BY <2>2 DEF RunAppend
    <2>3. CASE RunPopen(w)
      BY <2>3 DEF RunPopen, start_pb_pulse
    <2>4. CASE PopenFails(w)
      BY <2>4 DEF PopenFails
    <2>5. CASE RunEnabled(w)
      BY <2>5 DEF RunEnabled
    <2>6. CASE RunEnded(w)
      BY <2>6 DEF RunEnded
    <2>7. CASE RunClose(w)
      BY <2>7 DEF RunClose
    <2> QED
      BY <1>3, <2>1, <2>2, <2>3, <2>4, <2>5, <2>6, <2>7 DEF run_create_hp_shell
  <1> QED
    BY <1>1, <1>2, <1>3 DEF Thread

(* The timer comes and goes with the bar.                                  *)
LEMMA TimerTaken ==
  ASSUME pc \in [Worker -> Label], NEW w \in Worker, Thread(w), pulse = bar
  PROVE  pulse' = bar'
  <1> USE DEF Step, At, Goto, Crash, barVars
  <1>1. CASE init_running_info(w)
    <2>1. CASE FreeInfo(w)
      BY <2>1 DEF FreeInfo
    <2>2. CASE ResetInfo(w)
      BY <2>2 DEF ResetInfo, lock_all_views
    <2>3. CASE StartListing(w)
      BY <2>3 DEF StartListing
    <2>4. CASE ReadListing(w)
      BY <2>4 DEF ReadListing, Listed
    <2>5. CASE ListingFails(w)
      BY <2>5 DEF ListingFails
    <2>6. CASE get_h_running_info(w)
      BY <2>6 DEF get_h_running_info
    <2>7. CASE ShowRunning(w)
      BY <2>7 DEF ShowRunning
    <2>8. CASE ShowStopped(w)
      BY <2>8 DEF ShowStopped
    <2>9. CASE UnlockAll(w)
      BY <2>9 DEF UnlockAll, lock_all_views
    <2>10. CASE SetViews(w)
      BY <2>10 DEF SetViews, lock_running_views
    <2>11. CASE stop_pb_pulse(w)
      BY <2>11 DEF stop_pb_pulse
    <2> QED
      BY <1>1, <2>1, <2>2, <2>3, <2>4, <2>5, <2>6, <2>7, <2>8, <2>9, <2>10, <2>11 DEF
          init_running_info
  <1>2. CASE stopHp(w)
    <2>1. CASE StopTest(w)
      BY <2>1 DEF StopTest
    <2>2. CASE StopLock(w)
      BY <2>2 DEF StopLock, lock_all_views, start_pb_pulse
    <2>3. CASE StopBuild(w)
      BY <2>3 DEF StopBuild
    <2>4. CASE send_stop(w)
      BY <2>4 DEF send_stop
    <2>5. CASE StopRefused(w)
      BY <2>5 DEF StopRefused
    <2> QED
      BY <1>2, <2>1, <2>2, <2>3, <2>4, <2>5 DEF stopHp
  <1>3. CASE run_create_hp_shell(w)
    <2>1. CASE RunFreq(w)
      BY <2>1 DEF RunFreq
    <2>2. CASE RunAppend(w)
      BY <2>2 DEF RunAppend
    <2>3. CASE RunPopen(w)
      BY <2>3 DEF RunPopen, start_pb_pulse
    <2>4. CASE PopenFails(w)
      BY <2>4 DEF PopenFails
    <2>5. CASE RunEnabled(w)
      BY <2>5 DEF RunEnabled
    <2>6. CASE RunEnded(w)
      BY <2>6 DEF RunEnded
    <2>7. CASE RunClose(w)
      BY <2>7 DEF RunClose
    <2> QED
      BY <1>3, <2>1, <2>2, <2>3, <2>4, <2>5, <2>6, <2>7 DEF run_create_hp_shell
  <1> QED
    BY <1>1, <1>2, <1>3 DEF Thread

(* An id is overwritten where a bar is shown.                              *)
LEMMA TimerLost ==
  ASSUME pc \in [Worker -> Label], NEW w \in Worker, Thread(w), leaked', ~leaked
  PROVE  pulse /\ pc[w] \in {"s_lock", "r_popen"}
  <1> USE DEF Step, At, Goto, Crash, barVars
  <1>1. CASE init_running_info(w)
    <2>1. CASE FreeInfo(w)
      BY <2>1 DEF FreeInfo
    <2>2. CASE ResetInfo(w)
      BY <2>2 DEF ResetInfo, lock_all_views
    <2>3. CASE StartListing(w)
      BY <2>3 DEF StartListing
    <2>4. CASE ReadListing(w)
      BY <2>4 DEF ReadListing, Listed
    <2>5. CASE ListingFails(w)
      BY <2>5 DEF ListingFails
    <2>6. CASE get_h_running_info(w)
      BY <2>6 DEF get_h_running_info
    <2>7. CASE ShowRunning(w)
      BY <2>7 DEF ShowRunning
    <2>8. CASE ShowStopped(w)
      BY <2>8 DEF ShowStopped
    <2>9. CASE UnlockAll(w)
      BY <2>9 DEF UnlockAll, lock_all_views
    <2>10. CASE SetViews(w)
      BY <2>10 DEF SetViews, lock_running_views
    <2>11. CASE stop_pb_pulse(w)
      BY <2>11 DEF stop_pb_pulse
    <2> QED
      BY <1>1, <2>1, <2>2, <2>3, <2>4, <2>5, <2>6, <2>7, <2>8, <2>9, <2>10, <2>11 DEF
          init_running_info
  <1>2. CASE stopHp(w)
    <2>1. CASE StopTest(w)
      BY <2>1 DEF StopTest
    <2>2. CASE StopLock(w)
      BY <2>2 DEF StopLock, lock_all_views, start_pb_pulse
    <2>3. CASE StopBuild(w)
      BY <2>3 DEF StopBuild
    <2>4. CASE send_stop(w)
      BY <2>4 DEF send_stop
    <2>5. CASE StopRefused(w)
      BY <2>5 DEF StopRefused
    <2> QED
      BY <1>2, <2>1, <2>2, <2>3, <2>4, <2>5 DEF stopHp
  <1>3. CASE run_create_hp_shell(w)
    <2>1. CASE RunFreq(w)
      BY <2>1 DEF RunFreq
    <2>2. CASE RunAppend(w)
      BY <2>2 DEF RunAppend
    <2>3. CASE RunPopen(w)
      BY <2>3 DEF RunPopen, start_pb_pulse
    <2>4. CASE PopenFails(w)
      BY <2>4 DEF PopenFails
    <2>5. CASE RunEnabled(w)
      BY <2>5 DEF RunEnabled
    <2>6. CASE RunEnded(w)
      BY <2>6 DEF RunEnded
    <2>7. CASE RunClose(w)
      BY <2>7 DEF RunClose
    <2> QED
      BY <1>3, <2>1, <2>2, <2>3, <2>4, <2>5, <2>6, <2>7 DEF run_create_hp_shell
  <1> QED
    BY <1>1, <1>2, <1>3 DEF Thread

(* A dangling pointer is a thread's own.                                   *)
LEMMA PointerFreed ==
  ASSUME pc \in [Worker -> Label], NEW w \in Worker, Thread(w), listing \in Pid, running' = Freed, pc'[w] # "i_null"
  PROVE  running = Freed /\ pc[w] # "i_null"
  <1> USE DEF Step, At, Goto, Crash, Pid, runVars
  <1>1. CASE init_running_info(w)
    <2>1. CASE FreeInfo(w)
      BY <2>1, NullAssumption, FreedAssumption DEF FreeInfo
    <2>2. CASE ResetInfo(w)
      BY <2>2, NullAssumption, FreedAssumption DEF ResetInfo, lock_all_views
    <2>3. CASE StartListing(w)
      BY <2>3, NullAssumption, FreedAssumption DEF StartListing
    <2>4. CASE ReadListing(w)
      BY <2>4, NullAssumption, FreedAssumption DEF ReadListing, Listed
    <2>5. CASE ListingFails(w)
      BY <2>5, NullAssumption, FreedAssumption DEF ListingFails
    <2>6. CASE get_h_running_info(w)
      BY <2>6, NullAssumption, FreedAssumption DEF get_h_running_info
    <2>7. CASE ShowRunning(w)
      BY <2>7, NullAssumption, FreedAssumption DEF ShowRunning
    <2>8. CASE ShowStopped(w)
      BY <2>8, NullAssumption, FreedAssumption DEF ShowStopped
    <2>9. CASE UnlockAll(w)
      BY <2>9, NullAssumption, FreedAssumption DEF UnlockAll, lock_all_views
    <2>10. CASE SetViews(w)
      BY <2>10, NullAssumption, FreedAssumption DEF SetViews, lock_running_views
    <2>11. CASE stop_pb_pulse(w)
      BY <2>11, NullAssumption, FreedAssumption DEF stop_pb_pulse
    <2> QED
      BY <1>1, <2>1, <2>2, <2>3, <2>4, <2>5, <2>6, <2>7, <2>8, <2>9, <2>10, <2>11 DEF
          init_running_info
  <1>2. CASE stopHp(w)
    <2>1. CASE StopTest(w)
      BY <2>1, NullAssumption, FreedAssumption DEF StopTest
    <2>2. CASE StopLock(w)
      BY <2>2, NullAssumption, FreedAssumption DEF StopLock, lock_all_views, start_pb_pulse
    <2>3. CASE StopBuild(w)
      BY <2>3, NullAssumption, FreedAssumption DEF StopBuild
    <2>4. CASE send_stop(w)
      BY <2>4, NullAssumption, FreedAssumption DEF send_stop
    <2>5. CASE StopRefused(w)
      BY <2>5, NullAssumption, FreedAssumption DEF StopRefused
    <2> QED
      BY <1>2, <2>1, <2>2, <2>3, <2>4, <2>5 DEF stopHp
  <1>3. CASE run_create_hp_shell(w)
    <2>1. CASE RunFreq(w)
      BY <2>1, NullAssumption, FreedAssumption DEF RunFreq
    <2>2. CASE RunAppend(w)
      BY <2>2, NullAssumption, FreedAssumption DEF RunAppend
    <2>3. CASE RunPopen(w)
      BY <2>3, NullAssumption, FreedAssumption DEF RunPopen, start_pb_pulse
    <2>4. CASE PopenFails(w)
      BY <2>4, NullAssumption, FreedAssumption DEF PopenFails
    <2>5. CASE RunEnabled(w)
      BY <2>5, NullAssumption, FreedAssumption DEF RunEnabled
    <2>6. CASE RunEnded(w)
      BY <2>6, NullAssumption, FreedAssumption DEF RunEnded
    <2>7. CASE RunClose(w)
      BY <2>7, NullAssumption, FreedAssumption DEF RunClose
    <2> QED
      BY <1>3, <2>1, <2>2, <2>3, <2>4, <2>5, <2>6, <2>7 DEF run_create_hp_shell
  <1> QED
    BY <1>1, <1>2, <1>3 DEF Thread

(* What a crash needs.                                                     *)
LEMMA CrashReason ==
  ASSUME pc \in [Worker -> Label], NEW w \in Worker, Thread(w), ~crashed, crashed'
  PROVE  \/ running = Freed /\ pc[w] \in {"i_free", "i_test", "s_build"}
         \/ freq = AnyBand /\ pc[w] = "r_append"
  <1> USE DEF Step, At, Goto, Crash
  <1>1. CASE init_running_info(w)
    <2>1. CASE FreeInfo(w)
      BY <2>1 DEF FreeInfo
    <2>2. CASE ResetInfo(w)
      BY <2>2 DEF ResetInfo, lock_all_views
    <2>3. CASE StartListing(w)
      BY <2>3 DEF StartListing
    <2>4. CASE ReadListing(w)
      BY <2>4 DEF ReadListing, Listed
    <2>5. CASE ListingFails(w)
      BY <2>5 DEF ListingFails
    <2>6. CASE get_h_running_info(w)
      BY <2>6 DEF get_h_running_info
    <2>7. CASE ShowRunning(w)
      BY <2>7 DEF ShowRunning
    <2>8. CASE ShowStopped(w)
      BY <2>8 DEF ShowStopped
    <2>9. CASE UnlockAll(w)
      BY <2>9 DEF UnlockAll, lock_all_views
    <2>10. CASE SetViews(w)
      BY <2>10 DEF SetViews, lock_running_views
    <2>11. CASE stop_pb_pulse(w)
      BY <2>11 DEF stop_pb_pulse
    <2> QED
      BY <1>1, <2>1, <2>2, <2>3, <2>4, <2>5, <2>6, <2>7, <2>8, <2>9, <2>10, <2>11 DEF
          init_running_info
  <1>2. CASE stopHp(w)
    <2>1. CASE StopTest(w)
      BY <2>1 DEF StopTest
    <2>2. CASE StopLock(w)
      BY <2>2 DEF StopLock, lock_all_views, start_pb_pulse
    <2>3. CASE StopBuild(w)
      BY <2>3 DEF StopBuild
    <2>4. CASE send_stop(w)
      BY <2>4 DEF send_stop
    <2>5. CASE StopRefused(w)
      BY <2>5 DEF StopRefused
    <2> QED
      BY <1>2, <2>1, <2>2, <2>3, <2>4, <2>5 DEF stopHp
  <1>3. CASE run_create_hp_shell(w)
    <2>1. CASE RunFreq(w)
      BY <2>1 DEF RunFreq
    <2>2. CASE RunAppend(w)
      BY <2>2 DEF RunAppend
    <2>3. CASE RunPopen(w)
      BY <2>3 DEF RunPopen, start_pb_pulse
    <2>4. CASE PopenFails(w)
      BY <2>4 DEF PopenFails
    <2>5. CASE RunEnabled(w)
      BY <2>5 DEF RunEnabled
    <2>6. CASE RunEnded(w)
      BY <2>6 DEF RunEnded
    <2>7. CASE RunClose(w)
      BY <2>7 DEF RunClose
    <2> QED
      BY <1>3, <2>1, <2>2, <2>3, <2>4, <2>5, <2>6, <2>7 DEF run_create_hp_shell
  <1> QED
    BY <1>1, <1>2, <1>3 DEF Thread

(* Only a thread that tested the band appends it.                          *)
LEMMA BandTaken ==
  ASSUME pc \in [Worker -> Label], NEW w \in Worker, Thread(w)
  PROVE  /\ freq' = freq
         /\ pc'[w] = "r_append" => freq # AnyBand \/ pc[w] = "r_append"
         /\ pc'[w] \in {"r_freq", "r_append"} => pc[w] \in {"r_freq", "r_append"}
  <1> USE DEF Step, At, Goto, Crash, formVars
  <1>1. CASE init_running_info(w)
    <2>1. CASE FreeInfo(w)
      BY <2>1 DEF FreeInfo
    <2>2. CASE ResetInfo(w)
      BY <2>2 DEF ResetInfo, lock_all_views
    <2>3. CASE StartListing(w)
      BY <2>3 DEF StartListing
    <2>4. CASE ReadListing(w)
      BY <2>4 DEF ReadListing, Listed
    <2>5. CASE ListingFails(w)
      BY <2>5 DEF ListingFails
    <2>6. CASE get_h_running_info(w)
      BY <2>6 DEF get_h_running_info
    <2>7. CASE ShowRunning(w)
      BY <2>7 DEF ShowRunning
    <2>8. CASE ShowStopped(w)
      BY <2>8 DEF ShowStopped
    <2>9. CASE UnlockAll(w)
      BY <2>9 DEF UnlockAll, lock_all_views
    <2>10. CASE SetViews(w)
      BY <2>10 DEF SetViews, lock_running_views
    <2>11. CASE stop_pb_pulse(w)
      BY <2>11 DEF stop_pb_pulse
    <2> QED
      BY <1>1, <2>1, <2>2, <2>3, <2>4, <2>5, <2>6, <2>7, <2>8, <2>9, <2>10, <2>11 DEF
          init_running_info
  <1>2. CASE stopHp(w)
    <2>1. CASE StopTest(w)
      BY <2>1 DEF StopTest
    <2>2. CASE StopLock(w)
      BY <2>2 DEF StopLock, lock_all_views, start_pb_pulse
    <2>3. CASE StopBuild(w)
      BY <2>3 DEF StopBuild
    <2>4. CASE send_stop(w)
      BY <2>4 DEF send_stop
    <2>5. CASE StopRefused(w)
      BY <2>5 DEF StopRefused
    <2> QED
      BY <1>2, <2>1, <2>2, <2>3, <2>4, <2>5 DEF stopHp
  <1>3. CASE run_create_hp_shell(w)
    <2>1. CASE RunFreq(w)
      BY <2>1 DEF RunFreq
    <2>2. CASE RunAppend(w)
      BY <2>2 DEF RunAppend
    <2>3. CASE RunPopen(w)
      BY <2>3 DEF RunPopen, start_pb_pulse
    <2>4. CASE PopenFails(w)
      BY <2>4 DEF PopenFails
    <2>5. CASE RunEnabled(w)
      BY <2>5 DEF RunEnabled
    <2>6. CASE RunEnded(w)
      BY <2>6 DEF RunEnded
    <2>7. CASE RunClose(w)
      BY <2>7 DEF RunClose
    <2> QED
      BY <1>3, <2>1, <2>2, <2>3, <2>4, <2>5, <2>6, <2>7 DEF run_create_hp_shell
  <1> QED
    BY <1>1, <1>2, <1>3 DEF Thread

-----------------------------------------------------------------------------
(* ViewsFollow, as one thread sees it.                                     *)
PathOf(w) ==
    /\ pc[w] \in {"i_list", "i_read", "i_parse", "i_off"} => running = Null
    /\ pc[w] \in {"i_on", "i_on2"} =>
           running # Null /\ labelPid = running /\ label = "running_as"
    /\ pc[w] = "i_off" => labelPid = Null /\ label = "not_running"
ShownOf(w) ==
    /\ pc[w] \in {"s_test", "s_lock", "s_build"} => running = shown
    /\ pc[w] = "s_shell" => cmdKill = shown

(* A thread brings the views to what it has read.                          *)
LEMMA PathKept ==
  ASSUME pc \in [Worker -> Label], NEW w \in Worker, Thread(w),
         running = Freed => pc[w] = "i_null", PathOf(w)
  PROVE  PathOf(w)'
  <1> USE DEF Step, At, Goto, Crash, PathOf, Says, runVars, viewVars
  <1>1. CASE init_running_info(w)
    <2>1. CASE FreeInfo(w)
      BY <2>1 DEF FreeInfo
    <2>2. CASE ResetInfo(w)
      BY <2>2 DEF ResetInfo, lock_all_views
    <2>3. CASE StartListing(w)
      BY <2>3 DEF StartListing
    <2>4. CASE ReadListing(w)
      BY <2>4 DEF ReadListing, Listed
    <2>5. CASE ListingFails(w)
      BY <2>5 DEF ListingFails
    <2>6. CASE get_h_running_info(w)
      BY <2>6 DEF get_h_running_info
    <2>7. CASE ShowRunning(w)
      BY <2>7 DEF ShowRunning
    <2>8. CASE ShowStopped(w)
      BY <2>8 DEF ShowStopped
    <2>9. CASE UnlockAll(w)
      BY <2>9 DEF UnlockAll, lock_all_views
    <2>10. CASE SetViews(w)
      BY <2>10 DEF SetViews, lock_running_views
    <2>11. CASE stop_pb_pulse(w)
      BY <2>11 DEF stop_pb_pulse
    <2> QED
      BY <1>1, <2>1, <2>2, <2>3, <2>4, <2>5, <2>6, <2>7, <2>8, <2>9, <2>10, <2>11 DEF
          init_running_info
  <1>2. CASE stopHp(w)
    <2>1. CASE StopTest(w)
      BY <2>1 DEF StopTest
    <2>2. CASE StopLock(w)
      BY <2>2 DEF StopLock, lock_all_views, start_pb_pulse
    <2>3. CASE StopBuild(w)
      BY <2>3 DEF StopBuild
    <2>4. CASE send_stop(w)
      BY <2>4 DEF send_stop
    <2>5. CASE StopRefused(w)
      BY <2>5 DEF StopRefused
    <2> QED
      BY <1>2, <2>1, <2>2, <2>3, <2>4, <2>5 DEF stopHp
  <1>3. CASE run_create_hp_shell(w)
    <2>1. CASE RunFreq(w)
      BY <2>1 DEF RunFreq
    <2>2. CASE RunAppend(w)
      BY <2>2 DEF RunAppend
    <2>3. CASE RunPopen(w)
      BY <2>3 DEF RunPopen, start_pb_pulse
    <2>4. CASE PopenFails(w)
      BY <2>4 DEF PopenFails
    <2>5. CASE RunEnabled(w)
      BY <2>5 DEF RunEnabled
    <2>6. CASE RunEnded(w)
      BY <2>6 DEF RunEnded
    <2>7. CASE RunClose(w)
      BY <2>7 DEF RunClose
    <2> QED
      BY <1>3, <2>1, <2>2, <2>3, <2>4, <2>5, <2>6, <2>7 DEF run_create_hp_shell
  <1> QED
    BY <1>1, <1>2, <1>3 DEF Thread

(* It leaves them in agreement.                                            *)
LEMMA AgreeKept ==
  ASSUME pc \in [Worker -> Label], NEW w \in Worker, Thread(w),
         running = Freed => pc[w] = "i_null", PathOf(w),
         pc[w] \in UntouchedLabel => Agree, pc[w] # "r_close", pc'[w] \in UntouchedLabel
  PROVE  Agree'
  <1> USE DEF Step, At, Goto, Crash, PathOf, Agree, UntouchedLabel, Says, runVars, viewVars
  <1>1. CASE init_running_info(w)
    <2>1. CASE FreeInfo(w)
      BY <2>1 DEF FreeInfo
    <2>2. CASE ResetInfo(w)
      BY <2>2 DEF ResetInfo, lock_all_views
    <2>3. CASE StartListing(w)
      BY <2>3 DEF StartListing
    <2>4. CASE ReadListing(w)
      BY <2>4 DEF ReadListing, Listed
    <2>5. CASE ListingFails(w)
      BY <2>5 DEF ListingFails
    <2>6. CASE get_h_running_info(w)
      BY <2>6 DEF get_h_running_info
    <2>7. CASE ShowRunning(w)
      BY <2>7 DEF ShowRunning
    <2>8. CASE ShowStopped(w)
      BY <2>8 DEF ShowStopped
    <2>9. CASE UnlockAll(w)
      BY <2>9 DEF UnlockAll, lock_all_views
    <2>10. CASE SetViews(w)
      BY <2>10 DEF SetViews, lock_running_views
    <2>11. CASE stop_pb_pulse(w)
      BY <2>11 DEF stop_pb_pulse
    <2> QED
      BY <1>1, <2>1, <2>2, <2>3, <2>4, <2>5, <2>6, <2>7, <2>8, <2>9, <2>10, <2>11 DEF
          init_running_info
  <1>2. CASE stopHp(w)
    <2>1. CASE StopTest(w)
      BY <2>1 DEF StopTest
    <2>2. CASE StopLock(w)
      BY <2>2 DEF StopLock, lock_all_views, start_pb_pulse
    <2>3. CASE StopBuild(w)
      BY <2>3 DEF StopBuild
    <2>4. CASE send_stop(w)
      BY <2>4 DEF send_stop
    <2>5. CASE StopRefused(w)
      BY <2>5 DEF StopRefused
    <2> QED
      BY <1>2, <2>1, <2>2, <2>3, <2>4, <2>5 DEF stopHp
  <1>3. CASE run_create_hp_shell(w)
    <2>1. CASE RunFreq(w)
      BY <2>1 DEF RunFreq
    <2>2. CASE RunAppend(w)
      BY <2>2 DEF RunAppend
    <2>3. CASE RunPopen(w)
      BY <2>3 DEF RunPopen, start_pb_pulse
    <2>4. CASE PopenFails(w)
      BY <2>4 DEF PopenFails
    <2>5. CASE RunEnabled(w)
      BY <2>5 DEF RunEnabled
    <2>6. CASE RunEnded(w)
      BY <2>6 DEF RunEnded
    <2>7. CASE RunClose(w)
      BY <2>7 DEF RunClose
    <2> QED
      BY <1>3, <2>1, <2>2, <2>3, <2>4, <2>5, <2>6, <2>7 DEF run_create_hp_shell
  <1> QED
    BY <1>1, <1>2, <1>3 DEF Thread

(* The pid the user saw is the one it builds its command from.             *)
LEMMA ShownKept ==
  ASSUME pc \in [Worker -> Label], NEW w \in Worker, Thread(w),
         running = Freed => pc[w] = "i_null", ShownOf(w)
  PROVE  ShownOf(w)'
  <1> USE DEF Step, At, Goto, Crash, ShownOf, runVars, cmdVars, pastVars
  <1>1. CASE init_running_info(w)
    <2>1. CASE FreeInfo(w)
      BY <2>1 DEF FreeInfo
    <2>2. CASE ResetInfo(w)
      BY <2>2 DEF ResetInfo, lock_all_views
    <2>3. CASE StartListing(w)
      BY <2>3 DEF StartListing
    <2>4. CASE ReadListing(w)
      BY <2>4 DEF ReadListing, Listed
    <2>5. CASE ListingFails(w)
      BY <2>5 DEF ListingFails
    <2>6. CASE get_h_running_info(w)
      BY <2>6 DEF get_h_running_info
    <2>7. CASE ShowRunning(w)
      BY <2>7 DEF ShowRunning
    <2>8. CASE ShowStopped(w)
      BY <2>8 DEF ShowStopped
    <2>9. CASE UnlockAll(w)
      BY <2>9 DEF UnlockAll, lock_all_views
    <2>10. CASE SetViews(w)
      BY <2>10 DEF SetViews, lock_running_views
    <2>11. CASE stop_pb_pulse(w)
      BY <2>11 DEF stop_pb_pulse
    <2> QED
      BY <1>1, <2>1, <2>2, <2>3, <2>4, <2>5, <2>6, <2>7, <2>8, <2>9, <2>10, <2>11 DEF
          init_running_info
  <1>2. CASE stopHp(w)
    <2>1. CASE StopTest(w)
      BY <2>1 DEF StopTest
    <2>2. CASE StopLock(w)
      BY <2>2 DEF StopLock, lock_all_views, start_pb_pulse
    <2>3. CASE StopBuild(w)
      BY <2>3 DEF StopBuild
    <2>4. CASE send_stop(w)
      BY <2>4 DEF send_stop
    <2>5. CASE StopRefused(w)
      BY <2>5 DEF StopRefused
    <2> QED
      BY <1>2, <2>1, <2>2, <2>3, <2>4, <2>5 DEF stopHp
  <1>3. CASE run_create_hp_shell(w)
    <2>1. CASE RunFreq(w)
      BY <2>1 DEF RunFreq
    <2>2. CASE RunAppend(w)
      BY <2>2 DEF RunAppend
    <2>3. CASE RunPopen(w)
      BY <2>3 DEF RunPopen, start_pb_pulse
    <2>4. CASE PopenFails(w)
      BY <2>4 DEF PopenFails
    <2>5. CASE RunEnabled(w)
      BY <2>5 DEF RunEnabled
    <2>6. CASE RunEnded(w)
      BY <2>6 DEF RunEnded
    <2>7. CASE RunClose(w)
      BY <2>7 DEF RunClose
    <2> QED
      BY <1>3, <2>1, <2>2, <2>3, <2>4, <2>5, <2>6, <2>7 DEF run_create_hp_shell
  <1> QED
    BY <1>1, <1>2, <1>3 DEF Thread

-----------------------------------------------------------------------------
(* While the user has not overlapped a thread, a thread that is at work is *)
(* alone, before its step and after it.                                    *)
LEMMA Alone ==
  ASSUME TypeOK, OneAtWork, NEW w \in Worker, Thread(w), ~overlapped', pc[w] # "r_close"
  PROVE  /\ ~overlapped /\ main' = main /\ main \notin {"mkconfig", "refresh"}
         /\ \A v \in Worker \ {w} : pc'[v] = pc[v] /\ pc[v] \in {"free", "r_close"}
  <1>1. ~overlapped /\ main' = main /\ Active(w)
    BY ThreadMoves DEF Active
  <1>2. main \notin {"mkconfig", "refresh"}
    BY <1>1 DEF OneAtWork, Busy
  <1>3. ASSUME NEW v \in Worker \ {w} PROVE pc'[v] = pc[v] /\ pc[v] \in {"free", "r_close"}
    BY <1>1, <1>3, ThreadMoves DEF OneAtWork, Active
  <1> QED
    BY <1>1, <1>2, <1>3

(* A thread that ends with pclose changes nothing else.                    *)
LEMMA Closes ==
  ASSUME TypeOK, NEW w \in Worker, Thread(w), pc[w] = "r_close"
  PROVE  /\ pc' = [pc EXCEPT ![w] = "free"]
         /\ UNCHANGED <<main, crashed, runVars, cmdVars, formVars, viewVars, barVars, instVars,
                         pastVars>>
  <1> USE DEF At, Step, Goto
  <1>1. CASE init_running_info(w)
    <2>1. CASE FreeInfo(w)
      BY <2>1 DEF FreeInfo
    <2>2. CASE ResetInfo(w)
      BY <2>2 DEF ResetInfo, lock_all_views
    <2>3. CASE StartListing(w)
      BY <2>3 DEF StartListing
    <2>4. CASE ReadListing(w)
      BY <2>4 DEF ReadListing, Listed
    <2>5. CASE ListingFails(w)
      BY <2>5 DEF ListingFails
    <2>6. CASE get_h_running_info(w)
      BY <2>6 DEF get_h_running_info
    <2>7. CASE ShowRunning(w)
      BY <2>7 DEF ShowRunning
    <2>8. CASE ShowStopped(w)
      BY <2>8 DEF ShowStopped
    <2>9. CASE UnlockAll(w)
      BY <2>9 DEF UnlockAll, lock_all_views
    <2>10. CASE SetViews(w)
      BY <2>10 DEF SetViews, lock_running_views
    <2>11. CASE stop_pb_pulse(w)
      BY <2>11 DEF stop_pb_pulse
    <2> QED
      BY <1>1, <2>1, <2>2, <2>3, <2>4, <2>5, <2>6, <2>7, <2>8, <2>9, <2>10, <2>11 DEF
          init_running_info
  <1>2. CASE stopHp(w)
    <2>1. CASE StopTest(w)
      BY <2>1 DEF StopTest
    <2>2. CASE StopLock(w)
      BY <2>2 DEF StopLock, lock_all_views, start_pb_pulse
    <2>3. CASE StopBuild(w)
      BY <2>3 DEF StopBuild
    <2>4. CASE send_stop(w)
      BY <2>4 DEF send_stop
    <2>5. CASE StopRefused(w)
      BY <2>5 DEF StopRefused
    <2> QED
      BY <1>2, <2>1, <2>2, <2>3, <2>4, <2>5 DEF stopHp
  <1>3. CASE run_create_hp_shell(w)
    <2>1. CASE RunFreq(w)
      BY <2>1 DEF RunFreq
    <2>2. CASE RunAppend(w)
      BY <2>2 DEF RunAppend
    <2>3. CASE RunPopen(w)
      BY <2>3 DEF RunPopen, start_pb_pulse
    <2>4. CASE PopenFails(w)
      BY <2>4 DEF PopenFails
    <2>5. CASE RunEnabled(w)
      BY <2>5 DEF RunEnabled
    <2>6. CASE RunEnded(w)
      BY <2>6 DEF RunEnded
    <2>7. CASE RunClose(w)
      BY <2>7 DEF RunClose
    <2> QED
      BY <1>3, <2>1, <2>2, <2>3, <2>4, <2>5, <2>6, <2>7 DEF run_create_hp_shell
  <1> QED
    BY <1>1, <1>2, <1>3 DEF Thread

LEMMA StepKeepsOneAtWork == ASSUME TypeOK, OneAtWork, [Next]_vars PROVE OneAtWork'
  <1> SUFFICES ASSUME ~overlapped' PROVE OneAtWork'
    BY DEF OneAtWork
  <1>1. ASSUME NEW w \in Worker, Thread(w) PROVE OneAtWork'
    <2>1. ~overlapped /\ main' = main
      BY <1>1, ThreadMoves
    <2>2. \A v \in Worker : Active(v)' => Active(v)
      BY <1>1, ThreadMoves DEF Active
    <2> QED
      BY <2>1, <2>2 DEF OneAtWork, Busy
  <1>2. ASSUME UserActs PROVE OneAtWork'
    <2>1. ~Busy /\ main = "idle"
      BY <1>2 DEF UserActs, User, ClickCreate, on_stop_hp_clicked, on_refresh_clicked,
                  update_freq_toggle, EditSsid
    <2>2. CASE on_stop_hp_clicked
      <3>1. PICK w \in Worker : Spawn(w, "s_test")
        BY <2>2 DEF on_stop_hp_clicked
      <3>2. \A v \in Worker \ {w} : ~Active(v)'
        BY <2>1, <3>1 DEF Spawn, Goto, Busy, Active, TypeOK
      <3>3. main' = "idle"
        BY <2>1, <2>2 DEF on_stop_hp_clicked
      <3> QED
        BY <3>2, <3>3 DEF OneAtWork
    <2>3. CASE ~on_stop_hp_clicked
      <3>1. pc' = pc
        BY <1>2, <2>3 DEF UserActs, ClickCreate, on_refresh_clicked, update_freq_toggle, EditSsid
      <3> QED
        BY <2>1, <3>1 DEF OneAtWork, Busy, Active
    <2> QED
      BY <2>2, <2>3
  <1>3. ASSUME Main PROVE OneAtWork'
    <2>1. CASE initUi
      BY <2>1 DEF initUi, OneAtWork, Busy, Active, pastVars
    <2>2. CASE Configure
      <3>1. PICK w \in Worker : Spawn(w, "r_freq")
        BY <2>2 DEF Configure
      <3>2. ~overlapped /\ main = "mkconfig" /\ main' = "idle"
        BY <2>2 DEF Configure
      <3>3. \A v \in Worker \ {w} : ~Active(v)'
        BY <3>1, <3>2 DEF Spawn, Goto, OneAtWork, Busy, Active, TypeOK
      <3> QED
        BY <3>2, <3>3 DEF OneAtWork
    <2>3. CASE set_connected_devices_label
      <3>1. pc' = pc /\ overlapped' = overlapped /\ main' \in {main, "idle"}
        BY <2>3 DEF set_connected_devices_label, Crash, pastVars
      <3> QED
        BY <3>1 DEF OneAtWork, Busy, Active
    <2> QED
      BY <1>3, <2>1, <2>2, <2>3 DEF Main
  <1>4. ASSUME NEW p \in Instance, CreateAp(p) PROVE OneAtWork'
    BY <1>4 DEF CreateAp, Boot, Enable, End, OneAtWork, Busy, Active, flowVars, pastVars
  <1>5. CASE UNCHANGED vars
    BY <1>5 DEF vars, OneAtWork, Busy, Active, flowVars, pastVars
  <1> QED
    BY <1>1, <1>2, <1>3, <1>4, <1>5 DEF Next

(* Who does not touch the bar does not touch the threads that hide it.     *)
LEMMA StepKeepsBar ==
  ASSUME TypeOK, BarHasOwner, TimerHasOwner, OneAtWork, [Next]_vars
  PROVE  BarHasOwner' /\ TimerHasOwner'
  <1>1. ASSUME NEW w \in Worker, Thread(w) PROVE BarHasOwner' /\ TimerHasOwner'
    <2> USE DEF TypeOK
    <2>1. BarHasOwner'
      <3> SUFFICES ASSUME bar', pc'[w] \notin WillHide
                   PROVE  \E v \in Worker : pc'[v] \in WillHide
        BY <1>1 DEF BarHasOwner
      <3>1. bar /\ pc[w] \notin WillHide
        BY <1>1, BarLeft, BarTaken
      <3>2. PICK v \in Worker : pc[v] \in WillHide
        BY <3>1 DEF BarHasOwner
      <3> QED
        BY <1>1, <3>1, <3>2, ThreadMoves
    <2>2. pulse' = bar'
      BY <1>1, TimerTaken DEF TimerHasOwner
    <2>3. ASSUME ~overlapped' PROVE ~leaked'
      <3>1. SUFFICES ASSUME leaked' PROVE FALSE
        OBVIOUS
      <3>2. ~overlapped /\ ~leaked
        BY <1>1, <2>3, ThreadMoves DEF TimerHasOwner
      <3>3. bar /\ pc[w] \in {"s_lock", "r_popen"}
        BY <1>1, <3>1, <3>2, TimerLost DEF TimerHasOwner
      <3>4. PICK v \in Worker : pc[v] \in WillHide
        BY <3>3 DEF BarHasOwner
      <3>5. v # w /\ Active(v) /\ Active(w)
        BY <3>3, <3>4 DEF Active, WillHide, InfoLabel
      <3> QED
        BY <3>2, <3>5 DEF OneAtWork
    <2> QED
      BY <2>1, <2>2, <2>3 DEF TimerHasOwner
  <1>2. CASE \/ UserActs \/ Main \/ UNCHANGED vars
            \/ \E p \in Instance : CreateAp(p)
    <2>1. UNCHANGED barVars
      BY <1>2 DEF UserActs, ClickCreate, on_stop_hp_clicked, on_refresh_clicked,
                  update_freq_toggle, EditSsid, Main, initUi, Configure,
                  set_connected_devices_label, CreateAp, Boot, Enable, End, vars
    <2>3. ~overlapped' => ~overlapped
      BY <1>2 DEF UserActs, User, ClickCreate, on_stop_hp_clicked, on_refresh_clicked,
                  update_freq_toggle, EditSsid, Main, initUi, Configure,
                  set_connected_devices_label, CreateAp, Boot, Enable, End, vars, pastVars
    <2>4. \A v \in Worker : pc[v] # "free" => pc'[v] = pc[v]
      BY <1>2 DEF UserActs, ClickCreate, on_stop_hp_clicked, on_refresh_clicked, Spawn, Goto,
                  update_freq_toggle, EditSsid, Main, initUi, Configure, Crash, TypeOK,
                  set_connected_devices_label, CreateAp, Boot, Enable, End, vars, flowVars
    <2>5. BarHasOwner'
      BY <2>1, <2>4 DEF BarHasOwner, WillHide, InfoLabel, barVars
    <2> QED
      BY <2>1, <2>3, <2>5 DEF TimerHasOwner, barVars
  <1> QED
    BY <1>1, <1>2 DEF Next

(* What the other steps leave alone: the main thread, the user and the     *)
(* instances do not touch the pointer, the buffers or the views.           *)
Others == UserActs \/ Main \/ UNCHANGED vars \/ \E p \in Instance : CreateAp(p)

LEMMA OthersLeave ==
  ASSUME TypeOK, Others
  PROVE  /\ UNCHANGED <<runVars, cmdKill, viewVars>>
         /\ \A v \in Worker : pc'[v] = pc[v] \/ (pc[v] = "free" /\ pc'[v] \in {"s_test", "r_freq"})
         /\ ~overlapped' => ~overlapped
         /\ ~overlapped' /\ UserActs => ~Busy
  <1>1. UNCHANGED <<runVars, cmdKill, viewVars>>
    BY DEF Others, UserActs, ClickCreate, on_stop_hp_clicked, on_refresh_clicked,
           update_freq_toggle, EditSsid, Main, initUi, Configure, cmdVars,
           set_connected_devices_label, CreateAp, Boot, Enable, End, vars
  <1>2. \A v \in Worker : pc'[v] = pc[v] \/ (pc[v] = "free" /\ pc'[v] \in {"s_test", "r_freq"})
    <2>1. CASE on_stop_hp_clicked \/ Configure
      <3>1. PICK w \in Worker : Spawn(w, "s_test") \/ Spawn(w, "r_freq")
        BY <2>1 DEF on_stop_hp_clicked, Configure
      <3> QED
        BY <3>1 DEF Spawn, Goto, TypeOK
    <2>2. CASE ~on_stop_hp_clicked /\ ~Configure
      <3>1. pc' = pc
        <4>1. CASE UserActs
          BY <2>2, <4>1 DEF UserActs, ClickCreate, on_refresh_clicked, update_freq_toggle,
                            EditSsid
        <4>2. CASE Main
          BY <2>2, <4>2 DEF Main, initUi, set_connected_devices_label, Crash
        <4>3. CASE UNCHANGED vars \/ \E p \in Instance : CreateAp(p)
          BY <4>3 DEF CreateAp, Boot, Enable, End, vars, flowVars
        <4> QED
          BY <4>1, <4>2, <4>3 DEF Others
      <3> QED
        BY <3>1
    <2> QED
      BY <2>1, <2>2
  <1>3. ~overlapped' => ~overlapped
    <2>1. CASE UserActs
      BY <2>1 DEF UserActs, User, ClickCreate, on_stop_hp_clicked,
                on_refresh_clicked, update_freq_toggle, EditSsid
    <2>2. CASE ~UserActs
      BY <2>2 DEF Others, Main, initUi, Configure, set_connected_devices_label, CreateAp,
                  Boot, Enable, End, vars, pastVars
    <2> QED
      BY <2>1, <2>2
  <1>4. ~overlapped' /\ UserActs => ~Busy
    BY DEF UserActs, User, ClickCreate, on_stop_hp_clicked,
                on_refresh_clicked, update_freq_toggle, EditSsid
  <1> QED
    BY <1>1, <1>2, <1>3, <1>4

LEMMA StepKeepsFreedIsReset ==
  ASSUME TypeOK, OneAtWork, FreedIsReset, [Next]_vars
  PROVE  FreedIsReset'
  <1> SUFFICES ASSUME ~overlapped', running' = Freed
               PROVE  \E w \in Worker : pc'[w] = "i_null"
    BY DEF FreedIsReset
  <1>1. ASSUME NEW w \in Worker, Thread(w), pc'[w] # "i_null"
        PROVE  \E v \in Worker : pc'[v] = "i_null"
    <2>1. running = Freed /\ pc[w] # "i_null"
      BY <1>1, PointerFreed DEF TypeOK
    <2>2. PICK v \in Worker : pc[v] = "i_null"
      BY <1>1, <2>1, ThreadMoves DEF FreedIsReset
    <2> QED
      BY <1>1, <2>1, <2>2, ThreadMoves
  <1>2. CASE Others
    <2>1. running = Freed /\ ~overlapped
      BY <1>2, OthersLeave DEF runVars
    <2>2. PICK v \in Worker : pc[v] = "i_null"
      BY <2>1 DEF FreedIsReset
    <2> QED
      BY <1>2, <2>2, OthersLeave
  <1> QED
    BY <1>1, <1>2 DEF Next, Others

(* The band that was tested is the band that is appended.                  *)
LEMMA StepKeepsBandFollows ==
  ASSUME TypeOK, OneAtWork, BandFollows, [Next]_vars
  PROVE  BandFollows'
  <1> USE DEF TypeOK
  <1>1. ASSUME NEW w \in Worker, Thread(w) PROVE BandFollows'
    <2>1. main' = main /\ overlapped' = overlapped /\ freq' = freq
      BY <1>1, ThreadMoves, BandTaken
    <2>2. \A v \in Worker \ {w} : pc'[v] = pc[v]
      BY <1>1, ThreadMoves
    <2>3. pc'[w] = "r_append" => freq # AnyBand \/ pc[w] = "r_append"
      BY <1>1, BandTaken
    <2>4. pc'[w] \in {"r_freq", "r_append"} => pc[w] \in {"r_freq", "r_append"}
      BY <1>1, BandTaken
    <2> QED
      BY <2>1, <2>2, <2>3, <2>4 DEF BandFollows
  <1>2. CASE UserActs
    <2>1. main = "idle" /\ main' # "startup"
      BY <1>2 DEF UserActs, User, ClickCreate, on_stop_hp_clicked, on_refresh_clicked,
                  update_freq_toggle, EditSsid
    <2>2. ~overlapped' => \A v \in Worker : pc'[v] # "r_append"
      BY <1>2, OthersLeave DEF Others, Busy, Active
    <2> QED
      BY <2>1, <2>2 DEF BandFollows
  <1>3. CASE initUi
    BY <1>3 DEF initUi, BandFollows, pastVars
  <1>4. CASE Configure
    <2>1. main' = "idle" /\ freq' = freq
      BY <1>4 DEF Configure, formVars
    <2>2. \A v \in Worker : pc'[v] = "r_append" => pc[v] = "r_append"
      BY <1>4, OthersLeave DEF Others, Main
    <2>3. ~overlapped' => ~overlapped
      BY <1>4 DEF Configure
    <2> QED
      BY <2>1, <2>2, <2>3 DEF BandFollows
  <1>5. CASE set_connected_devices_label
    <2>1. pc' = pc /\ main' # "startup" /\ freq' = freq /\ overlapped' = overlapped
      BY <1>5 DEF set_connected_devices_label, Crash, formVars, pastVars
    <2> QED
      BY <2>1 DEF BandFollows
  <1>6. ASSUME NEW p \in Instance, CreateAp(p) PROVE BandFollows'
    BY <1>6 DEF CreateAp, Boot, Enable, End, BandFollows, flowVars, formVars, pastVars
  <1>7. CASE UNCHANGED vars
    BY <1>7 DEF vars, BandFollows, flowVars, formVars, pastVars
  <1> QED
    BY <1>1, <1>2, <1>3, <1>4, <1>5, <1>6, <1>7 DEF Next, Main

(* But for an answer of --list-clients without a line, a crash needs a     *)
(* pointer that another thread has freed, or a band that the user has      *)
(* changed, in the middle of a thread's work.                              *)
LEMMA StepKeepsCrashNeedsOverlap ==
  ASSUME TypeOK, OneAtWork, FreedIsReset, BandFollows, CrashNeedsOverlap, [Next]_vars
  PROVE  CrashNeedsOverlap'
  <1> SUFFICES ASSUME crashed', ~overlapped', main' # "refresh" PROVE FALSE
    BY DEF CrashNeedsOverlap
  <1>1. ASSUME NEW w \in Worker, Thread(w), ~crashed PROVE FALSE
    <2>1. ~overlapped
      BY <1>1, ThreadMoves
    <2>2. CASE freq = AnyBand /\ pc[w] = "r_append"
      BY <2>1, <2>2 DEF BandFollows
    <2>3. CASE running = Freed /\ pc[w] \in {"i_free", "i_test", "s_build"}
      <3>1. PICK v \in Worker : pc[v] = "i_null"
        BY <2>1, <2>3 DEF FreedIsReset
      <3>2. v # w /\ Active(v) /\ Active(w)
        BY <2>3, <3>1 DEF Active
      <3> QED
        BY <2>1, <3>2 DEF OneAtWork
    <2> QED
      BY <1>1, <2>2, <2>3, CrashReason DEF TypeOK
  <1>2. CASE set_connected_devices_label /\ ~crashed
    BY <1>2 DEF set_connected_devices_label, Crash
  <1>3. CASE ~crashed /\ (UserActs \/ initUi \/ Configure \/ \E p \in Instance : CreateAp(p))
    <2>1. crashed' = crashed
      BY <1>3 DEF UserActs, ClickCreate, on_stop_hp_clicked, on_refresh_clicked,
                  update_freq_toggle, EditSsid, initUi, Configure,
                  CreateAp, Boot, Enable, End, flowVars
    <2> QED
      BY <1>3, <2>1
  <1>4. CASE UNCHANGED vars
    BY <1>4 DEF CrashNeedsOverlap, vars, flowVars, pastVars
  <1> QED
    BY <1>1, <1>2, <1>3, <1>4 DEF Next, Main

-----------------------------------------------------------------------------
(* With one thread at work, what holds of its path holds of every path.    *)
LEMMA StepKeepsViews ==
  ASSUME TypeOK, OneAtWork, FreedIsReset, ViewsFollow, [Next]_vars
  PROVE  ViewsFollow'
  <1> SUFFICES ASSUME ~overlapped' PROVE ViewsFollow'
    BY DEF ViewsFollow
  <1>1. ASSUME NEW w \in Worker, Thread(w), pc[w] # "r_close" PROVE ViewsFollow'
    <2>1. /\ ~overlapped
          /\ \A v \in Worker \ {w} : pc'[v] = pc[v] /\ pc[v] \in {"free", "r_close"}
      BY <1>1, Alone
    <2>2. PathOf(w) /\ (pc[w] \in UntouchedLabel => Agree)
      <3>1. PathOf(w)
        BY <2>1 DEF ViewsFollow, PathOf
      <3>2. ASSUME pc[w] \in UntouchedLabel PROVE Agree
        BY <2>1, <3>2 DEF ViewsFollow, Untouched, UntouchedLabel
      <3> QED
        BY <3>1, <3>2
    <2>3. running = Freed => pc[w] = "i_null"
      BY <2>1 DEF FreedIsReset
    <2>4. PathOf(w)'
      BY <1>1, <2>2, <2>3, PathKept DEF TypeOK
    <2>5. ASSUME Untouched' PROVE Agree'
      <3>1. pc'[w] \in UntouchedLabel
        BY <2>5 DEF Untouched
      <3> QED
        BY <1>1, <2>2, <2>3, <3>1, AgreeKept DEF TypeOK
    <2>6. \A v \in Worker : PathOf(v)'
      BY <2>1, <2>4 DEF PathOf
    <2> QED
      BY <2>5, <2>6 DEF ViewsFollow, PathOf
  <1>2. ASSUME NEW w \in Worker, Thread(w), pc[w] = "r_close" PROVE ViewsFollow'
    <2>1. pc' = [pc EXCEPT ![w] = "free"] /\ UNCHANGED <<runVars, viewVars, pastVars>>
      BY <1>2, Closes
    <2>2. \A v \in Worker : pc'[v] = pc[v] \/ (pc[v] = "r_close" /\ pc'[v] = "free")
      BY <1>2, <2>1 DEF TypeOK
    <2>3. Untouched' => Untouched
      BY <2>2 DEF Untouched, UntouchedLabel
    <2>4. Agree => Agree'
      BY <2>1 DEF Agree, runVars, viewVars
    <2>5. ~overlapped
      BY <2>1 DEF pastVars
    <2>6. ASSUME NEW v \in Worker, PathOf(v) PROVE PathOf(v)'
      BY <2>1, <2>2, <2>6 DEF PathOf, runVars, viewVars
    <2> QED
      BY <2>3, <2>4, <2>5, <2>6 DEF ViewsFollow, PathOf
  <1>3. CASE Others
    <2>1. UNCHANGED <<runVars, viewVars>> /\ ~overlapped
      BY <1>3, OthersLeave
    <2>2. \A v \in Worker :
              pc'[v] = pc[v] \/ (pc[v] = "free" /\ pc'[v] \in {"s_test", "r_freq"})
      BY <1>3, OthersLeave
    <2>3. Untouched' => Untouched
      BY <2>2 DEF Untouched, UntouchedLabel
    <2>4. Agree => Agree'
      BY <2>1 DEF Agree, runVars, viewVars
    <2>6. ASSUME NEW v \in Worker, PathOf(v) PROVE PathOf(v)'
      BY <2>1, <2>2, <2>6 DEF PathOf, runVars, viewVars
    <2> QED
      BY <2>1, <2>3, <2>4, <2>6 DEF ViewsFollow, PathOf
  <1> QED
    BY <1>1, <1>2, <1>3 DEF Next, Others

(* The pid of the status line reaches the command.                         *)
LEMMA StepKeepsStop ==
  ASSUME TypeOK, OneAtWork, FreedIsReset, ViewsFollow, StopFollows, [Next]_vars
  PROVE  StopFollows'
  <1> SUFFICES ASSUME ~overlapped' PROVE \A v \in Worker : ShownOf(v)'
    BY DEF StopFollows, ShownOf
  <1>1. ASSUME NEW w \in Worker, Thread(w), pc[w] # "r_close"
        PROVE  \A v \in Worker : ShownOf(v)'
    <2>1. /\ ~overlapped
          /\ \A v \in Worker \ {w} : pc'[v] = pc[v] /\ pc[v] \in {"free", "r_close"}
      BY <1>1, Alone
    <2>2. ShownOf(w)
      BY <2>1 DEF StopFollows, ShownOf
    <2>3. running = Freed => pc[w] = "i_null"
      BY <2>1 DEF FreedIsReset
    <2>4. ShownOf(w)'
      BY <1>1, <2>2, <2>3, ShownKept DEF TypeOK
    <2> QED
      BY <2>1, <2>4 DEF ShownOf
  <1>2. ASSUME NEW w \in Worker, Thread(w), pc[w] = "r_close"
        PROVE  \A v \in Worker : ShownOf(v)'
    <2>1. pc' = [pc EXCEPT ![w] = "free"] /\ UNCHANGED <<runVars, cmdVars, pastVars>>
      BY <1>2, Closes
    <2>2. \A v \in Worker : pc'[v] = pc[v] \/ pc'[v] = "free"
      BY <1>2, <2>1 DEF TypeOK
    <2>3. \A v \in Worker : ShownOf(v)
      BY <2>1 DEF StopFollows, ShownOf, pastVars
    <2> QED
      BY <2>1, <2>2, <2>3 DEF ShownOf, runVars, cmdVars, pastVars
  <1>3. CASE on_stop_hp_clicked
    <2>1. ~Busy /\ ~overlapped
      BY <1>3, OthersLeave DEF Others, UserActs
    <2>2. labelPid = running
      BY <2>1 DEF Busy, Active, ViewsFollow, Untouched, UntouchedLabel, Agree
    <2>3. shown' = running /\ running' = running
      BY <1>3, <2>2 DEF on_stop_hp_clicked, runVars
    <2>4. \A v \in Worker : pc'[v] \notin {"s_lock", "s_build", "s_shell"}
      BY <1>3, <2>1, OthersLeave DEF Others, UserActs, Busy, Active
    <2> QED
      BY <2>3, <2>4 DEF ShownOf
  <1>4. CASE Others /\ ~on_stop_hp_clicked
    <2>1. UNCHANGED <<running, cmdKill>> /\ ~overlapped
      BY <1>4, OthersLeave DEF runVars
    <2>2. shown' = shown
      BY <1>4 DEF Others, UserActs, ClickCreate, on_refresh_clicked, update_freq_toggle,
                  EditSsid, Main, initUi, Configure, set_connected_devices_label, CreateAp,
                  Boot, Enable, End, vars, pastVars
    <2>3. \A v \in Worker : pc'[v] = pc[v] \/ pc'[v] = "r_freq"
      <3>1. CASE Configure
        <4>1. PICK w \in Worker : Spawn(w, "r_freq")
          BY <3>1 DEF Configure
        <4> QED
          BY <4>1 DEF Spawn, Goto, TypeOK
      <3>2. CASE ~Configure
        <4>1. pc' = pc
          BY <1>4, <3>2 DEF Others, UserActs, ClickCreate, on_refresh_clicked,
                  update_freq_toggle, EditSsid, Main, initUi, set_connected_devices_label,
                  Crash, CreateAp, Boot, Enable, End, vars, flowVars
        <4> QED
          BY <4>1
      <3> QED
        BY <3>1, <3>2
    <2>4. \A v \in Worker : ShownOf(v)
      BY <2>1 DEF StopFollows, ShownOf
    <2> QED
      BY <2>1, <2>2, <2>3, <2>4 DEF ShownOf
  <1> QED
    BY <1>1, <1>2, <1>3, <1>4 DEF Next, Others

-----------------------------------------------------------------------------
(* WindowInv holds in every state that can be reached.                     *)
THEOREM WindowInvariant == Spec => []WindowInv
  <1>1. Init => WindowInv
    BY InitEstablishes
  <1>2. WindowInv /\ [Next]_vars => WindowInv'
    <2> SUFFICES ASSUME WindowInv, [Next]_vars PROVE WindowInv'
      OBVIOUS
    <2>1. /\ TypeOK /\ BarHasOwner /\ CrashNeedsOverlap
          /\ OneAtWork /\ FreedIsReset /\ BandFollows /\ TimerHasOwner
          /\ ViewsFollow /\ StopFollows
      BY DEF WindowInv
    <2>2. TypeOK'
      BY <2>1, StepKeepsTypes
    <2>3. OneAtWork'
      BY <2>1, StepKeepsOneAtWork
    <2>4. BarHasOwner' /\ TimerHasOwner'
      BY <2>1, StepKeepsBar
    <2>5. FreedIsReset' /\ BandFollows' /\ CrashNeedsOverlap'
      BY <2>1, StepKeepsFreedIsReset, StepKeepsBandFollows, StepKeepsCrashNeedsOverlap
    <2>6. ViewsFollow' /\ StopFollows'
      BY <2>1, StepKeepsViews, StepKeepsStop
    <2> QED
      BY <2>2, <2>3, <2>4, <2>5, <2>6 DEF WindowInv
  <1> QED
    BY <1>1, <1>2, PTL DEF Spec

(* TypeOK, for every number of threads and instances.                      *)
THEOREM WindowTypes == Spec => []TypeOK
  <1>1. WindowInv => TypeOK
    BY DEF WindowInv
  <1> QED
    BY <1>1, WindowInvariant, PTL

(* Every bar that is shown will be hidden, however the user's clicks and   *)
(* the threads overlap.                                                    *)
THEOREM BarIsOwned == Spec => []BarHasOwner
  <1>1. WindowInv => BarHasOwner
    BY DEF WindowInv
  <1> QED
    BY <1>1, WindowInvariant, PTL

(* No use after free, double free or strcat of NULL in a thread without a  *)
(* user who acts while one is at work.                                     *)
THEOREM CrashIsOverlap == Spec => []CrashNeedsOverlap
  <1>1. WindowInv => CrashNeedsOverlap
    BY DEF WindowInv
  <1> QED
    BY <1>1, WindowInvariant, PTL

(* The buttons and the status line show running_info when no thread works. *)
THEOREM ViewsShowRunningInfo == Spec => []ViewsAgree
  <1>1. WindowInv => ViewsAgree
    <2> SUFFICES ASSUME WindowInv, Quiet, ~overlapped PROVE Agree
      BY DEF ViewsAgree
    <2>1. Untouched
      BY DEF Quiet, Busy, Active, Untouched, UntouchedLabel
    <2> QED
      BY <2>1 DEF WindowInv, ViewsFollow
  <1> QED
    BY <1>1, WindowInvariant, PTL

(* No timer survives the bar it pulses.                                    *)
THEOREM NoTimerLeft == Spec => []TimersRemoved
  <1>1. WindowInv => TimersRemoved
    <2> SUFFICES ASSUME WindowInv, ~overlapped PROVE ~leaked /\ (Quiet => ~pulse)
      BY DEF TimersRemoved
    <2>1. ~leaked
      BY DEF WindowInv, TimerHasOwner
    <2>2. ASSUME Quiet, pulse PROVE FALSE
      <3>1. bar
        BY <2>2 DEF WindowInv, TimerHasOwner
      <3>2. PICK w \in Worker : pc[w] \in WillHide
        BY <3>1 DEF WindowInv, BarHasOwner
      <3> QED
        BY <2>2, <3>2 DEF Quiet, Busy, Active, WillHide, InfoLabel
    <2> QED
      BY <2>1, <2>2
  <1> QED
    BY <1>1, WindowInvariant, PTL

(* Stop signals the pid the window showed.                                 *)
THEOREM StopIsForShown == Spec => []StopHitsShown
  <1>1. WindowInv => StopHitsShown
    BY DEF WindowInv, StopFollows, StopHitsShown
  <1> QED
    BY <1>1, WindowInvariant, PTL

=============================================================================
