----------------------- MODULE HotspotStart_proofs -----------------------
(***************************************************************************)
(* HotspotInv of HotspotSession: what the threads know of the instances,   *)
(* and how the form reaches the instance that is started from it, for      *)
(* every set of threads, instances, names and bands.                       *)
(***************************************************************************)
EXTENDS HotspotSession_proofs

-----------------------------------------------------------------------------
(* The two things a thread does to an instance.                            *)
Signals(w, p) ==
    /\ pc[w] = "s_shell" /\ inst[p] \in Live
    /\ inst'[p] = "stopping" /\ conf'[p] = conf[p]
Starts(w, p) ==
    /\ pc[w] = "r_popen" /\ pc'[w] = "r_read" /\ reads'[w] = p
    /\ inst[p] = "none" /\ inst'[p] = "booting"
    /\ conf'[p] = [ssid |-> Null, band |-> cmdBand]

(* The parts of the invariant, as one thread sees them.                    *)
ReadsOf(w) ==
    /\ pc[w] \in {"r_read", "r_close"} => reads[w] \in Instance
    /\ reads[w] # Null => pc[w] \in InfoLabel \cup {"r_read", "r_close"}
    /\ reads[w] # Null /\ pc[w] # "r_read" => reads[w] \in announced
ListOf(w) ==
    /\ pc[w] = "i_parse" /\ listing = Null => NoneUp
    /\ pc[w] \in {"i_test", "i_on", "i_on2", "i_off"} /\ running = Null => NoneUp
FormOf(w) ==
    /\ pc[w] \in RunLabel \ {"r_close"} => freq = radio
    /\ pc[w] \in {"r_freq", "r_append"} => cmdBand = AnyBand
    /\ pc[w] = "r_popen" => cmdBand = freq
    /\ pc[w] = "r_read" => inst[reads[w]] # "stopping"
    /\ pc[w] = "r_read" /\ inst[reads[w]] = "booting"
          => conf[reads[w]] = [ssid |-> Null, band |-> radio]
FileOf(w) ==
    /\ pc[w] \in RunLabel \ {"r_close"} => file = [ssid |-> entry, band |-> radio]
    /\ pc[w] = "r_read" /\ inst[reads[w]] \in Live
          => conf[reads[w]] = [ssid |-> entry, band |-> radio]
    /\ reads[w] \in announced /\ inst[reads[w]] # "gone" => conf[reads[w]].ssid = entry

(* The first state: only the first listing is under way.                   *)
LEMMA InitEstablishesHotspot == Init => HotspotInv
  <1> SUFFICES ASSUME Init PROVE HotspotInv
    OBVIOUS
  <1>1. WindowInv
    BY InitEstablishes
  <1>2. PICK u \in Worker : pc = [v \in Worker |-> IF v = u THEN "i_free" ELSE "free"]
    BY DEF Init
  <1>3. \A w \in Worker : reads[w] = Null /\ pc[w] \in {"free", "i_free"}
    BY <1>2 DEF Init
  <1>4. pc[u] = "i_free" /\ main = "startup" /\ Null \notin announced
    BY <1>2, NullAssumption DEF Init
  <1>5. ReadersRead /\ StartupLists
    BY <1>3 DEF ReadersRead, StartupLists, InfoLabel
  <1>6. StartingIsRead
    <2>1. \A p \in Instance : inst[p] \in {"enabled", "none"} /\
                               (p \in announced => inst[p] = "enabled")
      BY OutsideAssumption DEF Init
    <2> QED
      BY <2>1 DEF StartingIsRead
  <1>7. ListingHolds
    BY <1>3, <1>4 DEF ListingHolds, Untouched, UntouchedLabel
  <1>8. FormFollows /\ FileFollows
    BY <1>3, <1>4 DEF FormFollows, FileFollows, RunLabel
  <1> QED
    BY <1>1, <1>5, <1>6, <1>7, <1>8 DEF HotspotInv

-----------------------------------------------------------------------------
(* What a step of a thread does to the instances and the form.             *)
LEMMA InstancesMoved ==
  ASSUME TypeOK, NEW w \in Worker, Thread(w)
  PROVE  /\ UNCHANGED <<announced, file, entry, radio, freq>>
         /\ denied => denied'
         /\ \A p \in Instance : \/ inst'[p] = inst[p] /\ conf'[p] = conf[p]
                                \/ Signals(w, p) \/ Starts(w, p)
  <1> USE DEF TypeOK, Step, At, Goto, Crash, flowVars, runVars, cmdVars, formVars, barVars, instVars, pastVars, Signals, Starts, Live
  <1>1. CASE init_running_info(w)
    <2>1. CASE FreeInfo(w)
      BY <2>1 DEF FreeInfo
    <2>2. CASE ResetInfo(w)
      BY <2>2 DEF ResetInfo, lock_all_views
    <2>3. CASE StartListing(w)
      BY <2>3 DEF StartListing
    <2>4. CASE ReadListing(w)
      BY <2>4 DEF ReadListing, Listed
    <2>5. CASE ListingFails(w)
      BY <2>5 DEF ListingFails
    <2>6. CASE get_h_running_info(w)
      BY <2>6 DEF get_h_running_info
    <2>7. CASE ShowRunning(w)
      BY <2>7 DEF ShowRunning
    <2>8. CASE ShowStopped(w)
      BY <2>8 DEF ShowStopped
    <2>9. CASE UnlockAll(w)
      BY <2>9 DEF UnlockAll, lock_all_views
    <2>10. CASE SetViews(w)
      BY <2>10 DEF SetViews, lock_running_views
    <2>11. CASE stop_pb_pulse(w)
      BY <2>11 DEF stop_pb_pulse
    <2> QED
      BY <1>1, <2>1, <2>2, <2>3, <2>4, <2>5, <2>6, <2>7, <2>8, <2>9, <2>10, <2>11 DEF init_running_info
  <1>2. CASE stopHp(w)
    <2>1. CASE StopTest(w)
      BY <2>1 DEF StopTest
    <2>2. CASE StopLock(w)
      BY <2>2 DEF StopLock, lock_all_views, start_pb_pulse
    <2>3. CASE StopBuild(w)
      BY <2>3 DEF StopBuild
    <2>4. CASE send_stop(w)
      BY <2>4 DEF send_stop
    <2>5. CASE StopRefused(w)
      BY <2>5 DEF StopRefused
    <2> QED
      BY <1>2, <2>1, <2>2, <2>3, <2>4, <2>5 DEF stopHp
  <1>3. CASE run_create_hp_shell(w)
    <2>1. CASE RunFreq(w)
      BY <2>1 DEF RunFreq
    <2>2. CASE RunAppend(w)
      BY <2>2 DEF RunAppend
    <2>3. CASE RunPopen(w)
      BY <2>3 DEF RunPopen, start_pb_pulse
    <2>4. CASE PopenFails(w)
      BY <2>4 DEF PopenFails
    <2>5. CASE RunEnabled(w)
      BY <2>5 DEF RunEnabled
    <2>6. CASE RunEnded(w)
      BY <2>6 DEF RunEnded
    <2>7. CASE RunClose(w)
      BY <2>7 DEF RunClose
    <2> QED
      BY <1>3, <2>1, <2>2, <2>3, <2>4, <2>5, <2>6, <2>7 DEF run_create_hp_shell
  <1> QED
    BY <1>1, <1>2, <1>3 DEF Thread

(* A thread leaves the output at AP-ENABLED or at its end, and comes to it *)
(* by popen.                                                               *)
LEMMA ReaderMoves ==
  ASSUME TypeOK, NEW w \in Worker, Thread(w)
  PROVE  /\ pc[w] = "r_read" =>
                reads[w] \in announced \/ inst[reads[w]] = "gone"
         /\ pc'[w] = "r_read" => reads'[w] \in Instance /\ Starts(w, reads'[w])
         /\ pc'[w] \in RunLabel \ {"r_close"} => pc[w] \in RunLabel \ {"r_close"}
         /\ pc'[w] # "r_read" => reads'[w] \in {reads[w], Null}
         /\ pc[w] \in InfoLabel /\ reads[w] = Null =>
                pc'[w] \in InfoLabel \cup {"free"} /\ reads'[w] = Null
  <1> USE DEF TypeOK, Step, At, Goto, Crash, InfoLabel, Starts, RunLabel
  <1>1. CASE init_running_info(w)
    <2>1. CASE FreeInfo(w)
      BY <2>1 DEF FreeInfo
    <2>2. CASE ResetInfo(w)
      BY <2>2 DEF ResetInfo, lock_all_views
    <2>3. CASE StartListing(w)
      BY <2>3 DEF StartListing
    <2>4. CASE ReadListing(w)
      BY <2>4 DEF ReadListing, Listed
    <2>5. CASE ListingFails(w)
      BY <2>5 DEF ListingFails
    <2>6. CASE get_h_running_info(w)
      BY <2>6 DEF get_h_running_info
    <2>7. CASE ShowRunning(w)
      BY <2>7 DEF ShowRunning
    <2>8. CASE ShowStopped(w)
      BY <2>8 DEF ShowStopped
    <2>9. CASE UnlockAll(w)
      BY <2>9 DEF UnlockAll, lock_all_views
    <2>10. CASE SetViews(w)
      BY <2>10 DEF SetViews, lock_running_views
    <2>11. CASE stop_pb_pulse(w)
      BY <2>11 DEF stop_pb_pulse
    <2> QED
      BY <1>1, <2>1, <2>2, <2>3, <2>4, <2>5, <2>6, <2>7, <2>8, <2>9, <2>10, <2>11 DEF init_running_info
  <1>2. CASE stopHp(w)
    <2>1. CASE StopTest(w)
      BY <2>1 DEF StopTest
    <2>2. CASE StopLock(w)
      BY <2>2 DEF StopLock, lock_all_views, start_pb_pulse
    <2>3. CASE StopBuild(w)
      BY <2>3 DEF StopBuild
    <2>4. CASE send_stop(w)
      BY <2>4 DEF send_stop
    <2>5. CASE StopRefused(w)
      BY <2>5 DEF StopRefused
    <2> QED
      BY <1>2, <2>1, <2>2, <2>3, <2>4, <2>5 DEF stopHp
  <1>3. CASE run_create_hp_shell(w)
    <2>1. CASE RunFreq(w)
      BY <2>1 DEF RunFreq
    <2>2. CASE RunAppend(w)
      BY <2>2 DEF RunAppend
    <2>3. CASE RunPopen(w)
      BY <2>3 DEF RunPopen, start_pb_pulse
    <2>4. CASE PopenFails(w)
      BY <2>4 DEF PopenFails
    <2>5. CASE RunEnabled(w)
      BY <2>5 DEF RunEnabled
    <2>6. CASE RunEnded(w)
      BY <2>6 DEF RunEnded
    <2>7. CASE RunClose(w)
      BY <2>7 DEF RunClose
    <2> QED
      BY <1>3, <2>1, <2>2, <2>3, <2>4, <2>5, <2>6, <2>7 DEF run_create_hp_shell
  <1> QED
    BY <1>1, <1>2, <1>3 DEF Thread

(* A thread reads an instance from its start to its end.                   *)
LEMMA ReadsKept ==
  ASSUME TypeOK, NEW w \in Worker, Thread(w), ReadsOf(w)
  PROVE  ReadsOf(w)'
  <1> USE DEF TypeOK, Step, At, Goto, Crash, InfoLabel, ReadsOf, Pid, instVars
  <1>1. CASE init_running_info(w)
    <2>1. CASE FreeInfo(w)
      BY <2>1 DEF FreeInfo
    <2>2. CASE ResetInfo(w)
      BY <2>2 DEF ResetInfo, lock_all_views
    <2>3. CASE StartListing(w)
      BY <2>3 DEF StartListing
    <2>4. CASE ReadListing(w)
      BY <2>4 DEF ReadListing, Listed
    <2>5. CASE ListingFails(w)
      BY <2>5 DEF ListingFails
    <2>6. CASE get_h_running_info(w)
      BY <2>6 DEF get_h_running_info
    <2>7. CASE ShowRunning(w)
      BY <2>7 DEF ShowRunning
    <2>8. CASE ShowStopped(w)
      BY <2>8 DEF ShowStopped
    <2>9. CASE UnlockAll(w)
      BY <2>9 DEF UnlockAll, lock_all_views
    <2>10. CASE SetViews(w)
      BY <2>10 DEF SetViews, lock_running_views
    <2>11. CASE stop_pb_pulse(w)
      BY <2>11 DEF stop_pb_pulse
    <2> QED
      BY <1>1, <2>1, <2>2, <2>3, <2>4, <2>5, <2>6, <2>7, <2>8, <2>9, <2>10, <2>11 DEF init_running_info
  <1>2. CASE stopHp(w)
    <2>1. CASE StopTest(w)
      BY <2>1 DEF StopTest
    <2>2. CASE StopLock(w)
      BY <2>2 DEF StopLock, lock_all_views, start_pb_pulse
    <2>3. CASE StopBuild(w)
      BY <2>3 DEF StopBuild
    <2>4. CASE send_stop(w)
      BY <2>4 DEF send_stop
    <2>5. CASE StopRefused(w)
      BY <2>5 DEF StopRefused
    <2> QED
      BY <1>2, <2>1, <2>2, <2>3, <2>4, <2>5 DEF stopHp
  <1>3. CASE run_create_hp_shell(w)
    <2>1. CASE RunFreq(w)
      BY <2>1 DEF RunFreq
    <2>2. CASE RunAppend(w)
      BY <2>2 DEF RunAppend
    <2>3. CASE RunPopen(w)
      BY <2>3 DEF RunPopen, start_pb_pulse
    <2>4. CASE PopenFails(w)
      BY <2>4 DEF PopenFails
    <2>5. CASE RunEnabled(w)
      BY <2>5 DEF RunEnabled
    <2>6. CASE RunEnded(w)
      BY <2>6 DEF RunEnded
    <2>7. CASE RunClose(w)
      BY <2>7 DEF RunClose
    <2> QED
      BY <1>3, <2>1, <2>2, <2>3, <2>4, <2>5, <2>6, <2>7 DEF run_create_hp_shell
  <1> QED
    BY <1>1, <1>2, <1>3 DEF Thread

(* A listing that was empty stays true to the end of the thread.           *)
LEMMA ListKept ==
  ASSUME TypeOK, NEW w \in Worker, Thread(w), ~denied', PathOf(w), ListOf(w), NoneUp => NoneUp'
  PROVE  ListOf(w)'
  <1> USE DEF TypeOK, Step, At, Goto, Crash, PathOf, ListOf, runVars, pastVars
  <1>1. CASE init_running_info(w)
    <2>1. CASE FreeInfo(w)
      BY <2>1 DEF FreeInfo
    <2>2. CASE ResetInfo(w)
      BY <2>2 DEF ResetInfo, lock_all_views
    <2>3. CASE StartListing(w)
      BY <2>3 DEF StartListing
    <2>4. CASE ReadListing(w)
      BY <2>4, NullAssumption DEF ReadListing, Listed, NoneUp, Up
    <2>5. CASE ListingFails(w)
      BY <2>5 DEF ListingFails
    <2>6. CASE get_h_running_info(w)
      BY <2>6 DEF get_h_running_info
    <2>7. CASE ShowRunning(w)
      BY <2>7 DEF ShowRunning
    <2>8. CASE ShowStopped(w)
      BY <2>8 DEF ShowStopped
    <2>9. CASE UnlockAll(w)
      BY <2>9 DEF UnlockAll, lock_all_views
    <2>10. CASE SetViews(w)
      BY <2>10 DEF SetViews, lock_running_views
    <2>11. CASE stop_pb_pulse(w)
      BY <2>11 DEF stop_pb_pulse
    <2> QED
      BY <1>1, <2>1, <2>2, <2>3, <2>4, <2>5, <2>6, <2>7, <2>8, <2>9, <2>10, <2>11 DEF init_running_info
  <1>2. CASE stopHp(w)
    <2>1. CASE StopTest(w)
      BY <2>1 DEF StopTest
    <2>2. CASE StopLock(w)
      BY <2>2 DEF StopLock, lock_all_views, start_pb_pulse
    <2>3. CASE StopBuild(w)
      BY <2>3 DEF StopBuild
    <2>4. CASE send_stop(w)
      BY <2>4 DEF send_stop
    <2>5. CASE StopRefused(w)
      BY <2>5 DEF StopRefused
    <2> QED
      BY <1>2, <2>1, <2>2, <2>3, <2>4, <2>5 DEF stopHp
  <1>3. CASE run_create_hp_shell(w)
    <2>1. CASE RunFreq(w)
      BY <2>1 DEF RunFreq
    <2>2. CASE RunAppend(w)
      BY <2>2 DEF RunAppend
    <2>3. CASE RunPopen(w)
      BY <2>3 DEF RunPopen, start_pb_pulse
    <2>4. CASE PopenFails(w)
      BY <2>4 DEF PopenFails
    <2>5. CASE RunEnabled(w)
      BY <2>5 DEF RunEnabled
    <2>6. CASE RunEnded(w)
      BY <2>6 DEF RunEnded
    <2>7. CASE RunClose(w)
      BY <2>7 DEF RunClose
    <2> QED
      BY <1>3, <2>1, <2>2, <2>3, <2>4, <2>5, <2>6, <2>7 DEF run_create_hp_shell
  <1> QED
    BY <1>1, <1>2, <1>3 DEF Thread

(* The thread that ends with no hotspot known has found none.              *)
LEMMA NoneKept ==
  ASSUME TypeOK, NEW w \in Worker, Thread(w), ~denied', PathOf(w), ListOf(w), NoneUp => NoneUp',
         pc[w] \in UntouchedLabel /\ running = Null => NoneUp, pc[w] # "r_close",
         pc'[w] \in UntouchedLabel, running' = Null
  PROVE  NoneUp'
  <1> USE DEF TypeOK, Step, At, Goto, Crash, PathOf, ListOf, UntouchedLabel, runVars, pastVars
  <1>1. CASE init_running_info(w)
    <2>1. CASE FreeInfo(w)
      BY <2>1 DEF FreeInfo
    <2>2. CASE ResetInfo(w)
      BY <2>2 DEF ResetInfo, lock_all_views
    <2>3. CASE StartListing(w)
      BY <2>3 DEF StartListing
    <2>4. CASE ReadListing(w)
      BY <2>4 DEF ReadListing, Listed
    <2>5. CASE ListingFails(w)
      BY <2>5 DEF ListingFails
    <2>6. CASE get_h_running_info(w)
      BY <2>6 DEF get_h_running_info
    <2>7. CASE ShowRunning(w)
      BY <2>7 DEF ShowRunning
    <2>8. CASE ShowStopped(w)
      BY <2>8 DEF ShowStopped
    <2>9. CASE UnlockAll(w)
      BY <2>9 DEF UnlockAll, lock_all_views
    <2>10. CASE SetViews(w)
      BY <2>10 DEF SetViews, lock_running_views
    <2>11. CASE stop_pb_pulse(w)
      BY <2>11 DEF stop_pb_pulse
    <2> QED
      BY <1>1, <2>1, <2>2, <2>3, <2>4, <2>5, <2>6, <2>7, <2>8, <2>9, <2>10, <2>11 DEF init_running_info
  <1>2. CASE stopHp(w)
    <2>1. CASE StopTest(w)
      BY <2>1 DEF StopTest
    <2>2. CASE StopLock(w)
      BY <2>2 DEF StopLock, lock_all_views, start_pb_pulse
    <2>3. CASE StopBuild(w)
      BY <2>3 DEF StopBuild
    <2>4. CASE send_stop(w)
      BY <2>4 DEF send_stop
    <2>5. CASE StopRefused(w)
      BY <2>5 DEF StopRefused
    <2> QED
      BY <1>2, <2>1, <2>2, <2>3, <2>4, <2>5 DEF stopHp
  <1>3. CASE run_create_hp_shell(w)
    <2>1. CASE RunFreq(w)
      BY <2>1 DEF RunFreq
    <2>2. CASE RunAppend(w)
      BY <2>2 DEF RunAppend
    <2>3. CASE RunPopen(w)
      BY <2>3 DEF RunPopen, start_pb_pulse
    <2>4. CASE PopenFails(w)
      BY <2>4 DEF PopenFails
    <2>5. CASE RunEnabled(w)
      BY <2>5 DEF RunEnabled
    <2>6. CASE RunEnded(w)
      BY <2>6 DEF RunEnded
    <2>7. CASE RunClose(w)
      BY <2>7 DEF RunClose
    <2> QED
      BY <1>3, <2>1, <2>2, <2>3, <2>4, <2>5, <2>6, <2>7 DEF run_create_hp_shell
  <1> QED
    BY <1>1, <1>2, <1>3 DEF Thread

(* The band of the form goes through the buffer to the command line.       *)
LEMMA FormKept ==
  ASSUME TypeOK, NEW w \in Worker, Thread(w), FormOf(w)
  PROVE  FormOf(w)'
  <1> USE DEF TypeOK, Step, At, Goto, Crash, FormOf, RunLabel, formVars, cmdVars
  <1>1. CASE init_running_info(w)
    <2>1. CASE FreeInfo(w)
      BY <2>1 DEF FreeInfo
    <2>2. CASE ResetInfo(w)
      BY <2>2 DEF ResetInfo, lock_all_views
    <2>3. CASE StartListing(w)
      BY <2>3 DEF StartListing
    <2>4. CASE ReadListing(w)
      BY <2>4 DEF ReadListing, Listed
    <2>5. CASE ListingFails(w)
      BY <2>5 DEF ListingFails
    <2>6. CASE get_h_running_info(w)
      BY <2>6 DEF get_h_running_info
    <2>7. CASE ShowRunning(w)
      BY <2>7 DEF ShowRunning
    <2>8. CASE ShowStopped(w)
      BY <2>8 DEF ShowStopped
    <2>9. CASE UnlockAll(w)
      BY <2>9 DEF UnlockAll, lock_all_views
    <2>10. CASE SetViews(w)
      BY <2>10 DEF SetViews, lock_running_views
    <2>11. CASE stop_pb_pulse(w)
      BY <2>11 DEF stop_pb_pulse
    <2> QED
      BY <1>1, <2>1, <2>2, <2>3, <2>4, <2>5, <2>6, <2>7, <2>8, <2>9, <2>10, <2>11 DEF init_running_info
  <1>2. CASE stopHp(w)
    <2>1. CASE StopTest(w)
      BY <2>1 DEF StopTest
    <2>2. CASE StopLock(w)
      BY <2>2 DEF StopLock, lock_all_views, start_pb_pulse
    <2>3. CASE StopBuild(w)
      BY <2>3 DEF StopBuild
    <2>4. CASE send_stop(w)
      BY <2>4 DEF send_stop
    <2>5. CASE StopRefused(w)
      BY <2>5 DEF StopRefused
    <2> QED
      BY <1>2, <2>1, <2>2, <2>3, <2>4, <2>5 DEF stopHp
  <1>3. CASE run_create_hp_shell(w)
    <2>1. CASE RunFreq(w)
      BY <2>1 DEF RunFreq
    <2>2. CASE RunAppend(w)
      BY <2>2 DEF RunAppend
    <2>3. CASE RunPopen(w)
      BY <2>3 DEF RunPopen, start_pb_pulse
    <2>4. CASE PopenFails(w)
      BY <2>4 DEF PopenFails
    <2>5. CASE RunEnabled(w)
      BY <2>5 DEF RunEnabled
    <2>6. CASE RunEnded(w)
      BY <2>6 DEF RunEnded
    <2>7. CASE RunClose(w)
      BY <2>7 DEF RunClose
    <2> QED
      BY <1>3, <2>1, <2>2, <2>3, <2>4, <2>5, <2>6, <2>7 DEF run_create_hp_shell
  <1> QED
    BY <1>1, <1>2, <1>3 DEF Thread

-----------------------------------------------------------------------------
(* What the user, the main thread and the instances leave alone.           *)
LEMMA OthersKeep ==
  ASSUME TypeOK, Others
  PROVE  /\ reads' = reads /\ announced \subseteq announced'
         /\ denied => denied'
         /\ UserActs \/ Main => UNCHANGED <<inst, conf, announced>>
         /\ ~Configure => UNCHANGED <<file, cmdBand>>
                            /\ \A v \in Worker : pc'[v] = "r_freq" => pc[v] = "r_freq"
         /\ main' = "startup" => main = "startup" /\ pc' = pc
         /\ main' = "mkconfig" => main = "mkconfig" \/ ClickCreate
  <1>1. CASE UserActs
    <2>1. CASE on_stop_hp_clicked
      <3>1. PICK w \in Worker : Spawn(w, "s_test")
        BY <2>1 DEF on_stop_hp_clicked
      <3>2. main = "idle" /\ main' = "idle"
        BY <2>1 DEF on_stop_hp_clicked, User
      <3>3. \A v \in Worker : pc'[v] = pc[v] \/ pc'[v] = "s_test"
        BY <3>1 DEF Spawn, Goto, TypeOK
      <3>4. UNCHANGED <<reads, denied, file, inst, conf, announced, cmdBand>>
        BY <2>1 DEF on_stop_hp_clicked, instVars, cmdVars
      <3> QED
        BY <3>2, <3>3, <3>4
    <2>2. CASE ClickCreate
      BY <2>2 DEF ClickCreate, User, instVars, cmdVars
    <2>3. CASE on_refresh_clicked
      BY <2>3 DEF on_refresh_clicked, User, instVars, cmdVars
    <2>4. CASE update_freq_toggle \/ EditSsid
      BY <2>4 DEF update_freq_toggle, EditSsid, User, instVars, cmdVars
    <2> QED
      BY <1>1, <2>1, <2>2, <2>3, <2>4 DEF UserActs
  <1>2. CASE Configure
    BY <1>2 DEF Configure, instVars
  <1>3. CASE initUi
    BY <1>3 DEF initUi, instVars, cmdVars, pastVars
  <1>4. CASE set_connected_devices_label
    BY <1>4 DEF set_connected_devices_label, Crash, instVars, cmdVars, pastVars
  <1>5. ASSUME NEW p \in Instance, CreateAp(p), ~UserActs, ~Main
        PROVE  /\ UNCHANGED <<reads, denied, file, cmdBand, main, pc>>
               /\ announced \subseteq announced'
    BY <1>5 DEF CreateAp, Boot, Enable, End, flowVars, cmdVars, pastVars
  <1>6. CASE UNCHANGED vars /\ ~UserActs /\ ~Main
    BY <1>6 DEF vars, flowVars, cmdVars, pastVars, instVars
  <1> QED
    BY <1>1, <1>2, <1>3, <1>4, <1>5, <1>6 DEF Others, Main

-----------------------------------------------------------------------------
(* Who reads an instance goes on reading it.                               *)
LEMMA StepKeepsReaders ==
  ASSUME TypeOK, ReadersRead, [Next]_vars
  PROVE  ReadersRead'
  <1> SUFFICES \A v \in Worker : ReadsOf(v)'
    BY DEF ReadersRead, ReadsOf
  <1>0. \A v \in Worker : ReadsOf(v)
    BY DEF ReadersRead, ReadsOf
  <1>1. ASSUME NEW w \in Worker, Thread(w), NEW v \in Worker PROVE ReadsOf(v)'
    <2>1. CASE v = w
      BY <1>0, <1>1, <2>1, ReadsKept
    <2>2. CASE v # w
      <3>1. pc'[v] = pc[v] /\ reads'[v] = reads[v] /\ announced' = announced
        BY <1>1, <2>2, ThreadMoves, InstancesMoved
      <3> QED
        BY <1>0, <3>1 DEF ReadsOf
    <2> QED
      BY <2>1, <2>2
  <1>2. ASSUME Others, NEW v \in Worker PROVE ReadsOf(v)'
    <2>1. reads' = reads /\ announced \subseteq announced'
      BY <1>2, OthersKeep
    <2>2. pc'[v] = pc[v] \/ (pc[v] = "free" /\ pc'[v] \in {"s_test", "r_freq"})
      BY <1>2, OthersLeave
    <2> QED
      BY <1>0, <2>1, <2>2 DEF ReadsOf, InfoLabel
  <1> QED
    BY <1>1, <1>2 DEF Next, Others

(* Only the first listing is under way until the form is loaded.           *)
LEMMA StepKeepsStartup ==
  ASSUME TypeOK, StartupLists, [Next]_vars
  PROVE  StartupLists'
  <1> SUFFICES ASSUME main' = "startup", NEW v \in Worker
               PROVE  pc'[v] \in {"free"} \cup InfoLabel /\ reads'[v] = Null
    BY DEF StartupLists
  <1>1. ASSUME NEW w \in Worker, Thread(w)
        PROVE  pc'[v] \in {"free"} \cup InfoLabel /\ reads'[v] = Null
    <2>1. main = "startup"
      BY <1>1, ThreadMoves
    <2>2. \A u \in Worker : pc[u] \in {"free"} \cup InfoLabel /\ reads[u] = Null
      BY <2>1 DEF StartupLists
    <2>3. pc[w] # "free"
      BY <1>1, ThreadMoves
    <2>4. CASE v = w
      BY <1>1, <2>2, <2>3, <2>4, ReaderMoves
    <2>5. CASE v # w
      BY <1>1, <2>2, <2>5, ThreadMoves
    <2> QED
      BY <2>4, <2>5
  <1>2. ASSUME Others PROVE pc'[v] \in {"free"} \cup InfoLabel /\ reads'[v] = Null
    BY <1>2, OthersKeep DEF StartupLists
  <1> QED
    BY <1>1, <1>2 DEF Next, Others

(* An instance on its way up has the thread that started it.               *)
LEMMA StepKeepsStarting ==
  ASSUME TypeOK, ReadersRead, StartingIsRead, [Next]_vars
  PROVE  StartingIsRead'
  <1> SUFFICES ASSUME NEW p \in Instance
               PROVE  /\ inst'[p] \in {"booting", "listed"} =>
                            \E w \in Worker : pc'[w] = "r_read" /\ reads'[w] = p
                      /\ p \in announced' => inst'[p] \in {"enabled", "stopping", "gone"}
    BY DEF StartingIsRead
  <1> DEFINE Goal == /\ inst'[p] \in {"booting", "listed"} =>
                            \E w \in Worker : pc'[w] = "r_read" /\ reads'[w] = p
                     /\ p \in announced' => inst'[p] \in {"enabled", "stopping", "gone"}
  <1>0. /\ inst[p] \in {"booting", "listed"} =>
              \E w \in Worker : pc[w] = "r_read" /\ reads[w] = p
        /\ p \in announced => inst[p] \in {"enabled", "stopping", "gone"}
    BY DEF StartingIsRead
  <1>1. ASSUME NEW w \in Worker, Thread(w) PROVE Goal
    <2>0. announced' = announced
      BY <1>1, InstancesMoved
    <2>1. CASE inst'[p] = inst[p]
      <3>1. ASSUME inst[p] \in {"booting", "listed"}
            PROVE  \E v \in Worker : pc'[v] = "r_read" /\ reads'[v] = p
        <4>1. PICK v \in Worker : pc[v] = "r_read" /\ reads[v] = p
          BY <1>0, <3>1
        <4>2. p \notin announced
          BY <1>0, <3>1
        <4>3. v # w
          BY <1>1, <3>1, <4>1, <4>2, ReaderMoves
        <4> QED
          BY <1>1, <4>1, <4>3, ThreadMoves
      <3> QED
        BY <1>0, <2>0, <2>1, <3>1
    <2>2. CASE Signals(w, p)
      BY <2>2 DEF Signals
    <2>3. CASE Starts(w, p)
      BY <1>0, <2>0, <2>3 DEF Starts
    <2> QED
      BY <1>1, <2>1, <2>2, <2>3, InstancesMoved
  <1>2. CASE UserActs \/ Main \/ UNCHANGED vars
    <2>1. UNCHANGED <<inst, announced, reads>>
      BY <1>2, OthersKeep DEF Others, vars, instVars, flowVars
    <2>2. \A v \in Worker : pc[v] = "r_read" => pc'[v] = "r_read"
      BY <1>2, OthersLeave DEF Others
    <2> QED
      BY <1>0, <2>1, <2>2
  <1>3. ASSUME NEW a \in Instance, CreateAp(a) PROVE Goal
    <2>1. pc' = pc /\ reads' = reads
      BY <1>3 DEF CreateAp, Boot, Enable, End, flowVars
    <2>2. CASE a # p
      <3>1. inst'[p] = inst[p] /\ (p \in announced' => p \in announced)
        BY <1>3, <2>2 DEF CreateAp, Boot, Enable, End, TypeOK
      <3> QED
        BY <1>0, <2>1, <3>1
    <2>3. CASE a = p
      <3>1. \/ inst[p] = "booting" /\ inst'[p] = "listed" /\ announced' = announced
            \/ inst'[p] = "enabled"
            \/ inst'[p] = "gone"
        BY <1>3, <2>3 DEF CreateAp, Boot, Enable, End, TypeOK
      <3> QED
        BY <1>0, <2>1, <3>1
    <2> QED
      BY <2>2, <2>3
  <1> QED
    BY <1>1, <1>2, <1>3 DEF Next

-----------------------------------------------------------------------------
(* The parts of the invariant, thread by thread.                           *)
LEMMA Parts ==
  ASSUME ~overlapped
  PROVE  /\ ViewsFollow => \A v \in Worker : PathOf(v)
         /\ ListingHolds /\ ~denied => \A v \in Worker : ListOf(v)
         /\ FormFollows => \A v \in Worker : FormOf(v)
         /\ FileFollows /\ ~denied => \A v \in Worker : FileOf(v)
  <1>1. ViewsFollow => \A v \in Worker : PathOf(v)
    BY DEF ViewsFollow, PathOf
  <1>2. ListingHolds /\ ~denied => \A v \in Worker : ListOf(v)
    BY DEF ListingHolds, ListOf
  <1>3. FormFollows => \A v \in Worker : FormOf(v)
    BY DEF FormFollows, FormOf
  <1>4. FileFollows /\ ~denied => \A v \in Worker : FileOf(v)
    BY DEF FileFollows, FileOf
  <1> QED
    BY <1>1, <1>2, <1>3, <1>4

(* No thread brings an instance up, it only starts one.                    *)
LEMMA NoneStaysUp ==
  ASSUME TypeOK, NEW w \in Worker, Thread(w), NoneUp
  PROVE  NoneUp'
  <1> SUFFICES ASSUME NEW p \in Instance PROVE inst'[p] \notin Up
    BY DEF NoneUp
  <1>1. inst[p] \notin Up
    BY DEF NoneUp
  <1>2. inst'[p] = inst[p] \/ Signals(w, p) \/ Starts(w, p)
    BY InstancesMoved
  <1> QED
    BY <1>1, <1>2 DEF Signals, Starts, Up, Live

(* When a listing was empty, what comes up later has a thread that reads   *)
(* it and is not through.                                                  *)
LEMMA StepKeepsListing ==
  ASSUME TypeOK, OneAtWork, ViewsFollow, StartingIsRead, ListingHolds, [Next]_vars
  PROVE  ListingHolds'
  <1> DEFINE Ended == Untouched /\ running = Null => NoneUp
  <1> SUFFICES ASSUME ~overlapped', ~denied' PROVE Ended' /\ \A v \in Worker : ListOf(v)'
    BY DEF ListingHolds, ListOf
  <1>1. ASSUME NEW w \in Worker, Thread(w), pc[w] # "r_close"
        PROVE  Ended' /\ \A v \in Worker : ListOf(v)'
    <2>1. /\ ~overlapped
          /\ \A v \in Worker \ {w} : pc'[v] = pc[v] /\ pc[v] \in {"free", "r_close"}
      BY <1>1, Alone
    <2>2. ~denied
      BY <1>1, InstancesMoved
    <2>3. PathOf(w) /\ ListOf(w) /\ Ended
      BY <2>1, <2>2, Parts DEF ListingHolds
    <2>4. pc[w] \in UntouchedLabel /\ running = Null => NoneUp
      BY <2>1, <2>3 DEF Untouched, UntouchedLabel
    <2>5. NoneUp => NoneUp'
      BY <1>1, NoneStaysUp
    <2>6. ListOf(w)'
      BY <1>1, <2>3, <2>5, ListKept
    <2>7. \A v \in Worker \ {w} : ListOf(v)'
      BY <2>1 DEF ListOf
    <2>8. ASSUME Untouched', running' = Null PROVE NoneUp'
      <3>1. pc'[w] \in UntouchedLabel
        BY <2>8 DEF Untouched
      <3> QED
        BY <1>1, <2>3, <2>4, <2>5, <2>8, <3>1, NoneKept
    <2> QED
      BY <2>6, <2>7, <2>8
  <1>2. ASSUME NEW w \in Worker, Thread(w), pc[w] = "r_close"
        PROVE  Ended' /\ \A v \in Worker : ListOf(v)'
    <2>1. pc' = [pc EXCEPT ![w] = "free"] /\ UNCHANGED <<runVars, instVars, pastVars>>
      BY <1>2, Closes
    <2>2. \A v \in Worker : pc'[v] = pc[v] \/ (pc[v] = "r_close" /\ pc'[v] = "free")
      BY <1>2, <2>1 DEF TypeOK
    <2>3. ~overlapped /\ ~denied /\ Ended /\ \A v \in Worker : ListOf(v)
      BY <2>1, Parts DEF pastVars, ListingHolds
    <2>4. Untouched' => Untouched
      BY <2>2 DEF Untouched, UntouchedLabel
    <2>5. NoneUp => NoneUp'
      BY <2>1 DEF NoneUp, instVars
    <2> QED
      BY <2>1, <2>2, <2>3, <2>4, <2>5 DEF ListOf, runVars
  <1>3. ASSUME Others PROVE Ended' /\ \A v \in Worker : ListOf(v)'
    <2>1. ~overlapped /\ ~denied /\ UNCHANGED runVars
      BY <1>3, OthersLeave, OthersKeep
    <2>2. \A v \in Worker :
              pc'[v] = pc[v] \/ (pc[v] = "free" /\ pc'[v] \in {"s_test", "r_freq"})
      BY <1>3, OthersLeave
    <2>3. Untouched' => Untouched
      BY <2>2 DEF Untouched, UntouchedLabel
    <2>4. Ended /\ \A v \in Worker : ListOf(v)
      BY <2>1, Parts DEF ListingHolds
    <2>5. ASSUME NoneUp => NoneUp' PROVE Ended' /\ \A v \in Worker : ListOf(v)'
      BY <2>1, <2>2, <2>3, <2>4, <2>5 DEF ListOf, runVars
    <2>6. ASSUME NEW p \in Instance, Boot(p) PROVE Ended' /\ \A v \in Worker : ListOf(v)'
      <3>1. PICK u \in Worker : pc[u] = "r_read"
        BY <2>6 DEF Boot, StartingIsRead
      <3>2. pc' = pc
        BY <2>6 DEF Boot, flowVars
      <3>3. ~Untouched'
        BY <3>1, <3>2 DEF Untouched, UntouchedLabel
      <3>4. \A v \in Worker : pc[v] \notin {"i_parse", "i_test", "i_on", "i_on2", "i_off"}
        BY <2>1, <3>1 DEF OneAtWork, Active
      <3> QED
        BY <3>2, <3>3, <3>4 DEF ListOf
    <2>7. CASE ~\E p \in Instance : Boot(p)
      <3>1. ASSUME NoneUp, NEW q \in Instance PROVE inst'[q] \notin Up
        <4>1. inst[q] \notin Up
          BY <3>1 DEF NoneUp
        <4>2. inst'[q] = inst[q] \/ inst'[q] = "gone" \/ inst[q] \in Up
          <5>1. CASE UserActs \/ Main \/ UNCHANGED vars
            BY <1>3, <5>1, OthersKeep DEF vars, instVars
          <5>2. ASSUME NEW p \in Instance, Enable(p) \/ End(p)
                PROVE  inst'[q] = inst[q] \/ inst'[q] = "gone" \/ inst[q] \in Up
            BY <5>2 DEF Enable, End, TypeOK, Up
          <5> QED
            BY <1>3, <2>7, <5>1, <5>2 DEF Others, CreateAp
        <4> QED
          BY <4>1, <4>2 DEF Up
      <3>2. NoneUp => NoneUp'
        BY <3>1 DEF NoneUp
      <3> QED
        BY <2>5, <3>2
    <2> QED
      BY <2>6, <2>7
  <1> QED
    BY <1>1, <1>2, <1>3 DEF Next, Others

(* The band of the form at the click is the band on the command line.      *)
LEMMA StepKeepsForm ==
  ASSUME TypeOK, OneAtWork, ReadersRead, StartupLists, FormFollows, [Next]_vars
  PROVE  FormFollows'
  <1> DEFINE Told == main = "mkconfig" => freq = radio
  <1> SUFFICES ASSUME ~overlapped' PROVE Told' /\ \A v \in Worker : FormOf(v)'
    BY DEF FormFollows, FormOf
  <1>1. ASSUME NEW w \in Worker, Thread(w), pc[w] # "r_close"
        PROVE  Told' /\ \A v \in Worker : FormOf(v)'
    <2>1. /\ ~overlapped /\ main' = main /\ main # "mkconfig"
          /\ \A v \in Worker \ {w} : pc'[v] = pc[v] /\ pc[v] \in {"free", "r_close"}
      BY <1>1, Alone
    <2>2. FormOf(w)'
      BY <1>1, <2>1, Parts, FormKept
    <2> QED
      BY <2>1, <2>2 DEF FormOf, RunLabel
  <1>2. ASSUME NEW w \in Worker, Thread(w), pc[w] = "r_close"
        PROVE  Told' /\ \A v \in Worker : FormOf(v)'
    <2>1. /\ pc' = [pc EXCEPT ![w] = "free"]
          /\ UNCHANGED <<main, cmdVars, formVars, instVars, pastVars>>
      BY <1>2, Closes
    <2>2. ~overlapped /\ Told /\ \A v \in Worker : FormOf(v)
      BY <2>1, Parts DEF pastVars, FormFollows
    <2>3. \A v \in Worker \ {w} : pc'[v] = pc[v] /\ reads'[v] = reads[v]
      BY <1>2, ThreadMoves
    <2>4. pc'[w] = "free"
      BY <2>1 DEF TypeOK
    <2> QED
      BY <2>1, <2>2, <2>3, <2>4 DEF FormOf, RunLabel, cmdVars, formVars, instVars
  <1>3. CASE UserActs
    <2>1. ~Busy /\ ~overlapped /\ Others
      BY <1>3, OthersLeave DEF Others
    <2>2. \A v \in Worker : pc'[v] \in {"free", "r_close", "s_test"}
      <3>1. ~Configure
        BY <1>3 DEF UserActs, User, ClickCreate, on_stop_hp_clicked, on_refresh_clicked,
                    update_freq_toggle, EditSsid, Configure
      <3> QED
        BY <2>1, <3>1, OthersLeave, OthersKeep DEF Busy, Active
    <2>3. main = "idle"
      BY <1>3 DEF UserActs, User, ClickCreate, on_stop_hp_clicked, on_refresh_clicked,
                    update_freq_toggle, EditSsid
    <2>4. Told'
      BY <2>1, <2>3, OthersKeep DEF ClickCreate
    <2> QED
      BY <2>2, <2>4 DEF FormOf, RunLabel
  <1>4. CASE initUi
    <2>1. main = "startup" /\ main' = "idle" /\ pc' = pc
      BY <1>4 DEF initUi
    <2>2. \A v \in Worker : pc'[v] \in {"free"} \cup InfoLabel
      BY <2>1 DEF StartupLists
    <2> QED
      BY <2>1, <2>2 DEF FormOf, RunLabel, InfoLabel
  <1>5. CASE Configure
    <2>1. /\ ~overlapped /\ main = "mkconfig" /\ main' = "idle" /\ cmdBand' = AnyBand
          /\ freq' = freq /\ radio' = radio
      BY <1>5 DEF Configure, formVars
    <2>2. freq = radio /\ ~Busy
      BY <2>1 DEF FormFollows, OneAtWork
    <2>3. \A v \in Worker : pc'[v] \in {"free", "r_close", "s_test", "r_freq"}
      BY <1>5, <2>2, OthersLeave DEF Others, Main, Busy, Active
    <2> QED
      BY <2>1, <2>2, <2>3 DEF FormOf, RunLabel
  <1>6. CASE set_connected_devices_label \/ UNCHANGED vars
    <2>1. /\ ~overlapped /\ main' \in {main, "idle"}
          /\ UNCHANGED <<pc, reads, freq, radio, cmdBand, inst, conf>>
      BY <1>6 DEF set_connected_devices_label, Crash, vars, flowVars, cmdVars, formVars,
                  instVars, pastVars
    <2>2. Told /\ \A v \in Worker : FormOf(v)
      BY <2>1, Parts DEF FormFollows
    <2> QED
      BY <2>1, <2>2 DEF FormOf
  <1>7. ASSUME NEW p \in Instance, CreateAp(p) PROVE Told' /\ \A v \in Worker : FormOf(v)'
    <2>1. ~overlapped /\ UNCHANGED <<main, pc, reads, freq, radio, cmdBand>>
      BY <1>7 DEF CreateAp, Boot, Enable, End, flowVars, cmdVars, formVars, pastVars
    <2>2. Told /\ \A v \in Worker : FormOf(v)
      BY <2>1, Parts DEF FormFollows
    <2>3. inst'[p] \in {"listed", "enabled", "gone"}
      BY <1>7 DEF CreateAp, Boot, Enable, End, TypeOK
    <2>4. \A a \in Instance : a # p => inst'[a] = inst[a] /\ conf'[a] = conf[a]
      BY <1>7 DEF CreateAp, Boot, Enable, End, TypeOK
    <2>5. \A v \in Worker : pc[v] = "r_read" => reads[v] \in Instance
      BY DEF ReadersRead
    <2> QED
      BY <2>1, <2>2, <2>3, <2>4, <2>5 DEF FormOf
  <1> QED
    BY <1>1, <1>2, <1>3, <1>4, <1>5, <1>6, <1>7 DEF Next, Main

(* What an instance that has come up runs with never changes.              *)
LEMMA SettingsKept ==
  ASSUME TypeOK, StartingIsRead, NEW w \in Worker, Thread(w),
         NEW p, p \in announced', inst'[p] # "gone"
  PROVE  p \in announced /\ inst[p] # "gone" /\ conf'[p] = conf[p]
  <1>1. p \in announced /\ p \in Instance
    BY InstancesMoved DEF TypeOK
  <1>2. (inst'[p] = inst[p] /\ conf'[p] = conf[p]) \/ Signals(w, p) \/ Starts(w, p)
    BY <1>1, InstancesMoved
  <1>3. inst[p] # "none"
    BY <1>1 DEF StartingIsRead
  <1> QED
    BY <1>1, <1>2, <1>3 DEF Signals, Starts, Live

(* The settings of the form at the click are those of the file, and then   *)
(* of the instance.                                                        *)
LEMMA StepKeepsFile ==
  ASSUME HotspotInv, [Next]_vars
  PROVE  FileFollows'
  <1> SUFFICES ASSUME ~overlapped', ~denied', NEW v \in Worker PROVE FileOf(v)'
    BY DEF FileFollows, FileOf
  <1>0. /\ TypeOK /\ OneAtWork /\ ViewsFollow /\ ReadersRead /\ StartingIsRead
        /\ StartupLists /\ ListingHolds /\ FormFollows /\ FileFollows
    BY DEF HotspotInv, WindowInv
  <1>a. Null \notin announced /\ announced \subseteq Instance
    BY <1>0, NullAssumption DEF TypeOK
  <1> DEFINE Runs(u) == reads[u] \in announced /\ inst[reads[u]] # "gone"
                           => conf[reads[u]].ssid = entry
  <1>1. ASSUME NEW w \in Worker, Thread(w), pc[w] # "r_close" PROVE FileOf(v)'
    <2>1. /\ ~overlapped /\ ~denied
          /\ \A u \in Worker \ {w} : pc'[u] = pc[u] /\ pc[u] \in {"free", "r_close"}
      BY <1>0, <1>1, Alone, InstancesMoved
    <2>2. FileOf(v)
      BY <1>0, <2>1, Parts
    <2>3. UNCHANGED <<announced, file, entry, radio>>
      BY <1>0, <1>1, InstancesMoved
    <2>4. ASSUME reads'[v] = reads[v] PROVE Runs(v)'
      BY <1>0, <1>1, <2>2, <2>3, <2>4, SettingsKept DEF FileOf
    <2>5. CASE v # w
      <3>1. reads'[v] = reads[v]
        BY <1>0, <1>1, <2>5, ThreadMoves
      <3> QED
        BY <2>1, <2>4, <2>5, <3>1 DEF FileOf, RunLabel
    <2>6. CASE v = w /\ pc'[w] = "r_read"
      <3>1. /\ reads'[w] \in Instance /\ inst[reads'[w]] = "none" /\ inst'[reads'[w]] = "booting"
            /\ pc[w] = "r_popen"
        BY <1>0, <1>1, <2>6, ReaderMoves DEF Starts
      <3>2. reads'[w] \notin announced'
        BY <1>0, <2>3, <3>1 DEF StartingIsRead
      <3> QED
        BY <2>2, <2>3, <2>6, <3>1, <3>2 DEF FileOf, Live, RunLabel
    <2>7. CASE v = w /\ pc'[w] # "r_read"
      <3>1. /\ pc'[w] \in RunLabel \ {"r_close"} => pc[w] \in RunLabel \ {"r_close"}
            /\ reads'[w] \in {reads[w], Null}
        BY <1>0, <1>1, <2>7, ReaderMoves
      <3>2. Runs(w)'
        BY <1>a, <2>3, <2>4, <2>7, <3>1
      <3> QED
        BY <2>2, <2>3, <2>7, <3>1, <3>2 DEF FileOf
    <2> QED
      BY <2>5, <2>6, <2>7
  <1>2. ASSUME NEW w \in Worker, Thread(w), pc[w] = "r_close" PROVE FileOf(v)'
    <2>1. /\ pc' = [pc EXCEPT ![w] = "free"]
          /\ UNCHANGED <<formVars, instVars, pastVars>>
      BY <1>0, <1>2, Closes
    <2>2. FileOf(v)
      BY <1>0, <2>1, Parts DEF pastVars
    <2>3. CASE v # w
      <3>1. pc'[v] = pc[v] /\ reads'[v] = reads[v]
        BY <1>0, <1>2, <2>3, ThreadMoves
      <3> QED
        BY <2>1, <2>2, <3>1 DEF FileOf, formVars, instVars
    <2>4. CASE v = w
      <3>1. pc'[w] = "free"
        BY <1>0, <2>1 DEF TypeOK
      <3>2. reads'[w] \in {reads[w], Null}
        BY <1>0, <1>2, <3>1, ReaderMoves
      <3> QED
        BY <1>a, <2>1, <2>2, <2>4, <3>1, <3>2 DEF FileOf, formVars, instVars, RunLabel
    <2> QED
      BY <2>3, <2>4
  <1>3. CASE UserActs
    <2>1. ~Busy /\ ~overlapped /\ ~denied /\ Others
      BY <1>0, <1>3, OthersLeave, OthersKeep DEF Others
    <2>2. pc'[v] \in {"free", "r_close", "s_test"}
      <3>1. ~Configure
        BY <1>3 DEF UserActs, User, ClickCreate, on_stop_hp_clicked, on_refresh_clicked,
                    update_freq_toggle, EditSsid, Configure
      <3> QED
        BY <1>0, <2>1, <3>1, OthersLeave, OthersKeep DEF Busy, Active
    <2>3. UNCHANGED <<reads, inst, conf, announced>>
      BY <1>0, <1>3, <2>1, OthersKeep
    <2>4. Runs(v)
      BY <1>0, <2>1, Parts DEF FileOf
    <2>5. ASSUME EditSsid, reads[v] \in announced PROVE inst[reads[v]] = "gone"
      <3>1. Untouched
        BY <2>1 DEF Untouched, UntouchedLabel, Busy, Active
      <3>2. running = Null
        BY <1>0, <2>1, <2>5, <3>1 DEF EditSsid, ViewsFollow, Agree
      <3>3. NoneUp
        BY <1>0, <2>1, <3>1, <3>2 DEF ListingHolds
      <3> QED
        BY <1>0, <1>a, <2>5, <3>3 DEF NoneUp, Up, StartingIsRead
    <2>6. ~EditSsid => entry' = entry
      BY <1>3 DEF UserActs, ClickCreate, on_stop_hp_clicked, on_refresh_clicked,
                  update_freq_toggle, formVars
    <2>7. Runs(v)'
      BY <2>3, <2>4, <2>5, <2>6
    <2> QED
      BY <2>2, <2>7 DEF FileOf, RunLabel
  <1>4. CASE initUi
    <2>1. pc'[v] \in {"free"} \cup InfoLabel /\ reads'[v] = Null /\ announced' = announced
      BY <1>0, <1>4 DEF initUi, StartupLists, instVars
    <2> QED
      BY <1>a, <2>1 DEF FileOf, RunLabel, InfoLabel
  <1>5. CASE Configure
    <2>1. /\ ~overlapped /\ ~denied /\ main = "mkconfig" /\ file' = [ssid |-> entry, band |-> freq]
          /\ UNCHANGED <<entry, freq, radio, inst, conf, announced, reads>>
      BY <1>5 DEF Configure, formVars
    <2>2. freq = radio /\ ~Busy
      BY <1>0, <2>1 DEF FormFollows, OneAtWork
    <2>3. pc'[v] \in {"free", "r_close", "s_test", "r_freq"}
      BY <1>0, <1>5, <2>2, OthersLeave DEF Others, Main, Busy, Active
    <2>4. Runs(v)
      BY <1>0, <2>1, Parts DEF FileOf
    <2> QED
      BY <2>1, <2>2, <2>3, <2>4 DEF FileOf
  <1>6. CASE set_connected_devices_label \/ UNCHANGED vars
    <2>1. ~overlapped /\ ~denied /\ UNCHANGED <<pc, reads, entry, radio, file, inst, conf, announced>>
      BY <1>6 DEF set_connected_devices_label, Crash, vars, flowVars, formVars, instVars, pastVars
    <2>2. FileOf(v)
      BY <1>0, <2>1, Parts
    <2> QED
      BY <2>1, <2>2 DEF FileOf
  <1>7. ASSUME NEW p \in Instance, CreateAp(p) PROVE FileOf(v)'
    <2>1. ~overlapped /\ ~denied /\ UNCHANGED <<main, pc, reads, entry, radio, file>>
      BY <1>7 DEF CreateAp, Boot, Enable, End, flowVars, formVars, pastVars
    <2>2. FileOf(v) /\ FormOf(v)
      BY <1>0, <2>1, Parts
    <2>3. CASE reads[v] # p
      <3>1. pc[v] = "r_read" \/ reads[v] \in announced' => reads[v] \in Instance
        BY <1>0, <1>a, <1>7, <2>3 DEF CreateAp, Boot, Enable, End, ReadersRead
      <3>2. /\ reads[v] \in announced' => reads[v] \in announced
            /\ reads[v] \in Instance => inst'[reads[v]] = inst[reads[v]]
                                        /\ conf'[reads[v]] = conf[reads[v]]
        BY <1>0, <1>7, <2>3 DEF CreateAp, Boot, Enable, End, TypeOK
      <3> QED
        BY <2>1, <2>2, <3>1, <3>2 DEF FileOf
    <2>4. CASE reads[v] = p /\ Boot(p)
      <3>1. inst[p] = "booting" /\ p \notin announced' /\ inst'[p] = "listed"
        BY <1>0, <2>4 DEF Boot, StartingIsRead, TypeOK
      <3>2. ASSUME pc[v] = "r_read" PROVE conf'[p] = [ssid |-> entry, band |-> radio]
        <4>1. conf[p] = [ssid |-> Null, band |-> radio]
          BY <2>2, <2>4, <3>1, <3>2 DEF FormOf
        <4>2. file.ssid = entry /\ file.band = radio
          BY <2>2, <3>2 DEF FileOf, RunLabel
        <4>3. conf' = [conf EXCEPT ![p].ssid = file.ssid,
                                   ![p].band = IF @ = AnyBand THEN file.band ELSE @]
          BY <2>4 DEF Boot
        <4> DEFINE Named == [conf EXCEPT ![p].ssid = file.ssid]
        <4>4. Named[p] = [ssid |-> file.ssid, band |-> radio] /\ DOMAIN Named = Instance
          BY <1>0, <4>1 DEF TypeOK
        <4>5. conf' = [Named EXCEPT ![p].band = IF Named[p].band = AnyBand THEN file.band
                                                                        ELSE Named[p].band]
          BY <4>3
        <4> HIDE DEF Named
        <4>6. conf'[p] = [Named[p] EXCEPT !.band = IF radio = AnyBand THEN file.band ELSE radio]
          BY <4>4, <4>5
        <4>7. conf'[p] = [ssid |-> file.ssid,
                          band |-> IF radio = AnyBand THEN file.band ELSE radio]
          BY <4>4, <4>6
        <4> QED
          BY <4>2, <4>7
      <3> QED
        BY <2>1, <2>2, <2>4, <3>1, <3>2 DEF FileOf
    <2>5. CASE reads[v] = p /\ Enable(p)
      <3>1. inst[p] = "listed" /\ conf' = conf
        BY <2>5 DEF Enable
      <3>2. p \notin announced /\ p # Null
        BY <1>0, <3>1, NullAssumption DEF StartingIsRead
      <3>3. pc[v] = "r_read"
        BY <1>0, <2>5, <3>2 DEF ReadersRead
      <3>4. conf[p] = [ssid |-> entry, band |-> radio]
        BY <2>2, <2>5, <3>1, <3>3 DEF FileOf, Live
      <3> QED
        BY <2>1, <2>2, <2>5, <3>1, <3>3, <3>4 DEF FileOf
    <2>6. CASE reads[v] = p /\ End(p)
      <3>1. inst'[p] = "gone"
        BY <1>0, <2>6 DEF End, TypeOK
      <3> QED
        BY <2>1, <2>2, <2>6, <3>1 DEF FileOf, Live
    <2> QED
      BY <1>7, <2>3, <2>4, <2>5, <2>6 DEF CreateAp
  <1> QED
    BY <1>1, <1>2, <1>3, <1>4, <1>5, <1>6, <1>7 DEF Next, Main

-----------------------------------------------------------------------------
(* HotspotInv holds in every state that can be reached.                    *)
THEOREM HotspotInvariant == Spec => []HotspotInv
  <1>1. Init => HotspotInv
    BY InitEstablishesHotspot
  <1>2. HotspotInv /\ WindowInv' /\ [Next]_vars => HotspotInv'
    <2> SUFFICES ASSUME HotspotInv, WindowInv', [Next]_vars PROVE HotspotInv'
      OBVIOUS
    <2>1. /\ TypeOK /\ OneAtWork /\ ViewsFollow /\ ReadersRead /\ StartingIsRead
          /\ StartupLists /\ ListingHolds /\ FormFollows
      BY DEF HotspotInv, WindowInv
    <2>2. ReadersRead' /\ StartingIsRead' /\ StartupLists'
      BY <2>1, StepKeepsReaders, StepKeepsStarting, StepKeepsStartup
    <2>3. ListingHolds' /\ FormFollows'
      BY <2>1, StepKeepsListing, StepKeepsForm
    <2>4. FileFollows'
      BY StepKeepsFile
    <2> QED
      BY <2>2, <2>3, <2>4 DEF HotspotInv
  <1> QED
    BY <1>1, <1>2, WindowInvariant, PTL DEF Spec

(* The window says "not running" only when nothing runs, for a user who    *)
(* waits and refuses nothing.                                              *)
THEOREM NoneRunsUnseen == Spec => []NotRunningMeansNone
  <1>1. HotspotInv => NotRunningMeansNone
    <2> SUFFICES ASSUME HotspotInv, Quiet, ~overlapped, ~denied, running = Null PROVE NoneUp
      BY DEF NotRunningMeansNone
    <2>1. Untouched
      BY DEF Quiet, Busy, Active, Untouched, UntouchedLabel
    <2> QED
      BY <2>1 DEF HotspotInv, ListingHolds
  <1> QED
    BY <1>1, HotspotInvariant, PTL

(* A hotspot runs with the settings of the form it was started from.       *)
THEOREM StartsAsAsked == Spec => []StartedAsAsked
  <1>1. HotspotInv => StartedAsAsked
    BY DEF HotspotInv, FileFollows, StartedAsAsked
  <1> QED
    BY <1>1, HotspotInvariant, PTL

(* The QR code names the hotspot the window started.                       *)
THEOREM QrNamesRunning == Spec => []QrShowsRunning
  <1>1. HotspotInv => QrShowsRunning
    BY NullAssumption DEF HotspotInv, ReadersRead, FileFollows, QrShowsRunning
  <1> QED
    BY <1>1, HotspotInvariant, PTL

=============================================================================
