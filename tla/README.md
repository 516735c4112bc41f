# TLA+ models of linux-wifi-hotspot

`linux-wifi-hotspot` turns a Linux machine into a WiFi access point. The work
is done by a bash script, `create_ap` (`src/src/scripts/create_ap`, about 2000
lines); a GTK program, `wihotspot`, runs it. Several `create_ap` processes may
run on one machine and share kernel settings, interfaces and files, which is
where the hard behaviour is; the window starts, lists and stops them from
threads that share everything without a lock. This directory models that
behaviour in TLA+, checks it with TLC, and proves the main results with TLAPS.
Line numbers are those of `create_ap` unless another file is named.

Running it, in this directory: `tlc -config MCCreateAp.cfg MCCreateAp` for a run (all
runs are listed below), `tlapm CreateAp_proofs.tla` for a proof.

## The system

| component | state | operations | hard behaviour |
|---|---|---|---|
| **Process lock** (125-224) | `/tmp/create_ap.all.lock` opened as `LOCK_FD`, the counter file `/tmp/create_ap.$$.lock` | `init_lock`, `mutex_lock`, `mutex_unlock`, `cleanup_lock` | two shells of one process share the counter and the lock; traps run between two commands of a call; descriptors are inherited by children; `has_running_instance` locks twice |
| **Instance life cycle** (643-857, 1596-2037) | `CONFDIR`, `COMMON_CONFDIR`, `/proc/sys` settings, interfaces, children, shell variables | registration, interface names, listing, sharing, starting children, `_cleanup` | any number of instances; the last one restores for all; abort or `kill -9` between any two commands |
| **haveged watchdog** (448-467) | `haveged.pid` | a polling background subshell | runs in the process's mutex, is killed by `_cleanup` at any point |
| **Instance lookup** (859-1003) | `CONFDIR/{pid,wifi_iface}` | `--list-running`, `--stop`, `--list-clients` | reads directories that come and go, signals by pid |
| **Firewall and NetworkManager** (477-641, 759-813, 1888-1990) | iptables, `NetworkManager.conf`, `ADDED_UNMANAGED` | rules and entries added and removed by value | value of one instance may be the value of another |
| **Bridge setup** (764-799, 1900-1968) | addresses and routes of `INTERNET_IFACE` | moved to the bridge and back | `die` in the middle |
| **Channels** (300-375, 1634-1716) | `CHANNEL`, `FREQ_BAND` | frequency to channel, fallback | boundaries of bands |
| **Options and configuration file** (1006-1594) | the option variables | `write_config`, `read_config`, validation | round trip, contradictory options |
| **Window: threads, buttons, status** (`ui.c`, `h_prop.c`) | `running_info`, `h_running_info`, `pb_pulse_id`, the static command buffers, sensitivity of the widgets, the status line | `on_create_hp_clicked`, `stopHp`, `run_create_hp_shell`, `init_running_info`, `on_refresh_clicked` | each click spawns a thread, nothing is locked; a command returns before it has had its effect; `pkexec` may be refused |
| **Window: form, validation, configuration** (`ui.c`, `h_prop.c`, `read_config.cpp`, `util.c`) | the entries and toggles, `configValues`, the file of accepted addresses | `init_ui_from_config`, the handlers of the entries, `validator`, `build_wh_mkconfig_command` | a setting changes its shape four times on its way round; what is wrong is decided twice |
| **Window: table of clients** (`h_prop.c`, `ui.c`) | the list of devices, the grid | `get_connected_devices`, `set_connected_devices_label` | a line is cut in the buffer it is scanned in |
| **MAC address check** (`util.c`) | two counters | `isValidMacAddress` | counts instead of matching, while `create_ap` has a pattern of its own |
| **QR picture** (`qrgen.cpp`) | the row buffer, a byte pointer and a bit number | `writePNG` | pointers beside counters, off by one |

How they interact: every process of `create_ap` takes the process lock around
what it does to shared state; instances see each other only through the
`/tmp/create_ap.*` directories; `--stop` and the GUI act by signals; the GUI
reads `--list-running`.

What makes each correct:

- *Process lock*: two processes are never inside; a process that is outside
  does not keep the lock; nobody waits for ever.
- *Life cycle*: what the machine had before the first instance is never lost,
  whatever aborts or crashes; nobody takes away what a serving instance needs;
  no two instances have the same interface; after the last one everything is as
  it was; every cleanup ends and leaves no child.
- *Lookup*: what is signalled is an instance; a stopped one disappears.
- *Firewall, NetworkManager, bridge*: each instance removes what it added and
  nothing else; addresses and routes come back.
- *Channels, configuration*: agreement with the tables of IEEE 802.11; what is
  written is read back.
- *Window, threads*: a user who waits for the window sees one state, and it is
  that of the machine; the instance that is stopped is the one that was shown;
  what is started is what was asked for; no bar, timer or lock is left behind.
- *Window, form*: a hotspot has the settings of the form and of nothing else; the next
  window shows them; the text beside an entry says what the validator says.
- *Table, MAC address, QR picture*: each client in its own row; no address that
  `create_ap` takes is refused; the picture is the matrix, and every write is
  inside the buffer.

`PROJECT.json` lists, under `hazards`, the line at which each of these can go
wrong and the properties that say so.

## Modules

| module | models | |
|---|---|---|
| `ProcessLock` | what `mutex_lock`/`mutex_unlock` promise | abstract specification: one recursive lock with a holder and a depth per process, dropped with the last descriptor |
| `RecursiveMutex` | lines 125-224 and their callers | one action per group of commands of the two functions; implements `ProcessLock` |
| `RecursiveMutex_proofs` | | theorems about it |
| `SharedHost` | what the instances promise the machine they share | abstract specification: who may rely on what is kept, whose an interface name is, when a setting may change |
| `CreateAp` | lines 1596-2037, 702-858, 408-467 | EXTENDS `ProcessLock`; one action per command that reads or writes shared state; implements `SharedHost` |
| `CreateAp_proofs`, `CreateApShared_proofs`, `CreateApHost_proofs` | | theorems about its lock and settings, about what the instances share, and that it implements `SharedHost` |
| `HotspotSession` | `ui.c` 491-790, 134-170, 1042-1051, `h_prop.c` 172-295 | threads, buttons and status of the window with an abstract `create_ap`; one action per call another thread can see |
| `HotspotSession_proofs`, `HotspotStart_proofs` | | theorems about its threads and views, and about the instances it starts |
| `ConfigForm` | `ui.c` 204-392, 501-617, 792-990, 1053-1112, `h_prop.c` 102-207, `read_config.cpp` | the form, the command line, the file and the instance that is started from it; one action per handler |
| `ConfigForm_proofs` | | theorems about it |
| `Channels` | lines 348-375, 1649-1656 | frequencies to channels; a parameter of `ConfigForm` |
| `ClientList` | lines 910-963, `h_prop.c` 472-524, `ui.c` 995-1037 | from the lines printed to the rows of the grid, one action per turn of the loop |
| `MacAddress` | `util.c` 71-95, lines 386-388 | two readers of one text, a character at a time |
| `QrPng` | `qrgen.cpp` 72-200 | `writePNG`, a bit at a time |
| `Handlers_proofs` | | theorems about the four above, and about all handlers together |
| `MC...` | | the small instances the runs check |

`HotspotSession` and `ConfigForm` meet `CreateAp` at the same two points as the
programs do: an instance is listed once its `wifi_iface` is written (`Listed`),
and a signal is delivered at any moment and has its effect later (`stopping`).

### RecursiveMutex

A process is a main shell and, from line 2009 on, the subshell of
`haveged_watchdog`. `pc[p][r]` is the next command of shell `r` in
`mutex_lock` or `mutex_unlock`: `lock`/`unlock` (open, flock and read the
counter file: `ReadCounter`), `flock`/`funlock` (`LockGlobal`,
`UnlockGlobal`), `write` and `close`. `nest` counts the sections a shell is
inside. `counterOwner` is the flock on the counter file, which belongs to the
descriptor a call opened; `holder` is the flock on the global lock file, which
belongs to the open file description the whole process inherited. That
difference is the point of the module: a second call *of the same shell* waits
for the descriptor of the first, while a second flock of `LOCK_FD` succeeds.

`Trap` is a signal handled by the main shell between two commands, also in the
middle of a call, after which `_cleanup` calls `mutex_lock`. `Interrupt` is a
SIGINT that kills, in the same moment, the command substitution the shell waits
for (Ctrl-C goes to the group; `create_ap.service` has `KillSignal=SIGINT`);
the constant `GroupSignals` says whether this happens. Only a section that runs in a
substitution can be ended this way, so `subst` says whether the section was entered in one;
in it the main shell waits, and there is no `Trap`. `Killed` is `kill -9`, which here takes a
substitution along with its shell. `StartWatchdog` starts the subshell and notes its pid in one step: `CreateAp`
has the two (2009, 2010) and what a signal between them leaves.

### CreateAp

`pc[p]` is the next command of the main shell, in three stretches: registration
(`mkconf` .. `unlock`), setup and service (`alloc_br` .. `wait`) and `_cleanup`
(`c_lock` .. `c_exit`). `confdir[p]` is the set of files in its directory that
others or `_cleanup` look for, `saved` the backups in `COMMON_CONFDIR`,
`reserved` its `ifaces/`, `value` the settings under `/proc/sys`, `orig` what
they were before any instance started, and `net` says who created an interface.
The lock is that of `ProcessLock`, which is what `RecursiveMutex` implements;
what an interrupted call can do on top of that, hang in `_cleanup`, is
`AbortInMutex` here. `Abort` ends the setup before any command: it stands for
every `|| die`, every trapped signal and `--stop`. `Crash` is `kill -9`.

Details kept because they matter: `has_running_instance` sees a process from
`pid` on but `list_running_conf` only from `wifi_iface` on; it locks a second
time when it finds none (978); hostapd and haveged inherit `LOCK_FD`, so the
lock outlives the shell as long as they do (`KeepsLockFile`); a child runs
before its pid is known; `_cleanup` does lines 721-733 for every sharing method
but restores from a backup only if it is there; a write to `ip_forward` that
changes it changes the forwarding of every interface (`Written`).

`SharedHost` leaves out the script: no directories, labels or lock, only who is there. Its
guards are the rules of living together. A setting is changed only by one who shares and needs
it, a common one only while its value is kept; it is put back only when nobody needs it, which
for the common ones means nobody is there at all; a name is taken only if nobody has it and its interface
does not exist, and only its owner creates or deletes that interface. `ImplementsHost` maps `users` to the processes that
run with `common` set, `sharing` to those between `set_dev` and the end of their service, `names` to `UsesName`
and `kept` to `saved`. `FindRunning`, `FindNoneRunning` and the lock itself disappear: the refinement says
that they are enough.

### HotspotSession

`pc[w]` is the next call of thread `w`: `i_...` in `init_running_info`, `s_...` in
`stopHp`, `r_...` in `run_create_hp_shell`; `main` is the main thread, which is
inside a handler only where the handler waits (`mkconfig`) or reads twice
(`refresh`). A thread that ends by starting another goes on as that one. `running`
is `running_info[0]`, with `Freed` for the moment between `g_free` and the
assignment of `NULL` (`ui.c` 709-710); using it there is either a crash or any value.
`listing` is what `init_get_running` has read, `cmdKill` and `cmdBand` what the static command
buffers hold, `pulse` and `leaked` the timers, and `create`, `stop`, `qr`, `editable`
the sensitivity of the widgets. `file` is `/etc/create_ap.conf`; an instance
goes through `booting`, `listed`, `enabled`, `stopping`, `gone` and may end anywhere.

The window cannot keep a user from clicking while a thread is at work, so
`overlapped` notes that he did and `denied` that a command was refused or failed. Most properties are
about a user who waits, and say that the threads, which come one after the other for him,
still leave everything right. `BarHasOwner`, `CrashNeedsOverlap` and
`WindowSettles` are about every user.

### ConfigForm

A setting exists in five shapes: the text and toggle in the form, `configValues`
(`Gathered`), the options of `--mkconfig`, the keys of the file (`Configured`) and the
variables of the instance (`Started`, with the band and channel of `Tuned` and `Settled`);
`LoadedForm` is the way back. `sensitive` is the set of entries that can be typed
in, `error` what `label_input_error` is about. `written` and `denied` remember the
last Create, `ap` the instance that the last step started.

Details kept because they matter: `eval echo` in `write_config` is not quoted, so
blanks in a row become one (`Collapsed`); `configValues.freq` is `"default"` after
a load, for which `entry_channel_warn` knows no bounds; the list of accepted addresses is
written only if a configuration said where (`loaded`); `read_mac_filter_file` may return it
with bytes of the stack in it (`ReadList`); whether a second channel is possible is asked with
a variable that is not set on this path, and `get_phy_device` answers an empty name with the first
card that has an interface (277), so `two` in `Tuned` is either answer whatever the hotspot's own card can do;
a default channel the adapter cannot transmit on gives way to that of the connection (`Settled`).

### The small handlers

`QrPng` follows the byte pointer `q` and the bit number through a buffer that is the set of its dark
pixels; `MacAddress` gives one text to both readers and compares their answers
after every character; `ClientList` has the buffer as characters and cuts it in
place, whether it holds a client or the sentence "No clients connected", and ends in `"undefined"` when
nothing is printed; `Channels` asks the function about every carrier of IEEE 802.11.

### Abstractions

- A process runs once. A restart of the script is another process.
- Sections of the main shell that do one thing to shared state
  (`alloc_new_iface`, lines 1695-1698) are one step that needs the lock
  (`Locked`); `ShortSection` lets an abort or a hang happen inside them.
- `list_running_conf` and `has_running_instance` read all directories in one
  step: both run in the mutex, and only a crash can change them meanwhile.
- Registration does `mktemp` and the write of `pid` in one step; an abort
  between them is an abort before it, as far as anyone can see, up to an empty
  directory that `_cleanup` removes.
- In `CreateAp`, SIGINT reaches the main shell only. `mutex_group` shows what
  happens otherwise.
- `bridge-nf-call-iptables` exists, dnsmasq and haveged are installed and pids
  are not reused; a short-lived child that inherited `LOCK_FD` ends before
  anyone waits for it; a free file descriptor is found by `get_avail_fd`.
- `--no-dnsmasq` is not distinguished.
- In `CreateAp`, restoring a setting is the copy of its backup and the removal of it in one step
  (`Restore`): both run in the section of the cleanup, and `Crash` between them would leave a backup
  of what is in force. `Exit` leaves out that `cleanup_lock` removes the counter file of a process that
  is at its end.

Of the window:

- A step is a call that another thread can see. `start_pb_pulse`,
  `stop_pb_pulse` and the two `lock_...` functions are one step each, and so are
  calls of GTK from a thread. Output lines before `AP-ENABLED` only change the
  label and are left out, and so is the wording of the labels.
- Both combos have an interface chosen, as they have by default. With none,
  `init_config_val_input` returns 1 before it has read the form, which `ui.c` 148 ignores.
- The position `strtok` keeps is shared by all threads; it is not modelled.
- The table of clients is not part of `HotspotSession`, but for the crash of a Refresh that gets no answer. Nothing is said of what
  happens after a crash.
- In `ConfigForm`, Create waits for its hotspot, and the locks that a running
  hotspot puts on the entries are those of `HotspotSession`. `create_ap` runs with a
  virtual interface. Texts are classes: what the readers tell apart.
- In `ClientList` no host name contains "MAC": such a line is taken for the heading and skipped.

## Runs

| run | instance | shows |
|---|---|---|
| `mutex_safety` | 2 processes with watchdogs, 3 nested sections, traps and `kill -9` of both | `IInv`; `MutualExclusion`; `ReleasedOutside`: the shared counter loses no decrement, so the lock is given back; `ImplementsProcessLock` |
| `mutex_live` | 2 processes, 1 section, group signals | `CleanupTerminates`: no interleaving of counter file, lock and watchdog keeps a cleanup from ending, except a shell that hangs on itself |
| `mutex_signal` | 2 processes | violates `NeverBlocksItself` |
| `mutex_group` | 2 processes, group signals | violates `MutualExclusion` |
| `createap_nat` | 2 nat instances on one uplink, both with virtual interfaces, one watchdog, one may crash | `SectionsExclusive`, `SettingsRecoverable`, `ServingKeepsSettings`, `InterfacesOwned`, `AllRestored`, `CommonKeptForOthers`, `IInv` |
| `createap_bridge` | a nat and a bridge instance with a bridge of its own, two watchdogs, one may crash | `ServingKeepsSettings` (also `bridge-nf-call-iptables`), `InterfacesOwned` (also the bridge), `AllRestored`, `ImplementsHost` |
| `createap_live` | a nat and a bridge instance, one watchdog, no virtual interface | `CleanupEnds`: every cleanup ends although line 978 takes the lock once too often |
| `forwarding` | as `createap_nat`, no crash | violates `ForwardingRestored` |
| `unlock_releases` | as `createap_nat`, no crash, no watchdog | violates `UnlockReleases`: of a cleanup that begins outside every section |
| `orphan` | as `createap_nat`, no crash | violates `NoOrphan` |
| `hotspot_session` | 2 threads, 2 instances of which one may run before the window opens, 2 names, one band or none | of a user who waits: `ViewsAgree`, `NotRunningMeansNone` (the listing right after a stop still shows the hotspot, so "not running" is never too early), `TimersRemoved`, `StopHitsShown`, `StartedAsAsked`, `QrShowsRunning`; of any user: `BarHasOwner`, `CrashNeedsOverlap` (Refresh excepted, which crashes alone when nothing is printed), `WindowSettles`, `TypeOK` |
| `handlers` | one handler per behaviour: 3 edits of the form between loads, starts and refusals; codes of 2 by 2 modules; texts of up to 18 characters; 2 clients; every carrier | `RemembersForm`, `StartsAsShown`, `ChannelAsAsked`, `EntriesFollowToggles`, `EditSaysWhy`, `MacFileIsUsers`; `WritesInRow`, `RowShowsModules`, `PictureComplete`; `MacAccepted`; `RowsShowClients`; `ChannelsRight`; `TypesOK` |

The handlers share one run because the main loop runs one to its end before the
next and they share no state: `handler` says which one a behaviour is about.

Deadlock is not checked: processes and handlers end, and the system may stop with all of
them gone, crashed, or hung as the findings describe.

### Bounds

- Two processes. Every property relates two processes: the one that serves or
  registers and the one that cleans up, the holder of the lock and the one that
  waits. The theorems hold for any number.
- `MaxNest = 3` (`mutex_safety`) is how deep `_cleanup` gets: its own section and
  the two of `has_running_instance`. `mutex_live` has one section, since `_cleanup`'s
  own and the watchdog's are the ones that can wait for each other; the nested one
  is in `createap_live`, where `ProcessLock` counts the depth.
- `MaxSlot = 1`: two names for two processes, so that both the choice of the
  lowest and the collision happen.
- `Crashable` and `Haveged` name the processes that may be killed or have a
  watchdog. One crash is enough for a stale directory; two would leave nobody
  to clean up after it.
- All initial values of the settings are tried.
- `Worker` (`hotspot_session`) bounds the threads alive at once: one that waits for its hotspot and one
  at work, or two at work. A third at work adds no new pair. `MaxEvents = 1` bounds the clicks
  after the user has overlapped a thread or a command has failed; before that there is
  no bound on them but the two instances.
- `MaxEdits = 3` is a toggle, its entry and one thing more, such as the band the
  channel depends on, between two Creates or two windows; loads, starts and
  refusals are not bounded. `ChannelTexts` has no number, one of each band, one above the 2.4 GHz bound
  and one above every bound; `Links` no link, one on either band and one on a channel (13) that the form
  refuses. Each may meet an adapter of one band or of two, and either answer about a second channel.
- `Width = 2` has neighbours in both directions, `MaxLen = 18` is one more than an address, the lengths
  in `ClientList` are the shortest and the longest, and the clients none, one and two.

### Fairness

`RecursiveMutex!Fairness` and `CreateAp!Fairness` assume that a shell that has something to do does it, and
strong fairness where it may have to wait in `flock`: the kernel wakes the
waiters whenever the lock becomes free. A section of the script is a finite
list of commands, so a main shell inside one leaves it; the watchdog leaves its
section because `haveged` goes to the background. Nothing is assumed about
starting, aborting, killing or about `hostapd` ending. `CleanupTerminates` and
`CleanupEnds` say in their premise what they need besides: nobody hangs on its
own descriptor or is killed, which is finding 1 and a crash, and (for `CleanupEnds`) a process that is
gone does not have the lock. That excepts an instance that ended inside a section, or after line 978, and whose
hostapd (finding 5) or haveged goes on with `LOCK_FD`: the lock is then theirs for as long as they live, and what
waits for it waits as long.

`HotspotSession!Fairness` assumes that a thread and the main thread go on when
they can, that a `pkexec` dialog is answered, and that an instance which has
been signalled ends (which `CleanupEnds` is about). Nobody has to click and no
instance has to come up: `WindowSettles` excepts the thread that reads the output of
an instance still on its way, which the script may keep there as long as it likes.

## Findings

1. `mutex_signal`: a trapped signal in the middle of `mutex_lock` or
   `mutex_unlock` makes `_cleanup` wait for a flock its own shell has. SIGINT,
   USR1 and USR2 are ignored from line 705 on, so only `kill -9` ends it; if it
   has the global lock every other instance waits too.
2. `mutex_group`: the global lock is released before the counter is written. If
   Ctrl-C kills the subshell in between, the counter says 1, and `_cleanup` runs
   without the lock.
3. `forwarding`: the search for other users of an uplink overlooks an instance
   that has registered but is not listed, restores and removes the backup it
   relies on, and the uplink goes on forwarding when all have ended.
4. `unlock_releases`: line 978 is `mutex_lock` where `mutex_unlock` is meant. The counter of the last
   instance, 0 when its cleanup begins, goes to 3 and back to 2, and it keeps the lock until
   its last descriptor is closed.
   `createap_live` shows that this is in time, provided no child survives.
5. `orphan`: a signal between lines 2018 and 2020 leaves hostapd running.

Met while modelling the window, and without a run of their own:

- The window is not told when an instance ends by itself: it goes on saying that it
  runs until the next stop. Create, while `--mkconfig` waits and until the output
  says `AP-ENABLED`, leaves every button active (`overlapped`).
- `get_adapter_info ${IFACE}` (1658) has an empty argument with a virtual interface, and so tells
  of the first card of the machine that has an interface, which need not be the hotspot's.
- Refresh, when `--list-clients` prints nothing because the instance has ended or `pkexec` was refused,
  follows a pointer nobody has set (`h_prop.c` 478, `ui.c` 1019). With no client, the sentence
  "No clients connected" (949-952) is shown as client 1, "No", "No", "No".
- The help says that `FREQ_BAND=default` uses 5 GHz where the interface supports it; the comparisons
  treat it as 5 GHz in the transmit check (324-338) whatever it supports.
- The window takes a MAC address with dashes and a passphrase of more than 63 characters;
  `create_ap` refuses both. It takes a list of one address only (`isValidAcceptedMacs`).
- `entry_pass_warn` clears the MAC entry's text and `entry_gateway_warn` the filter's style
  context; any entry that is right clears the text of any other (`Warn`).
- A configuration of an older version, without the keys the window reads, ends it with
  a `NULL` in `strcmp`; with more than 30 rows or values of 100 characters `read_config.cpp`
  writes behind its arrays; ten clients overflow `number` (`ui.c` 1023), so `ClientList` has at most nine.

## Proofs

`tlapm` proves, for any set of processes, uplinks, options and any bound:

| theorem | module | of |
|---|---|---|
| `Invariance` | `RecursiveMutex_proofs` | `Spec => []IInv`, types included |
| `MutexIsExclusive` | | `MutualExclusion` |
| `MutexIsReleased` | | `ReleasedOutside` |
| `MutexImplementsLock` | | `Spec => ImplementsProcessLock` |
| `Invariance` | `CreateAp_proofs` | `Spec => []IInv`, `TypeOK` included |
| `RegistryIsExclusive` | | `SectionsExclusive` |
| `CommonSettingsRecoverable` | | `SettingsRecoverable` |
| `LockUsedAsPromised` | | `Spec => LockSpec`, of `ProcessLock` |
| `SharedInvariant` | `CreateApShared_proofs` | `Spec => []SharedInv` |
| `ServersKeepSettings`, `NamesAreOwned` | | `ServingKeepsSettings`, `InterfacesOwned` |
| `BackupsOutliveUsers`, `NothingIsLeft` | | `CommonKeptForOthers`, `AllRestored` |
| `InstancesShareHost` | `CreateApHost_proofs` | `Spec => ImplementsHost` |
| `WindowInvariant` | `HotspotSession_proofs` | `Spec => []WindowInv` |
| `WindowTypes`, `BarIsOwned`, `CrashIsOverlap` | | `TypeOK`, `BarHasOwner`, `CrashNeedsOverlap` |
| `ViewsShowRunningInfo`, `NoTimerLeft`, `StopIsForShown` | | `ViewsAgree`, `TimersRemoved`, `StopHitsShown` |
| `HotspotInvariant` | `HotspotStart_proofs` | `Spec => []HotspotInv` |
| `NoneRunsUnseen`, `StartsAsAsked`, `QrNamesRunning` | | `NotRunningMeansNone`, `StartedAsAsked`, `QrShowsRunning` |
| `FormTypes`, `TogglesGovern`, `ListIsUsers`, `EditsExplained`, `HotspotAsShown` | `ConfigForm_proofs` | `FormTypeOK`, `EntriesFollowToggles`, `MacFileIsUsers`, `EditSaysWhy`, `StartsAsShown` |
| `FormIsRemembered`, `HotspotTuned` | | `RemembersForm`, `ChannelAsAsked` |
| `PictureInvariant`, `PixelsInRow`, `LinesShowModules`, `PictureIsComplete` | `Handlers_proofs` | an inductive invariant, `WritesInRow`, `RowShowsModules`, `PictureComplete` |
| `MacsOfScriptPass`, `ClientsShown`, `CarriersConverted` | | `MacAccepted`, `RowsShowClients` (with its types), `ChannelsRight` |
| `HandlersTyped`, `HandlersRight` | | `TypesOK`, and all other properties of `handlers`, of the handlers together |

*Assumptions.* `NoProcess` is no process, `INTERNET_IFACE` is an uplink, the
sharing method one of the three, the names of the settings differ. The theorems
on `RecursiveMutex` assume `~GroupSignals`: without it `MutualExclusion` is
false, as `mutex_group` shows.

*The mutex.* Exclusion is not inductive, because a call carries the counter in a
variable while the file may change. `CounterFileOwned`: the counter file is
locked by the one shell in a call (or one that hangs on itself).
`ReadsAreCurrent`: what that call has read is therefore what the file says.
`CounterCovers`: so the counter is at least the number of sections of the two
shells, the lock is held while it is positive, and until the cleanup has killed
the watchdog both are exact. `CleanupOrder`: the main shell releases only after its watchdog is dead,
so the sections a killed watchdog leaves in the counter can only keep the lock
longer. The refinement maps the depth of a process to
what the shell in a call knows of the counter, or else to what the file says,
and the holder to the holder of the flock: the two functions' increments and
decrements are `Enter` and `Leave`, and a signal in the middle of a call leaves
both in agreement. A watchdog that is killed in a call takes its increment or
decrement with it, which is again a `Leave` or an `Enter` of a process that is
inside; only when the main shell is killed may a lock be left without a count,
which the mapping counts as 1 until its watchdog uses it.

*The instances.* `SettingsRecoverable` alone is not inductive: restoring a
setting and dropping what the instances share are several commands, and a start between them would
save or use the wrong value. `LockCovers`: a process in a section has the lock,
with a depth of at least the sections it and its watchdog are in, so that the
`mutex_unlock` of one does not release under the other. `UsersRegistered`: who
uses `COMMON_CONFDIR` is seen by `has_running_instance`, which needs `pid` to be
written in the same section as the backups. `LastIsAlone`: so the last instance
is alone until it drops them. `BackupsKept`: and whoever changes a setting finds it
saved.

`CreateApShared_proofs` builds on that, with an invariant of three parts. `KeptInv`: a process that
shares is listed, with its uplink, before it changes a setting (`ServersListed`), so no
cleanup passes it over and switches the setting back under it (`SettingsSet`). `NamesInv`: names are come by in one
order (`NamesInOrder`), a name stays reserved until its process deletes the interface, or has the
lock and is about to (`NamesReserved`), and is nobody else's meanwhile (`NamesOwned`). `OwedInv`:
unless one crashed, somebody still owes the removal of every backup and reservation, and may
leave it only to an instance that was found running (`CommonOwed`), which in turn is between its `pid` and `COMMON_CONFDIR`
only with the lock (`HalfRegistered`); and an interface that exists belongs to a process
that is yet to delete it (`InterfacesOwed`). When all are gone nobody owes anything, so nothing
is left: `AllRestored`.

*The window.* Nothing of it is safe from an overlapping user, so the invariant is
about who has the window. `OneAtWork`: until the user overlaps, at most one thread is at
work, and none while the main thread is inside a handler. `FreedIsReset`: the
pointer dangles only while that thread is between the two assignments, so nobody
can use it. `ViewsFollow`: the views are as `running_info` says, or as far as
that thread has brought them. `StopFollows`: what the stop thread reads, three times,
is what was shown at the click. `BarHasOwner` and `TimerHasOwner` hold for any user:
whoever shows the bar hides it, or goes on as a thread that does.
`HotspotStart_proofs` goes on from there, about the machine: an instance on its way up has the
thread that started it (`StartingIsRead`), so after an empty listing nothing comes up
unseen (`ListingHolds`); the settings of the click are those of the buffer (`FormFollows`), of
the file and then of the instance (`FileFollows`), which needs that an entry cannot be edited
while a hotspot is known; and before the form is loaded only the first listing is under
way (`StartupLists`).

*The form.* `EntriesFollowToggles` is carried by each handler; what the handlers and the validator test
separately is compared case by case (`EditSaysWhy`). `StartsAsShown` needs that between Create
and the start of the hotspot the file is the form's (`PendingInv`), and that
a form whose toggle is off sends nothing that an earlier file could fill in. `RemembersForm`: the
file is that of the last form written, and a form nobody has edited is what such a file brings back
(`RoundInv`); it needs that an address that passed the validator is not empty, and that `default` is no
channel. `ChannelAsAsked`: the channel that waits to be used has passed the validator
(`ChannelInv`), so a band of 2.4 GHz is not moved to 5 GHz; the fallback is only for a default channel
and leads to that of the link; and the conversion is right on every
carrier of the two bands (`ConversionIsRight`). The proofs
take any links, adapters, channel texts and number of edits.

*The picture.* One invariant says where the pointers are in terms of the
counters, for a code of any width: pixel `8 * q + 7 - bit` is the one the counters
point at, module `p` is the `x`-th of its line, and the row holds the modules passed so far.

*The address.* `place` says how far the pattern has matched; while it matches,
the counters are `s = place \div 3` and `i = place - place \div 3`, so at 17 they are 5 and 12.

*The clients.* `Scanning` says what the scan of a line has done when it stands at `pos`: it
never stands on the first blank behind a column, which it has just overwritten and could not
tell from the end of another; so the line is cut behind the columns that
are passed and nowhere else (`CutUpTo`; `SentenceUpTo` for the sentence, which has single blanks only and so no
further column), and the marks are the columns in order. At the end of the
line, each column is a string as long as what was printed. `RowsMade` and `NothingYet` carry that from
device to row.

*The channels.* Each carrier falls into the range of one formula, where the division leaves no
remainder.

*The handlers together.* A step of one leaves the state of the others alone, so `Spec` implies
the specification of each (`EachByItself`), and what is proved of one holds of all.

*The refinements.* `ImplementsHost` goes by commands. Most are quiet: they change neither the three sets
nor what is kept, and it is enough to look at the process that steps (`Local`). Each of the
others is shown to be one step of `SharedHost`, whose guard comes from the invariants: `PutBack` of a
common setting from `LastIsAlone`, `Keep` by a user and `Switch` with its value kept from `BackupsKept` and
`ServersListed`, `Take` from `NamesReserved`, `Delete` from `NamesOwned`. `LockUsedAsPromised` shows that the instances enter,
leave and end with the lock as `ProcessLock` says, also when the kernel takes it from one
that is gone (`DropIsClose`): the lock `MutexImplementsLock` provides is the one they are proved with.

*Only model-checked:* the liveness properties `CleanupTerminates`, `CleanupEnds` and `WindowSettles`, which
need fairness and `ENABLED` and so are out of the prover's reach; every other property of a passing run is a
theorem. The five properties that are violated are findings and of course not proved.

## What could come next

1. `SharedRules`: iptables rules and `unmanaged-devices` entries of several
   instances, added and removed by value; `ADDED_UNMANAGED`;
   `networkmanager_wait_until_unmanaged`. Composes with the lock. Properties:
   a serving instance has its rules and entry; none is left after the last;
   nobody removes another's.
2. `BridgeSetup`: addresses and routes of the uplink moved to the bridge and
   back, with a `die` at every command; br_netfilter loaded late.
3. `--stop` by interface name, against instances that end and start: `HotspotSession` stops by pid.
4. The iwconfig path of the channel choice and the country, and the lines of `list_running` by interface.

## Not modelled

The firewall rules, `NetworkManager.conf` and the addresses of a bridge (see above).
Text generated for hostapd and dnsmasq, the help and messages, the QR, tray and
about dialogs, shell completion and packaging: no state, or pure presentation.
`init_interface_list` only fills the combos. `create_ap.service` is used for the signal
it sends. The hardware (drivers, iw, hostapd, dnsmasq), GTK, libpng and libqrencode are
modelled only by how the code uses them: a command may fail, a process may end, a
code is any matrix.
