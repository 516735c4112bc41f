----------------------------- MODULE ConfigForm -----------------------------
(***************************************************************************)
(* A setting's way round: the form of wihotspot (ui.c), the command line   *)
(* it becomes (h_prop.c), the configuration file create_ap --mkconfig      *)
(* writes, the instance that create_ap --config starts from it, and the    *)
(* next window, which reads the file back (read_config.cpp).               *)
(*                                                                         *)
(* Texts are members of small sets that stand for what the readers tell    *)
(* apart.  The interfaces are taken as chosen in both combos, one user     *)
(* acts at a time, and Create waits for its hotspot: HotspotSession has    *)
(* the threads.                                                            *)
(***************************************************************************)
EXTENDS Integers

Freq == INSTANCE Channels WITH carrier <- 0, answer <- 0

CONSTANTS
    Links,        \* frequencies the card may be connected at; 0 when it is not
    Adapters,     \* sets of <<band, channel>> an adapter can transmit on
    ChannelTexts, \* what is typed as a channel; 0 is anything but a number
    Default,      \* CHANNEL=default
    Flags,        \* the check boxes that are options of their own
    MaxEdits      \* bound: edits of the form

ASSUME LinksAssumption == Links \subseteq {0} \cup {c[1] : c \in Freq!Standard}
ASSUME MaxEditsAssumption == MaxEdits \in Nat
ASSUME ChannelAssumption == ChannelTexts \subseteq Nat /\ 0 \in ChannelTexts /\ Default \notin Nat

Names    == {"unnamed", "plain", "spaced", "collapsed"}
Passes   == {"empty", "short", "good", "overlong", "spaced", "collapsed"}
Macs     == {"empty", "grouped", "dashed", "junk"}
Gateways == {"standard", "other", "junk"}
Lists    == {"empty", "one_mac", "two_macs", "garbled"}
Bands    == {"auto", "b2", "b5"}
Entries  == {"ssid", "pass", "channel", "mac", "gateway", "list"}
Toggles  == {"open", "channel", "mac", "gateway", "list"}

VARIABLES
    file,      \* /etc/create_ap.conf
    accept,    \* the text of MAC_FILTER_ACCEPT
    window,    \* "closed", "open", or "crashed"
    loaded,    \* the form shows a file
    form,      \* texts and toggles
    sensitive, \* entries the user can edit
    freq,      \* configValues.freq; "default" as read from a file
    error,     \* label_input_error: the entry it is about, "inputs" or "nothing"
    edited,    \* the entry the last step changed, or "nothing"
    command,   \* Create has built its commands
    written,   \* the form at the last Create whose mkconfig ran, if there was one
    denied,    \* the pkexecs of the last Create that were refused
    ap,        \* the instance that came up with the last step, if one did
    touched,   \* the form has been edited since the window opened
    edits      \* edits there were

formVars == <<file, accept, window, loaded, form, sensitive, freq, error, edited,
              command, written, denied, ap, touched, edits>>

Form == [ssid : Names, pass : Passes, band : Bands, channel : ChannelTexts,
         mac : Macs, gateway : Gateways, list : Lists,
         on : SUBSET Toggles, flags : SUBSET Flags]

(* A file: "old" lacks keys that the window needs.                         *)
File == [kind : {"missing", "old", "whole"}, ssid : Names, pass : Passes,
         band : {"default", "b2", "b5"}, channel : ChannelTexts \cup {Default},
         mac : Macs, gateway : Gateways, filter : BOOLEAN, flags : SUBSET Flags]

Nothing == "nothing"

(* What the window looks like before it reads a file.                      *)
EmptyForm == [ssid |-> "unnamed", pass |-> "empty", band |-> "auto", channel |-> 0,
              mac |-> "empty", gateway |-> "junk", list |-> "empty", on |-> {}, flags |-> {}]

(* The file in the repository.                                             *)
Shipped == [kind |-> "whole", ssid |-> "plain", pass |-> "good", band |-> "b2",
            channel |-> Default, mac |-> "empty", gateway |-> "standard",
            filter |-> FALSE, flags |-> {}]

(* eval echo, unquoted: blanks in a row become one.                        *)
Collapsed(text) == IF text = "spaced" THEN "collapsed" ELSE text

-----------------------------------------------------------------------------
FormInit ==
    /\ \E kind \in {"missing", "old", "whole"} : file = [Shipped EXCEPT !.kind = kind]
    /\ accept \in {"empty", "two_macs"}
    /\ window = "closed" /\ loaded = FALSE
    /\ form = EmptyForm /\ sensitive = Entries /\ freq = "auto"
    /\ error = Nothing /\ edited = Nothing
    /\ command = FALSE /\ written = {} /\ denied = {}
    /\ ap = {} /\ touched = FALSE /\ edits = 0

(* isValidAcceptedMacs: the pattern takes one address.                     *)
isValidAcceptedMacs(l) == l = "one_mac"

isValidIPaddress(g) == g # "junk"

(* read_mac_filter_file appends each character with strcat as if it were a *)
(* string, so what lies behind it in memory may come along.                *)
ReadList(l) == IF l = "empty" THEN {"empty"} ELSE {l, "garbled"}

(* A mutant: CHANNEL=default is taken for a channel.                       *)
LoadedFormDefault(l) ==
    [ssid |-> file.ssid, pass |-> file.pass,
     band |-> IF file.band = "default" THEN "auto" ELSE file.band,
     channel |-> IF file.channel = Default THEN 0 ELSE file.channel,
     mac |-> file.mac, gateway |-> file.gateway, list |-> l,
     on |-> {t \in Toggles : \/ t = "open" /\ file.pass = "empty"
                             \/ t = "channel"
                             \/ t = "mac" /\ file.mac # "empty"
                             \/ t = "gateway" /\ file.gateway # "standard"
                             \/ t = "list" /\ file.filter},
     flags |-> file.flags]

(* What a file puts in the form.                                           *)
LoadedForm(l) ==
    [ssid |-> file.ssid, pass |-> file.pass,
     band |-> IF file.band = "default" THEN "auto" ELSE file.band,
     channel |-> IF file.channel = Default THEN 0 ELSE file.channel,
     mac |-> file.mac, gateway |-> file.gateway, list |-> l,
     on |-> {t \in Toggles : \/ t = "open" /\ file.pass = "empty"
                             \/ t = "channel" /\ file.channel # Default
                             \/ t = "mac" /\ file.mac # "empty"
                             \/ t = "gateway" /\ file.gateway # "standard"
                             \/ t = "list" /\ file.filter},
     flags |-> file.flags]

(* The window opens: a key that is not there is a null pointer that strcmp *)
(* reads; a file that is not there leaves the form as it is built, but for *)
(* the list, which lock_all_views only unlocks when its toggle is on.      *)
init_ui_from_config ==
    /\ window = "closed"
    /\ CASE file.kind = "missing" ->
              /\ window' = "open" /\ loaded' = FALSE
              /\ form' = EmptyForm /\ sensitive' = Entries \ {"list"}
              /\ freq' = "auto" /\ error' = Nothing
         [] file.kind = "old" ->
              /\ window' = "crashed"
              /\ UNCHANGED <<loaded, form, sensitive, freq, error>>
         [] file.kind = "whole" ->
              /\ window' = "open" /\ loaded' = TRUE
              /\ \E l \in ReadList(accept) : form' = LoadedForm(l)
              /\ sensitive' = {"ssid"} \cup {e \in Entries \ {"ssid", "pass"} : e \in form'.on}
                              \cup (IF "open" \in form'.on THEN {} ELSE {"pass"})
              /\ freq' = file.band
              /\ error' = IF "list" \in form'.on /\ form'.list # "empty"
                             /\ ~isValidAcceptedMacs(form'.list) THEN "list" ELSE Nothing
    /\ edited' = Nothing /\ touched' = FALSE /\ ap' = {}
    /\ UNCHANGED <<file, accept, command, written, denied, edits>>

Close ==
    /\ window = "open" /\ ~command
    /\ window' = "closed" /\ edited' = Nothing /\ ap' = {}
    /\ UNCHANGED <<file, accept, loaded, form, sensitive, freq, error, command,
                   written, denied, touched, edits>>

-----------------------------------------------------------------------------
(* The user edits; the handler of the widget runs.                         *)
Editing ==
    /\ window = "open" /\ ~command
    /\ edits < MaxEdits /\ edits' = edits + 1 /\ touched' = TRUE
    /\ ap' = {}
    /\ UNCHANGED <<file, accept, window, loaded, command, written, denied>>

(* set_error_text: an entry that is right clears the text of any other.    *)
Warn(entry, wrong) == error' = IF wrong THEN entry ELSE Nothing

EditSsid(v) ==
    /\ v # form.ssid /\ form' = [form EXCEPT !.ssid = v]
    /\ Warn("ssid", v = "unnamed")
    /\ edited' = "ssid" /\ UNCHANGED <<sensitive, freq>>

EditPass(v) ==
    /\ "pass" \in sensitive
    /\ v # form.pass /\ form' = [form EXCEPT !.pass = v]
    /\ Warn("pass", v = "short")
    /\ edited' = "pass" /\ UNCHANGED <<sensitive, freq>>

EditMac(v) ==
    /\ "mac" \in sensitive
    /\ v # form.mac /\ form' = [form EXCEPT !.mac = v]
    /\ Warn("mac", "mac" \in form.on /\ v \notin {"grouped", "dashed"})
    /\ edited' = "mac" /\ UNCHANGED <<sensitive, freq>>

(* A mutant: 2.4 GHz allows what 5 GHz does.                               *)
OutOfRangeWide(c) ==
    \/ freq \in {"auto", "b2"} /\ c \notin 1 .. 196
    \/ freq = "b5" /\ c \notin 1 .. 196

(* The bounds entry_channel_warn knows; for "default" it knows none.       *)
OutOfRange(c) ==
    \/ freq = "auto" /\ c \notin 1 .. 196
    \/ freq = "b2" /\ c \notin 1 .. 11
    \/ freq = "b5" /\ c \notin 1 .. 196

EditChannel(v) ==
    /\ "channel" \in sensitive
    /\ v # form.channel /\ form' = [form EXCEPT !.channel = v]
    /\ Warn("channel", "channel" \in form.on /\ (v = 0 \/ OutOfRange(v)))
    /\ edited' = "channel" /\ UNCHANGED <<sensitive, freq>>

EditList(v) ==
    /\ "list" \in sensitive
    /\ v # form.list /\ form' = [form EXCEPT !.list = v]
    /\ Warn("list", "list" \in form.on /\ ~isValidAcceptedMacs(v))
    /\ edited' = "list" /\ UNCHANGED <<sensitive, freq>>

EditGateway(v) ==
    /\ "gateway" \in sensitive
    /\ v # form.gateway /\ form' = [form EXCEPT !.gateway = v]
    /\ Warn("gateway", "gateway" \in form.on /\ ~isValidIPaddress(v))
    /\ edited' = "gateway" /\ UNCHANGED <<sensitive, freq>>

(* update_freq_toggle                                                      *)
EditBand(v) ==
    /\ v # form.band /\ form' = [form EXCEPT !.band = v]
    /\ freq' = v
    /\ edited' = Nothing /\ UNCHANGED <<sensitive, error>>

(* The entry that a toggle opens to the user; cb_open closes one.          *)
EntryOf(t) == IF t = "open" THEN "pass" ELSE t

(* A mutant: the handler of cb_open works as the others do.                *)
ToggleAlike(t) ==
    LET on == t \notin form.on IN
    /\ form' = [form EXCEPT !.on = IF on THEN @ \cup {t} ELSE @ \ {t}]
    /\ sensitive' = IF on THEN sensitive \cup {EntryOf(t)} ELSE sensitive \ {EntryOf(t)}
    /\ edited' = Nothing /\ UNCHANGED <<error, freq>>

Toggle(t) ==
    LET on == t \notin form.on IN
    /\ form' = [form EXCEPT !.on = IF on THEN @ \cup {t} ELSE @ \ {t}]
    /\ sensitive' = IF on # (t = "open") THEN sensitive \cup {EntryOf(t)}
                                         ELSE sensitive \ {EntryOf(t)}
    /\ edited' = Nothing /\ UNCHANGED <<error, freq>>

EditFlag(o) ==
    /\ form' = [form EXCEPT !.flags = IF o \in @ THEN @ \ {o} ELSE @ \cup {o}]
    /\ edited' = Nothing /\ UNCHANGED <<sensitive, freq, error>>

Edit == Editing /\ \/ \E v \in Names \ {"collapsed"} : EditSsid(v)
                   \/ \E v \in Passes \ {"collapsed"} : EditPass(v)
                   \/ \E v \in Macs : EditMac(v)
                   \/ \E v \in ChannelTexts : EditChannel(v)
                   \/ \E v \in Lists \ {"garbled"} : EditList(v)
                   \/ \E v \in Gateways : EditGateway(v)
                   \/ \E v \in Bands : EditBand(v)
                   \/ \E t \in Toggles : Toggle(t)
                   \/ \E o \in Flags : EditFlag(o)

-----------------------------------------------------------------------------
Null == "null"

(* init_config_val_input: an option that is off is a null pointer, but for *)
(* the passphrase, which is empty.                                         *)
Gathered ==
    [ssid |-> form.ssid,
     pass |-> IF "open" \in form.on THEN "empty" ELSE form.pass,
     freq |-> form.band,
     channel |-> IF "channel" \in form.on THEN form.channel ELSE Default,
     gateway |-> IF "gateway" \in form.on THEN form.gateway ELSE Null,
     mac |-> IF "mac" \in form.on THEN form.mac ELSE Null,
     flags |-> form.flags,
     mac_filter |-> "list" \in form.on]

ValidEntry(entry, cv) ==
    CASE entry = "ssid"    -> cv.ssid # "unnamed"
      [] entry = "pass"    -> cv.pass # "short"
      [] entry = "mac"     -> "mac" \in form.on => cv.mac \in {"grouped", "dashed"}
      [] entry = "channel" -> "channel" \in form.on =>
                                /\ cv.channel # 0
                                /\ cv.freq = "auto" => cv.channel \in 1 .. 196
                                /\ cv.freq = "b2"   => cv.channel \in 1 .. 11
                                /\ cv.freq = "b5"   => cv.channel \in 1 .. 196
      [] entry = "list"    -> "list" \in form.on => isValidAcceptedMacs(form.list)
      [] entry = "gateway" -> "gateway" \in form.on => isValidIPaddress(cv.gateway)

(* A mutant: the list is not looked at again.                              *)
ValidatorTrusting(cv) == \A e \in Entries \ {"list"} : ValidEntry(e, cv)

Validator(cv) == \A e \in Entries : ValidEntry(e, cv)

(* A mutant: mkconfig starts from what the file says.                      *)
ConfiguredFromOld(cv) ==
    [kind |-> "whole", ssid |-> Collapsed(cv.ssid), pass |-> Collapsed(cv.pass),
     band |-> IF cv.freq = "auto" THEN "default" ELSE cv.freq,
     channel |-> cv.channel,
     mac |-> IF cv.mac = Null THEN file.mac ELSE cv.mac,
     gateway |-> IF cv.gateway = Null THEN "standard" ELSE cv.gateway,
     filter |-> cv.mac_filter, flags |-> cv.flags]

(* create_ap --mkconfig: the options given, over the script's own defaults.*)
Configured(cv) ==
    [kind |-> "whole", ssid |-> Collapsed(cv.ssid), pass |-> Collapsed(cv.pass),
     band |-> IF cv.freq = "auto" THEN "default" ELSE cv.freq,
     channel |-> cv.channel,
     mac |-> IF cv.mac = Null THEN "empty" ELSE cv.mac,
     gateway |-> IF cv.gateway = Null THEN "standard" ELSE cv.gateway,
     filter |-> cv.mac_filter, flags |-> cv.flags]

(* Create is clicked with an input that does not pass.                     *)
CreateRefused ==
    /\ window = "open" /\ ~command
    /\ freq' = form.band
    /\ ~Validator(Gathered)
    /\ error' = "inputs" /\ edited' = Nothing /\ ap' = {}
    /\ UNCHANGED <<file, accept, window, loaded, form, sensitive, command, written,
                   denied, touched, edits>>

(* Create is clicked: the list of addresses is written when it is used,    *)
(* and to the file the configuration named; then the configuration.  The   *)
(* user may refuse either.                                                 *)
Create ==
    /\ window = "open" /\ ~command
    /\ freq' = form.band
    /\ Validator(Gathered)
    /\ error' = Nothing /\ edited' = Nothing
    /\ \E no \in SUBSET ({"mkconfig"} \cup (IF Gathered.mac_filter THEN {"tee"} ELSE {})) :
         /\ accept' = IF Gathered.mac_filter /\ loaded /\ "tee" \notin no
                        THEN form.list ELSE accept
         /\ IF "mkconfig" \in no THEN UNCHANGED <<file, written>>
            ELSE file' = Configured(Gathered) /\ written' = {form}
         /\ denied' = no
    /\ command' = TRUE /\ ap' = {}
    /\ UNCHANGED <<window, loaded, form, sensitive, touched, edits>>

-----------------------------------------------------------------------------
(* create_ap --config FILE [--freq-band BAND], with a virtual interface.   *)
(* The band in force and whether it was set; the option comes last.        *)
BandOption == IF freq = "auto" THEN file.band ELSE freq

(* A mutant: a channel is kept when the card is on another.                *)
TunedKeeping(link, two) ==
    LET band == BandOption
        chan == IF file.channel # Default THEN file.channel
                ELSE IF band = "b2" THEN 1 ELSE 36
        high == IF band # "b5" /\ chan > 14 THEN "b5" ELSE band
    IN IF link # 0 /\ band = "default"
         THEN [band |-> IF Freq!is_5ghz_frequency(link) THEN "b5" ELSE "b2", channel |-> chan]
         ELSE [band |-> high, channel |-> chan]

(* The band and channel with the card at link.  Whether it can be on two   *)
(* channels is looked up for IFACE, which is not set there, so the answer, *)
(* two, is that of the first card of the machine.                          *)
Tuned(link, two) ==
    LET band == BandOption
        chan == IF file.channel # Default THEN file.channel
                ELSE IF band = "b2" THEN 1 ELSE 36
        high == IF band # "b5" /\ chan > 14 THEN "b5" ELSE band
    IN IF link # 0 /\ band = "default"
         THEN [band |-> IF Freq!is_5ghz_frequency(link) THEN "b5" ELSE "b2",
               channel |-> IF two THEN chan ELSE Freq!ieee80211_frequency_to_channel(link)]
         ELSE [band |-> high, channel |-> chan]

(* Anything but 2.4 is the 5 GHz band, to the transmit check and hostapd.  *)
Mode(tuned) == IF tuned.band = "b2" THEN "b2" ELSE "b5"

CanTransmit(tuned, adapter) == <<Mode(tuned), tuned.channel>> \in adapter

(* A default channel the adapter cannot transmit on gives way to the       *)
(* link's; with no link looked at, that is no channel at all.              *)
Settled(link, two, adapter) ==
    LET tuned == Tuned(link, two) IN
    IF /\ ~CanTransmit(tuned, adapter) /\ file.channel = Default
       /\ link # 0 /\ BandOption = "default"
      THEN [tuned EXCEPT !.channel = Freq!ieee80211_frequency_to_channel(link)]
      ELSE tuned

(* The options are refused, or the adapter cannot transmit there.          *)
Refuses(link, two, adapter) ==
    \/ file.kind = "missing" \/ file.ssid = "unnamed" \/ file.pass \in {"short", "overlong"}
    \/ file.mac \in {"dashed", "junk"}
    \/ ~CanTransmit(Settled(link, two, adapter), adapter)

Started(link, two, adapter) ==
    [ssid |-> file.ssid, pass |-> file.pass, band |-> Mode(Settled(link, two, adapter)),
     channel |-> Settled(link, two, adapter).channel, mac |-> file.mac,
     gateway |-> file.gateway, filter |-> file.filter, list |-> accept,
     flags |-> file.flags, link |-> link, two |-> two]

Start ==
    /\ command /\ command' = FALSE
    /\ \E link \in Links, two \in BOOLEAN, adapter \in Adapters :
         ap' = IF Refuses(link, two, adapter) THEN {} ELSE {Started(link, two, adapter)}
    /\ UNCHANGED <<file, accept, window, loaded, form, sensitive, freq, error, edited,
                   written, denied, touched, edits>>

FormNext == init_ui_from_config \/ Close \/ Edit \/ CreateRefused \/ Create \/ Start

FormSpec == FormInit /\ [][FormNext]_formVars

-----------------------------------------------------------------------------
FormTypeOK ==
    /\ file \in File /\ accept \in Lists /\ form \in Form
    /\ window \in {"closed", "open", "crashed"} /\ loaded \in BOOLEAN
    /\ sensitive \in SUBSET Entries /\ "ssid" \in sensitive
    /\ freq \in Bands \cup {"default"}
    /\ error \in Entries \cup {"inputs", Nothing} /\ edited \in Entries \cup {Nothing}
    /\ command \in BOOLEAN /\ written \in SUBSET Form
    /\ denied \in SUBSET {"mkconfig", "tee"} /\ touched \in BOOLEAN
    /\ edits \in 0 .. MaxEdits

(* What of a form comes back from the file: texts as the shell left them,  *)
(* nothing of an entry that was off.                                       *)
Remembered(f) ==
    LET open == "open" \in f.on \/ f.pass = "empty"
        gate == "gateway" \in f.on /\ f.gateway # "standard"
    IN [f EXCEPT !.ssid = Collapsed(@),
                 !.pass = IF open THEN "empty" ELSE Collapsed(@),
                 !.channel = IF "channel" \in f.on THEN @ ELSE 0,
                 !.mac = IF "mac" \in f.on THEN @ ELSE "empty",
                 !.gateway = IF gate THEN @ ELSE "standard",
                 !.on = (@ \ {"open", "gateway"}) \cup (IF open THEN {"open"} ELSE {})
                                                  \cup (IF gate THEN {"gateway"} ELSE {})]

(* The next window shows what was saved last, but for what the shell does  *)
(* to blanks and for the list of addresses: each of the eleven settings    *)
(* goes out as an option and comes back as a key and a toggle of another   *)
(* shape (ui.c:876-975, h_prop.c:102-162, create_ap:1033-1049,             *)
(* ui.c:501-617).                                                          *)
RemembersForm ==
    window = "open" /\ loaded /\ ~touched =>
      \A f \in written : [form EXCEPT !.list = "empty"] = [Remembered(f) EXCEPT !.list = "empty"]

(* A hotspot that comes up after nothing was refused has the settings the  *)
(* window shows, those that are off at the script's defaults and not at    *)
(* those of the hotspot before; a filter has the list shown, once the      *)
(* window knows where it goes (ui.c:145-157, create_ap:1067-1085).         *)
StartsAsShown ==
    \A a \in ap :
      denied = {} =>
        /\ a.ssid = Collapsed(form.ssid) /\ a.flags = form.flags
        /\ a.pass = Collapsed(IF "open" \in form.on THEN "empty" ELSE form.pass)
        /\ a.mac = IF "mac" \in form.on THEN form.mac ELSE "empty"
        /\ a.gateway = IF "gateway" \in form.on THEN form.gateway ELSE "standard"
        /\ a.filter = ("list" \in form.on)
        /\ a.filter /\ loaded => a.list = form.list

(* A band that was chosen is the one used, with the channel that was       *)
(* typed; left open, a card that is connected makes the hotspot share its  *)
(* band, and its channel too unless two channels are taken for possible,   *)
(* when a typed one is used.  The channel is settled in four places one    *)
(* after another (create_ap:1412-1426, 1648-1668, 1704-1716).              *)
ChannelAsAsked ==
    \A a \in ap :
      "mkconfig" \notin denied =>
        /\ form.band # "auto" => a.band = form.band
        /\ form.band # "auto" \/ a.link = 0 \/ a.two =>
             ("channel" \in form.on => a.channel = form.channel)
        /\ form.band = "auto" /\ a.link # 0 =>
             /\ ~a.two => a.channel = Freq!ChannelOf(a.link)
             /\ a.band = IF a.link >= 4900 THEN "b5" ELSE "b2"

(* An entry can be typed in exactly when its toggle asks for it, after a   *)
(* load as after any order of clicks (comments of ui.c:1053-1104).         *)
EntriesFollowToggles ==
    window = "open" /\ loaded =>
      \A t \in Toggles : (EntryOf(t) \in sensitive) = ((t \in form.on) # (t = "open"))

(* The text beside an entry tells of an error exactly when Create would    *)
(* refuse what was just typed: the six handlers and the validator test the *)
(* same things separately (ui.c:208-379, 792-874).  Left out is a channel  *)
(* typed while configValues.freq is the "default" a file said, for which   *)
(* the handler knows no bounds.                                            *)
EditSaysWhy ==
    edited # Nothing /\ ~(edited = "channel" /\ freq = "default") =>
      error = IF ValidEntry(edited, Gathered) THEN Nothing ELSE edited

(* The file of addresses never gets what read_mac_filter_file made of it:  *)
(* only a list the user typed is written back (ui.c:862-865,               *)
(* h_prop.c:153-157, 181-207).                                             *)
MacFileIsUsers == accept # "garbled"
=============================================================================
