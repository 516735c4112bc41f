-------------------------- MODULE ConfigForm_proofs --------------------------
(* Theorems about ConfigForm, for every set of links, adapters, channel    *)
(* texts and flags and any number of edits.                                *)
EXTENDS ConfigForm, TLAPS

USE DEF Names, Passes, Macs, Gateways, Lists, Bands, Entries, Toggles, Nothing, Null

(* The parts of the type a step can change.                                *)
FilesOK == file \in File /\ accept \in Lists /\ written \in SUBSET Form
           /\ denied \in SUBSET {"mkconfig", "tee"}
ViewOK  == /\ form \in Form
           /\ sensitive \in SUBSET Entries /\ "ssid" \in sensitive
           /\ freq \in Bands \cup {"default"}
           /\ error \in Entries \cup {"inputs", Nothing} /\ edited \in Entries \cup {Nothing}
FlowOK  == /\ window \in {"closed", "open", "crashed"} /\ loaded \in BOOLEAN
           /\ command \in BOOLEAN /\ touched \in BOOLEAN
CountOK == edits \in 0 .. MaxEdits
TypeInv == FilesOK /\ ViewOK /\ FlowOK

LEMMA EmptyInForm == EmptyForm \in Form
<1>1. 0 \in ChannelTexts
  BY ChannelAssumption
<1> QED BY <1>1 DEF EmptyForm, Form

LEMMA ShippedInFile == \A k \in {"missing", "old", "whole"} : [Shipped EXCEPT !.kind = k] \in File
BY DEF Shipped, File

LEMMA InitTypes == FormInit => TypeInv
<1> SUFFICES ASSUME FormInit PROVE TypeInv
  OBVIOUS
<1>1. FilesOK
  BY ShippedInFile DEF FormInit, FilesOK
<1>2. ViewOK
  BY EmptyInForm DEF FormInit, ViewOK
<1>3. FlowOK
  BY DEF FormInit, FlowOK
<1> QED BY <1>1, <1>2, <1>3 DEF TypeInv

LEMMA LoadedInForm == file \in File => \A l \in Lists : LoadedForm(l) \in Form
<1> SUFFICES ASSUME file \in File, NEW l \in Lists PROVE LoadedForm(l) \in Form
  OBVIOUS
<1>1. 0 \in ChannelTexts /\ Default \notin ChannelTexts
  BY ChannelAssumption
<1>2. (IF file.channel = Default THEN 0 ELSE file.channel) \in ChannelTexts
  BY <1>1 DEF File
<1> QED BY <1>2 DEF LoadedForm, Form, File

(* What the window opens with.                                             *)
LEMMA LaunchTypes == TypeInv /\ init_ui_from_config => TypeInv'
<1> SUFFICES ASSUME TypeInv, init_ui_from_config PROVE TypeInv'
  OBVIOUS
<1> USE DEF TypeInv
<1>1. file.kind \in {"missing", "old", "whole"}
  BY DEF FilesOK, File
<1>2. FilesOK'
  BY DEF FilesOK, init_ui_from_config
<1>3. CASE file.kind = "missing"
  <2>1. /\ window' = "open" /\ loaded' = FALSE /\ form' = EmptyForm
        /\ sensitive' = Entries \ {"list"}
        /\ freq' = "auto" /\ error' = Nothing /\ edited' = Nothing /\ touched' = FALSE
        /\ command' = command
    BY <1>3 DEF init_ui_from_config
  <2> QED BY <1>2, <2>1, EmptyInForm DEF ViewOK, FlowOK
<1>4. CASE file.kind = "old"
  <2>1. /\ window' = "crashed" /\ UNCHANGED <<loaded, form, sensitive, freq, error>>
        /\ edited' = Nothing /\ touched' = FALSE /\ command' = command
    BY <1>4 DEF init_ui_from_config
  <2> QED BY <1>2, <2>1 DEF ViewOK, FlowOK
<1>5. CASE file.kind = "whole"
  <2>1. /\ window' = "open" /\ loaded' = TRUE
        /\ \E l \in ReadList(accept) : form' = LoadedForm(l)
        /\ sensitive' = {"ssid"} \cup {e \in Entries \ {"ssid", "pass"} : e \in form'.on}
                        \cup (IF "open" \in form'.on THEN {} ELSE {"pass"})
        /\ freq' = file.band
        /\ error' \in {"list", Nothing}
        /\ edited' = Nothing /\ touched' = FALSE /\ command' = command
    BY <1>5 DEF init_ui_from_config
  <2>2. form' \in Form
    BY <2>1, LoadedInForm DEF FilesOK, ReadList
  <2>3. freq' \in Bands \cup {"default"}
    BY <2>1 DEF FilesOK, File
  <2> QED BY <1>2, <2>1, <2>2, <2>3 DEF ViewOK, FlowOK
<1> QED BY <1>1, <1>3, <1>4, <1>5

(* An edit, by the entry or toggle it is of.                               *)
LEMMA EditTypes == TypeInv /\ Edit => TypeInv'
<1> SUFFICES ASSUME TypeInv, Edit PROVE TypeInv'
  OBVIOUS
<1> USE DEF TypeInv
<1>1. /\ UNCHANGED <<file, accept, window, loaded, command, written, denied>>
      /\ touched' = TRUE
  BY DEF Edit, Editing
<1>2. FilesOK' /\ FlowOK'
  BY <1>1 DEF FilesOK, FlowOK
<1>3. form \in Form /\ sensitive \in SUBSET Entries /\ "ssid" \in sensitive
      /\ freq \in Bands \cup {"default"} /\ error \in Entries \cup {"inputs", Nothing}
  BY DEF ViewOK
<1>4. ASSUME NEW e \in Entries, NEW wrong, Warn(e, wrong)
      PROVE  error' \in Entries \cup {"inputs", Nothing}
  BY <1>4 DEF Warn
<1>5. ASSUME NEW v \in Names, EditSsid(v) PROVE ViewOK'
  <2>1. form' \in Form
    BY <1>3, <1>5 DEF EditSsid, Form
  <2> QED BY <1>3, <1>4, <1>5, <2>1 DEF ViewOK, EditSsid
<1>6. ASSUME NEW v \in Passes, EditPass(v) PROVE ViewOK'
  <2>1. form' \in Form
    BY <1>3, <1>6 DEF EditPass, Form
  <2> QED BY <1>3, <1>4, <1>6, <2>1 DEF ViewOK, EditPass
<1>7. ASSUME NEW v \in Macs, EditMac(v) PROVE ViewOK'
  <2>1. form' \in Form
    BY <1>3, <1>7 DEF EditMac, Form
  <2> QED BY <1>3, <1>4, <1>7, <2>1 DEF ViewOK, EditMac
<1>8. ASSUME NEW v \in ChannelTexts, EditChannel(v) PROVE ViewOK'
  <2>1. form' \in Form
    BY <1>3, <1>8 DEF EditChannel, Form
  <2> QED BY <1>3, <1>4, <1>8, <2>1 DEF ViewOK, EditChannel
<1>9. ASSUME NEW v \in Lists, EditList(v) PROVE ViewOK'
  <2>1. form' \in Form
    BY <1>3, <1>9 DEF EditList, Form
  <2> QED BY <1>3, <1>4, <1>9, <2>1 DEF ViewOK, EditList
<1>10. ASSUME NEW v \in Gateways, EditGateway(v) PROVE ViewOK'
  <2>1. form' \in Form
    BY <1>3, <1>10 DEF EditGateway, Form
  <2> QED BY <1>3, <1>4, <1>10, <2>1 DEF ViewOK, EditGateway
<1>11. ASSUME NEW v \in Bands, EditBand(v) PROVE ViewOK'
  <2>1. form' \in Form
    BY <1>3, <1>11 DEF EditBand, Form
  <2> QED BY <1>3, <1>11, <2>1 DEF ViewOK, EditBand
<1>12. ASSUME NEW t \in Toggles, Toggle(t) PROVE ViewOK'
  <2>1. form' \in Form
    BY <1>3, <1>12 DEF Toggle, Form
  <2>2. EntryOf(t) \in Entries /\ EntryOf(t) # "ssid"
    BY DEF EntryOf
  <2>3. sensitive' \in SUBSET Entries /\ "ssid" \in sensitive'
    BY <1>3, <1>12, <2>2 DEF Toggle
  <2> QED BY <1>3, <1>12, <2>1, <2>3 DEF ViewOK, Toggle
<1>13. ASSUME NEW o \in Flags, EditFlag(o) PROVE ViewOK'
  <2>1. form' \in Form
    BY <1>3, <1>13 DEF EditFlag, Form
  <2> QED BY <1>3, <1>13, <2>1 DEF ViewOK, EditFlag
<1> QED BY <1>2, <1>5, <1>6, <1>7, <1>8, <1>9, <1>10, <1>11, <1>12, <1>13 DEF Edit

(* What Create makes of a form is a file.                                  *)
LEMMA ConfiguredInFile == form \in Form => Configured(Gathered) \in File
BY ChannelAssumption DEF Configured, Gathered, Collapsed, Form, File

LEMMA OtherTypes == TypeInv /\ (Close \/ CreateRefused \/ Create \/ Start) => TypeInv'
<1> SUFFICES ASSUME TypeInv, Close \/ CreateRefused \/ Create \/ Start PROVE TypeInv'
  OBVIOUS
<1> USE DEF TypeInv
<1>1. form \in Form /\ form.band \in Bands /\ form.list \in Lists
  BY DEF ViewOK, Form
<1>2. CASE Close
  BY <1>2 DEF Close, FilesOK, ViewOK, FlowOK
<1>3. CASE CreateRefused
  <2>1. FilesOK' /\ FlowOK'
    BY <1>3 DEF CreateRefused, FilesOK, FlowOK
  <2>2. ViewOK'
    BY <1>1, <1>3 DEF CreateRefused, ViewOK
  <2> QED BY <2>1, <2>2
<1>4. CASE Create
  <2>1. ViewOK'
    BY <1>1, <1>4 DEF Create, ViewOK
  <2>2. FlowOK'
    BY <1>4 DEF Create, FlowOK
  <2>3. accept' \in Lists /\ denied' \in SUBSET {"mkconfig", "tee"}
    BY <1>1, <1>4 DEF Create, FilesOK
  <2>4. file' \in File /\ written' \in SUBSET Form
    BY <1>1, <1>4, ConfiguredInFile DEF Create, FilesOK
  <2> QED BY <2>1, <2>2, <2>3, <2>4 DEF FilesOK
<1>5. CASE Start
  <2>1. /\ command' = FALSE
        /\ UNCHANGED <<file, accept, window, loaded, form, sensitive, freq, error, edited,
                       written, denied, touched>>
    BY <1>5 DEF Start
  <2>2. FilesOK' /\ ViewOK'
    BY <2>1 DEF FilesOK, ViewOK
  <2>3. FlowOK'
    BY <2>1 DEF FlowOK
  <2> QED BY <2>2, <2>3
<1> QED BY <1>2, <1>3, <1>4, <1>5

LEMMA StepTypes == TypeInv /\ [FormNext]_formVars => TypeInv'
<1>1. ASSUME TypeInv, UNCHANGED formVars PROVE TypeInv'
  BY <1>1 DEF TypeInv, FilesOK, ViewOK, FlowOK, formVars
<1> QED BY <1>1, LaunchTypes, EditTypes, OtherTypes DEF FormNext

LEMMA TypesHold == FormSpec => []TypeInv
BY InitTypes, StepTypes, PTL DEF FormSpec

(* Every text on its way from the form to the file and back stays one the  *)
(* model knows (ui.c:498-990, h_prop.c:102-186, read_config.cpp:50-83).    *)
THEOREM FormTypes == FormSpec => []FormTypeOK
<1>1. FormInit => CountOK
  BY MaxEditsAssumption DEF FormInit, CountOK
<1>2. CountOK /\ [FormNext]_formVars => CountOK'
  <2> SUFFICES ASSUME CountOK, [FormNext]_formVars PROVE CountOK'
    OBVIOUS
  <2>1. CASE edits' = edits
    BY <2>1 DEF CountOK
  <2>2. CASE Edit
    BY <2>2, MaxEditsAssumption DEF CountOK, Edit, Editing
  <2> QED BY <2>1, <2>2 DEF FormNext, formVars, init_ui_from_config, Close, CreateRefused,
                            Create, Start
<1>3. TypeInv /\ CountOK => FormTypeOK
  BY DEF TypeInv, CountOK, FilesOK, ViewOK, FlowOK, FormTypeOK
<1> QED BY <1>1, <1>2, <1>3, TypesHold, PTL DEF FormSpec

-----------------------------------------------------------------------------
(* An entry and its toggle, for one toggle at a time.                      *)
Opens(t) == IF t = "open" THEN "pass" \in sensitive <=> "open" \notin form.on
                          ELSE t \in sensitive <=> t \in form.on

PassFollows == window = "open" => Opens("open")
AllFollow   == window = "open" /\ loaded => \A t \in Toggles : Opens(t)
FreqFollows == window = "open" => \/ freq = form.band
                                  \/ freq = "default" /\ form.band = "auto"
FollowInv   == PassFollows /\ AllFollow /\ FreqFollows

LEMMA LaunchFollows == TypeInv /\ init_ui_from_config => FollowInv'
<1> SUFFICES ASSUME TypeInv, init_ui_from_config PROVE FollowInv'
  OBVIOUS
<1>1. file.kind \in {"missing", "old", "whole"} /\ file.band \in {"default", "b2", "b5"}
  BY DEF TypeInv, FilesOK, File
<1>2. CASE file.kind = "missing"
  <2>1. /\ window' = "open" /\ loaded' = FALSE /\ form' = EmptyForm
        /\ sensitive' = Entries \ {"list"}
        /\ freq' = "auto"
    BY <1>2 DEF init_ui_from_config
  <2>2. form'.on = {} /\ form'.band = "auto" /\ "pass" \in sensitive'
    BY <2>1 DEF EmptyForm
  <2> QED BY <2>1, <2>2 DEF FollowInv, PassFollows, AllFollow, FreqFollows, Opens
<1>3. CASE file.kind = "old"
  <2>1. window' = "crashed"
    BY <1>3 DEF init_ui_from_config
  <2> QED BY <2>1 DEF FollowInv, PassFollows, AllFollow, FreqFollows
<1>4. CASE file.kind = "whole"
  <2>1. /\ \E l \in ReadList(accept) : form' = LoadedForm(l)
        /\ sensitive' = {"ssid"} \cup {e \in Entries \ {"ssid", "pass"} : e \in form'.on}
                        \cup (IF "open" \in form'.on THEN {} ELSE {"pass"})
        /\ freq' = file.band
    BY <1>4 DEF init_ui_from_config
  <2>2. "pass" \in sensitive' <=> "open" \notin form'.on
    BY <2>1
  <2>3. \A t \in Toggles \ {"open"} : t \in sensitive' <=> t \in form'.on
    BY <2>1
  <2>4. form'.band = IF file.band = "default" THEN "auto" ELSE file.band
    BY <2>1 DEF LoadedForm
  <2>5. freq' = form'.band \/ (freq' = "default" /\ form'.band = "auto")
    BY <1>1, <2>1, <2>4
  <2> QED BY <2>2, <2>3, <2>5 DEF FollowInv, PassFollows, AllFollow, FreqFollows, Opens
<1> QED BY <1>1, <1>2, <1>3, <1>4

(* Only a toggle moves an entry, and only a radio button the band.         *)
LEMMA EditFollows == TypeInv /\ FollowInv /\ Edit => FollowInv'
<1> SUFFICES ASSUME TypeInv, FollowInv, Edit PROVE FollowInv'
  OBVIOUS
<1>1. window = "open" /\ UNCHANGED <<window, loaded>>
  BY DEF Edit, Editing
<1>2. form \in Form /\ sensitive \in SUBSET Entries
  BY DEF TypeInv, ViewOK
<1>3. ASSUME form'.on = form.on, form'.band = form.band, UNCHANGED <<sensitive, freq>>
      PROVE  FollowInv'
  BY <1>1, <1>3 DEF FollowInv, PassFollows, AllFollow, FreqFollows, Opens
<1>4. ASSUME NEW v, EditSsid(v) PROVE FollowInv'
  BY <1>2, <1>3, <1>4 DEF EditSsid, Form
<1>5. ASSUME NEW v, EditPass(v) PROVE FollowInv'
  BY <1>2, <1>3, <1>5 DEF EditPass, Form
<1>6. ASSUME NEW v, EditMac(v) PROVE FollowInv'
  BY <1>2, <1>3, <1>6 DEF EditMac, Form
<1>7. ASSUME NEW v, EditChannel(v) PROVE FollowInv'
  BY <1>2, <1>3, <1>7 DEF EditChannel, Form
<1>8. ASSUME NEW v, EditList(v) PROVE FollowInv'
  BY <1>2, <1>3, <1>8 DEF EditList, Form
<1>9. ASSUME NEW v, EditGateway(v) PROVE FollowInv'
  BY <1>2, <1>3, <1>9 DEF EditGateway, Form
<1>10. ASSUME NEW o, EditFlag(o) PROVE FollowInv'
  BY <1>2, <1>3, <1>10 DEF EditFlag, Form
<1>11. ASSUME NEW v, EditBand(v) PROVE FollowInv'
  <2>1. form'.on = form.on /\ form'.band = v /\ freq' = v /\ sensitive' = sensitive
    BY <1>2, <1>11 DEF EditBand, Form
  <2> QED BY <1>1, <2>1 DEF FollowInv, PassFollows, AllFollow, FreqFollows, Opens
<1>12. ASSUME NEW t \in Toggles, Toggle(t) PROVE FollowInv'
  <2>1. form'.on = (IF t \notin form.on THEN form.on \cup {t} ELSE form.on \ {t})
        /\ form'.band = form.band /\ freq' = freq
    BY <1>2, <1>12 DEF Toggle, Form
  <2>2. CASE t = "open"
    <3>1. sensitive' = IF "open" \notin form.on THEN sensitive \ {"pass"}
                                                ELSE sensitive \cup {"pass"}
      BY <1>12, <2>2 DEF Toggle, EntryOf
    <3>2. "pass" \in sensitive' <=> "open" \notin form'.on
      BY <2>1, <2>2, <3>1
    <3>3. ASSUME NEW u \in Toggles \ {"open"}
          PROVE  (u \in sensitive' <=> u \in sensitive) /\ (u \in form'.on <=> u \in form.on)
      BY <2>1, <2>2, <3>1
    <3> QED BY <1>1, <2>1, <3>2, <3>3 DEF FollowInv, PassFollows, AllFollow, FreqFollows, Opens
  <2>3. CASE t # "open"
    <3>1. sensitive' = IF t \notin form.on THEN sensitive \cup {t} ELSE sensitive \ {t}
      BY <1>12, <2>3 DEF Toggle, EntryOf
    <3>2. t \in sensitive' <=> t \in form'.on
      BY <2>1, <3>1
    <3>3. ("pass" \in sensitive' <=> "pass" \in sensitive)
          /\ ("open" \in form'.on <=> "open" \in form.on)
      BY <2>1, <2>3, <3>1
    <3>4. ASSUME NEW u \in Toggles, u # t
          PROVE  (u \in sensitive' <=> u \in sensitive) /\ (u \in form'.on <=> u \in form.on)
      BY <2>1, <3>1, <3>4
    <3> QED BY <1>1, <2>1, <2>3, <3>2, <3>3, <3>4
            DEF FollowInv, PassFollows, AllFollow, FreqFollows, Opens
  <2> QED BY <2>2, <2>3
<1> QED BY <1>4, <1>5, <1>6, <1>7, <1>8, <1>9, <1>10, <1>11, <1>12 DEF Edit

LEMMA StepFollows == TypeInv /\ FollowInv /\ [FormNext]_formVars => FollowInv'
<1> SUFFICES ASSUME TypeInv, FollowInv, [FormNext]_formVars PROVE FollowInv'
  OBVIOUS
<1>1. CASE UNCHANGED <<window, loaded, form, sensitive, freq>>
  BY <1>1 DEF FollowInv, PassFollows, AllFollow, FreqFollows, Opens
<1>2. CASE Close
  <2>1. window' = "closed"
    BY <1>2 DEF Close
  <2> QED BY <2>1 DEF FollowInv, PassFollows, AllFollow, FreqFollows
<1>3. CASE CreateRefused \/ Create
  <2>1. UNCHANGED <<window, loaded, form, sensitive>> /\ freq' = form.band
    BY <1>3 DEF CreateRefused, Create
  <2> QED BY <2>1 DEF FollowInv, PassFollows, AllFollow, FreqFollows, Opens
<1>4. CASE Start
  BY <1>1, <1>4 DEF Start
<1>5. CASE UNCHANGED formVars
  BY <1>1, <1>5 DEF formVars
<1> QED BY <1>2, <1>3, <1>4, <1>5, LaunchFollows, EditFollows DEF FormNext

LEMMA FollowHolds == FormSpec => []FollowInv
<1>1. FormInit => FollowInv
  BY DEF FormInit, FollowInv, PassFollows, AllFollow, FreqFollows
<1> QED BY <1>1, StepFollows, TypesHold, PTL DEF FormSpec

(* After a load and any clicks, in any order, an entry can be typed in     *)
(* exactly when its toggle asks for it (ui.c:501-617, 1053-1112).          *)
THEOREM TogglesGovern == FormSpec => []EntriesFollowToggles
<1>1. FollowInv => EntriesFollowToggles
  <2> SUFFICES ASSUME FollowInv, window = "open", loaded, NEW t \in Toggles
               PROVE  (EntryOf(t) \in sensitive) = ((t \in form.on) # (t = "open"))
    BY DEF EntriesFollowToggles
  <2>1. Opens(t)
    BY DEF FollowInv, AllFollow
  <2>2. CASE t = "open"
    BY <2>1, <2>2 DEF Opens, EntryOf
  <2>3. CASE t # "open"
    BY <2>1, <2>3 DEF Opens, EntryOf
  <2> QED BY <2>2, <2>3
<1> QED BY <1>1, FollowHolds, PTL

-----------------------------------------------------------------------------
(* The file of addresses is only ever written with a list that was read    *)
(* from the window and found valid (ui.c:862-865, h_prop.c:155-159).       *)
THEOREM ListIsUsers == FormSpec => []MacFileIsUsers
<1>1. FormInit => MacFileIsUsers
  BY DEF FormInit, MacFileIsUsers
<1>2. TypeInv /\ MacFileIsUsers /\ [FormNext]_formVars => MacFileIsUsers'
  <2> SUFFICES ASSUME TypeInv, MacFileIsUsers, [FormNext]_formVars PROVE MacFileIsUsers'
    OBVIOUS
  <2>1. CASE accept' = accept
    BY <2>1 DEF MacFileIsUsers
  <2>2. CASE Create
    <3>1. ValidEntry("list", Gathered)
      BY <2>2 DEF Create, Validator
    <3>2. "list" \in form.on => form.list = "one_mac"
      BY <3>1 DEF ValidEntry, isValidAcceptedMacs
    <3>3. Gathered.mac_filter => "list" \in form.on
      BY DEF Gathered
    <3>4. accept' = accept \/ accept' = "one_mac"
      BY <2>2, <3>2, <3>3 DEF Create
    <3> QED BY <3>4 DEF MacFileIsUsers
  <2> QED BY <2>1, <2>2 DEF FormNext, formVars, init_ui_from_config, Close, Edit, Editing,
                            CreateRefused, Start
<1> QED BY <1>1, <1>2, TypesHold, PTL DEF FormSpec

(* The handler of each entry and the validator agree on what was typed,    *)
(* though they are written twice (ui.c:208-379, 792-874).                  *)
LEMMA EditExplains == TypeInv /\ FollowInv /\ Edit => EditSaysWhy'
<1> SUFFICES ASSUME TypeInv, FollowInv, Edit PROVE EditSaysWhy'
  OBVIOUS
<1>1. form \in Form /\ form' \in Form /\ window = "open" /\ UNCHANGED window
  BY EditTypes DEF TypeInv, ViewOK, Edit, Editing
<1>2. freq = form.band \/ (freq = "default" /\ form.band = "auto")
  BY <1>1 DEF FollowInv, FreqFollows
<1>3. "pass" \in sensitive => "open" \notin form.on
  BY <1>1 DEF FollowInv, PassFollows, Opens
<1>4. ASSUME NEW v \in Names, EditSsid(v) PROVE EditSaysWhy'
  <2>1. form'.ssid = v /\ edited' = "ssid" /\ error' = IF v = "unnamed" THEN "ssid" ELSE Nothing
    BY <1>1, <1>4 DEF EditSsid, Warn, Form
  <2>2. ValidEntry("ssid", Gathered)' <=> v # "unnamed"
    BY <2>1 DEF ValidEntry, Gathered
  <2> QED BY <2>1, <2>2 DEF EditSaysWhy
<1>5. ASSUME NEW v \in Passes, EditPass(v) PROVE EditSaysWhy'
  <2>1. /\ form'.pass = v /\ form'.on = form.on /\ edited' = "pass"
        /\ error' = IF v = "short" THEN "pass" ELSE Nothing
        /\ "open" \notin form.on
    BY <1>1, <1>3, <1>5 DEF EditPass, Warn, Form
  <2>2. ValidEntry("pass", Gathered)' <=> v # "short"
    BY <2>1 DEF ValidEntry, Gathered
  <2> QED BY <2>1, <2>2 DEF EditSaysWhy
<1>6. ASSUME NEW v \in Macs, EditMac(v) PROVE EditSaysWhy'
  <2>1. /\ form'.mac = v /\ form'.on = form.on /\ edited' = "mac"
        /\ error' = IF "mac" \in form.on /\ v \notin {"grouped", "dashed"} THEN "mac" ELSE Nothing
    BY <1>1, <1>6 DEF EditMac, Warn, Form
  <2>2. ValidEntry("mac", Gathered)' <=> ~("mac" \in form.on /\ v \notin {"grouped", "dashed"})
    BY <2>1 DEF ValidEntry, Gathered
  <2> QED BY <2>1, <2>2 DEF EditSaysWhy
<1>7. ASSUME NEW v \in Lists, EditList(v) PROVE EditSaysWhy'
  <2>1. /\ form'.list = v /\ form'.on = form.on /\ edited' = "list"
        /\ error' = IF "list" \in form.on /\ ~isValidAcceptedMacs(v) THEN "list" ELSE Nothing
    BY <1>1, <1>7 DEF EditList, Warn, Form
  <2>2. ValidEntry("list", Gathered)' <=> ~("list" \in form.on /\ ~isValidAcceptedMacs(v))
    BY <2>1 DEF ValidEntry, isValidAcceptedMacs
  <2> QED BY <2>1, <2>2 DEF EditSaysWhy
<1>8. ASSUME NEW v \in Gateways, EditGateway(v) PROVE EditSaysWhy'
  <2>1. /\ form'.gateway = v /\ form'.on = form.on /\ edited' = "gateway"
        /\ error' = IF "gateway" \in form.on /\ v = "junk" THEN "gateway" ELSE Nothing
    BY <1>1, <1>8 DEF EditGateway, Warn, Form, isValidIPaddress
  <2>2. ValidEntry("gateway", Gathered)' <=> ~("gateway" \in form.on /\ v = "junk")
    BY <2>1 DEF ValidEntry, Gathered, isValidIPaddress
  <2> QED BY <2>1, <2>2 DEF EditSaysWhy
<1>9. ASSUME NEW v \in ChannelTexts, EditChannel(v), freq # "default" PROVE EditSaysWhy'
  <2>1. /\ form'.channel = v /\ form'.on = form.on /\ form'.band = form.band /\ freq' = freq
        /\ edited' = "channel" /\ freq = form.band /\ form.band \in Bands /\ v \in Nat
        /\ error' = IF "channel" \in form.on /\ (v = 0 \/ OutOfRange(v))
                      THEN "channel" ELSE Nothing
    BY <1>1, <1>2, <1>9, ChannelAssumption DEF EditChannel, Warn, Form
  <2>2. /\ Gathered'.freq = form.band
        /\ "channel" \in form.on => Gathered'.channel = v
    BY <2>1 DEF Gathered
  <2>3. ValidEntry("channel", Gathered)' <=>
          ("channel" \in form.on =>
             /\ v # 0
             /\ form.band = "auto" => v \in 1 .. 196
             /\ form.band = "b2"   => v \in 1 .. 11
             /\ form.band = "b5"   => v \in 1 .. 196)
    BY <2>1, <2>2 DEF ValidEntry
  <2>4. ValidEntry("channel", Gathered)' <=> ~("channel" \in form.on /\ (v = 0 \/ OutOfRange(v)))
    BY <2>1, <2>3 DEF OutOfRange
  <2> QED BY <2>1, <2>4 DEF EditSaysWhy
<1>10. ASSUME NEW v \in ChannelTexts, EditChannel(v), freq = "default" PROVE EditSaysWhy'
  BY <1>10 DEF EditSaysWhy, EditChannel
<1>11. ASSUME edited' = Nothing PROVE EditSaysWhy'
  BY <1>11 DEF EditSaysWhy
<1> QED BY <1>4, <1>5, <1>6, <1>7, <1>8, <1>9, <1>10, <1>11
        DEF Edit, EditBand, Toggle, EditFlag

(* What the window says beside an entry is right, for any limits on what   *)
(* is typed and any order of edits, toggles and loads (ui.c:208-379).      *)
THEOREM EditsExplained == FormSpec => []EditSaysWhy
<1>1. FormInit => EditSaysWhy
  BY DEF FormInit, EditSaysWhy
<1>2. TypeInv /\ FollowInv /\ EditSaysWhy /\ [FormNext]_formVars => EditSaysWhy'
  <2> SUFFICES ASSUME TypeInv, FollowInv, EditSaysWhy, [FormNext]_formVars PROVE EditSaysWhy'
    OBVIOUS
  <2>1. CASE edited' = Nothing
    BY <2>1 DEF EditSaysWhy
  <2>2. CASE UNCHANGED <<edited, error, form, freq>>
    BY <2>2 DEF EditSaysWhy, ValidEntry, Gathered
  <2> QED BY <2>1, <2>2, EditExplains DEF FormNext, formVars, init_ui_from_config, Close,
                                          CreateRefused, Create, Start
<1> QED BY <1>1, <1>2, TypesHold, FollowHolds, PTL DEF FormSpec

-----------------------------------------------------------------------------
(* What Create leaves for the instance it starts.                          *)
PendingInv ==
    command =>
      /\ window = "open" /\ freq = form.band
      /\ "mkconfig" \notin denied => file = Configured(Gathered)
      /\ "list" \in form.on /\ loaded /\ "tee" \notin denied => accept = form.list

LEMMA StepPends == PendingInv /\ [FormNext]_formVars => PendingInv'
<1> SUFFICES ASSUME PendingInv, [FormNext]_formVars PROVE PendingInv'
  OBVIOUS
<1>1. CASE UNCHANGED <<command, window, freq, form, denied, file, loaded, accept>>
  BY <1>1 DEF PendingInv, Configured, Gathered
<1>2. CASE Create
  <2>1. UNCHANGED <<window, form, loaded>> /\ window = "open" /\ freq' = form.band
    BY <1>2 DEF Create
  <2>2. "mkconfig" \notin denied' => file' = Configured(Gathered)
    BY <1>2 DEF Create
  <2>3. Configured(Gathered)' = Configured(Gathered)
    BY <2>1 DEF Configured, Gathered
  <2>4. "list" \in form.on /\ loaded /\ "tee" \notin denied' => accept' = form.list
    BY <1>2 DEF Create, Gathered
  <2> QED BY <2>1, <2>2, <2>3, <2>4 DEF PendingInv
<1>3. CASE ~command /\ command' = command
  BY <1>3 DEF PendingInv
<1>4. CASE Start
  BY <1>4 DEF Start, PendingInv
<1>5. CASE init_ui_from_config
  <2>1. window = "closed" /\ command' = command
    BY <1>5 DEF init_ui_from_config
  <2>2. ~command
    BY <2>1 DEF PendingInv
  <2> QED BY <2>1, <2>2 DEF PendingInv
<1>6. CASE Close \/ Edit \/ CreateRefused
  BY <1>6, <1>3 DEF Close, Edit, Editing, CreateRefused
<1> QED BY <1>1, <1>2, <1>4, <1>5, <1>6 DEF FormNext, formVars

LEMMA PendingHolds == FormSpec => []PendingInv
<1>1. FormInit => PendingInv
  BY DEF FormInit, PendingInv
<1> QED BY <1>1, StepPends, PTL DEF FormSpec

(* A hotspot that starts has the settings of the window: none is lost or   *)
(* left over on the way through gathering, the command line, the           *)
(* configuration file and the script's reading of it.                      *)
THEOREM HotspotAsShown == FormSpec => []StartsAsShown
<1>1. FormInit => StartsAsShown
  BY DEF FormInit, StartsAsShown
<1>2. TypeInv /\ PendingInv /\ StartsAsShown /\ [FormNext]_formVars => StartsAsShown'
  <2> SUFFICES ASSUME TypeInv, PendingInv, StartsAsShown, [FormNext]_formVars
               PROVE  StartsAsShown'
    OBVIOUS
  <2>1. CASE ap' = {}
    BY <2>1 DEF StartsAsShown
  <2>2. CASE UNCHANGED formVars
    BY <2>2 DEF StartsAsShown, formVars
  <2>3. CASE Start
    <3>1. command /\ UNCHANGED <<form, denied, loaded>>
      BY <2>3 DEF Start
    <3>2. SUFFICES ASSUME NEW a \in ap', denied = {}
          PROVE /\ a.ssid = Collapsed(form.ssid) /\ a.flags = form.flags
                /\ a.pass = Collapsed(IF "open" \in form.on THEN "empty" ELSE form.pass)
                /\ a.mac = IF "mac" \in form.on THEN form.mac ELSE "empty"
                /\ a.gateway = IF "gateway" \in form.on THEN form.gateway ELSE "standard"
                /\ a.filter = ("list" \in form.on)
                /\ a.filter /\ loaded => a.list = form.list
      BY <3>1 DEF StartsAsShown
    <3>3. PICK link \in Links, two \in BOOLEAN, adapter \in Adapters :
                 a = Started(link, two, adapter)
      BY <2>3 DEF Start
    <3>4. file = Configured(Gathered)
          /\ ("list" \in form.on /\ loaded => accept = form.list)
      BY <3>1, <3>2 DEF PendingInv
    <3>5. /\ a.ssid = file.ssid /\ a.flags = file.flags /\ a.pass = file.pass
          /\ a.mac = file.mac /\ a.gateway = file.gateway /\ a.filter = file.filter
          /\ a.list = accept
      BY <3>3 DEF Started
    <3>6. form.mac # Null /\ form.gateway # Null
      BY DEF TypeInv, ViewOK, Form
    <3>7. /\ file.ssid = Collapsed(form.ssid) /\ file.flags = form.flags
          /\ file.pass = Collapsed(IF "open" \in form.on THEN "empty" ELSE form.pass)
      BY <3>4 DEF Configured, Gathered
    <3>8. file.mac = IF "mac" \in form.on THEN form.mac ELSE "empty"
      BY <3>4, <3>6 DEF Configured, Gathered
    <3>9. file.gateway = IF "gateway" \in form.on THEN form.gateway ELSE "standard"
      BY <3>4, <3>6 DEF Configured, Gathered
    <3>10. file.filter = ("list" \in form.on)
      BY <3>4, Zenon DEF Configured, Gathered
    <3> QED BY <3>4, <3>5, <3>7, <3>8, <3>9, <3>10
  <2> QED BY <2>1, <2>2, <2>3 DEF FormNext, init_ui_from_config, Close, Edit, Editing,
                                  CreateRefused, Create
<1> QED BY <1>1, <1>2, TypesHold, PendingHolds, PTL DEF FormSpec

-----------------------------------------------------------------------------
(* The file that Create makes of form f.                                   *)
FileOf(f) ==
    [kind |-> "whole", ssid |-> Collapsed(f.ssid),
     pass |-> IF "open" \in f.on THEN "empty" ELSE Collapsed(f.pass),
     band |-> IF f.band = "auto" THEN "default" ELSE f.band,
     channel |-> IF "channel" \in f.on THEN f.channel ELSE Default,
     mac |-> IF "mac" \in f.on THEN f.mac ELSE "empty",
     gateway |-> IF "gateway" \in f.on THEN f.gateway ELSE "standard",
     filter |-> "list" \in f.on, flags |-> f.flags]

(* Two forms that agree but for the list of addresses.                     *)
Alike(f, g) ==
    /\ f.ssid = g.ssid /\ f.pass = g.pass /\ f.band = g.band /\ f.channel = g.channel
    /\ f.mac = g.mac /\ f.gateway = g.gateway /\ f.on = g.on /\ f.flags = g.flags

(* No file has blanks in a row, the one there is is that of the last form  *)
(* written, and a form nobody has edited is what a file would bring back.  *)
RoundInv ==
    /\ file.ssid # "spaced" /\ file.pass # "spaced"
    /\ \A f \in written : file = FileOf(f) /\ ("mac" \in f.on => f.mac # "empty")
    /\ window = "open" /\ loaded /\ ~touched =>
         /\ Alike(form, Remembered(form))
         /\ \A f \in written : Alike(form, Remembered(f))

LEMMA GatheredFile == form \in Form => Configured(Gathered) = FileOf(form)
BY DEF Configured, Gathered, FileOf, Collapsed, Form

(* What comes back from the file of a form is what is remembered of it.    *)
LEMMA FileRemembers ==
  ASSUME NEW f \in Form, "mac" \in f.on => f.mac # "empty", file = FileOf(f), NEW l \in Lists
  PROVE  Alike(LoadedForm(l), Remembered(f))
<1>1. f.channel # Default
  BY ChannelAssumption DEF Form
<1>2. /\ LoadedForm(l).ssid = Remembered(f).ssid /\ LoadedForm(l).pass = Remembered(f).pass
      /\ LoadedForm(l).band = Remembered(f).band /\ LoadedForm(l).flags = Remembered(f).flags
  BY DEF LoadedForm, Remembered, FileOf, Collapsed, Form
<1>3. /\ LoadedForm(l).channel = Remembered(f).channel
      /\ LoadedForm(l).mac = Remembered(f).mac /\ LoadedForm(l).gateway = Remembered(f).gateway
  BY <1>1 DEF LoadedForm, Remembered, FileOf, Form
<1>4. f.on \subseteq Toggles
  BY DEF Form
<1>5. LoadedForm(l).on = Remembered(f).on
  <2>1. ASSUME NEW t \in Toggles PROVE t \in LoadedForm(l).on <=> t \in Remembered(f).on
    <3>1. CASE t # "list"
      <4>1. /\ t = "open" => (t \in LoadedForm(l).on <=> file.pass = "empty")
            /\ t = "channel" => (t \in LoadedForm(l).on <=> file.channel # Default)
            /\ t = "mac" => (t \in LoadedForm(l).on <=> file.mac # "empty")
            /\ t = "gateway" => (t \in LoadedForm(l).on <=> file.gateway # "standard")
        BY DEF LoadedForm
      <4>2. /\ file.pass = IF "open" \in f.on THEN "empty" ELSE Collapsed(f.pass)
            /\ file.channel = IF "channel" \in f.on THEN f.channel ELSE Default
            /\ file.mac = IF "mac" \in f.on THEN f.mac ELSE "empty"
            /\ file.gateway = IF "gateway" \in f.on THEN f.gateway ELSE "standard"
        BY DEF FileOf
      <4>3. /\ "open" \in Remembered(f).on <=> "open" \in f.on \/ f.pass = "empty"
            /\ "gateway" \in Remembered(f).on <=> "gateway" \in f.on /\ f.gateway # "standard"
            /\ "channel" \in Remembered(f).on <=> "channel" \in f.on
            /\ "mac" \in Remembered(f).on <=> "mac" \in f.on
        BY DEF Remembered, Form
      <4> QED BY <1>1, <3>1, <4>1, <4>2, <4>3 DEF Collapsed, Toggles
    <3>2. CASE t = "list"
      <4>1. file.filter = ("list" \in f.on)
        BY Zenon DEF FileOf
      <4>2. "list" \in LoadedForm(l).on <=> file.filter
        BY DEF LoadedForm, Toggles
      <4>3. "list" \in Remembered(f).on <=> "list" \in f.on
        BY DEF Remembered, Form
      <4> QED BY <3>2, <4>1, <4>2, <4>3, Zenon
    <3> QED BY <3>1, <3>2
  <2>2. LoadedForm(l).on \subseteq Toggles /\ Remembered(f).on \subseteq Toggles
    BY <1>4 DEF LoadedForm, Remembered, Form
  <2> QED BY <2>1, <2>2
<1> QED BY <1>2, <1>3, <1>5 DEF Alike

(* A form as a file brings it would come back the same.                    *)
LEMMA LoadedIsRemembered ==
  ASSUME file \in File, file.ssid # "spaced", file.pass # "spaced", NEW l \in Lists
  PROVE  Alike(LoadedForm(l), Remembered(LoadedForm(l)))
<1> DEFINE f == LoadedForm(l)
<1>1. 0 \in ChannelTexts /\ Default \notin ChannelTexts
  BY ChannelAssumption
<1>2. f \in Form
  BY LoadedInForm
<1>3. /\ f.ssid # "spaced" /\ f.pass # "spaced"
      /\ "open" \in f.on <=> f.pass = "empty"
      /\ "channel" \notin f.on => f.channel = 0
      /\ "mac" \notin f.on => f.mac = "empty"
      /\ "gateway" \in f.on <=> f.gateway # "standard"
  BY DEF LoadedForm
<1> HIDE DEF f
<1>4. /\ f.ssid = Remembered(f).ssid /\ f.pass = Remembered(f).pass
      /\ f.band = Remembered(f).band /\ f.flags = Remembered(f).flags
      /\ f.channel = Remembered(f).channel
      /\ f.mac = Remembered(f).mac /\ f.gateway = Remembered(f).gateway
  BY <1>2, <1>3 DEF Remembered, Collapsed, Form
<1>5. f.on = Remembered(f).on
  BY <1>2, <1>3 DEF Remembered, Form
<1> QED BY <1>4, <1>5 DEF Alike, f

LEMMA StepRemembers == TypeInv /\ RoundInv /\ [FormNext]_formVars => RoundInv'
<1> SUFFICES ASSUME TypeInv, RoundInv, [FormNext]_formVars PROVE RoundInv'
  OBVIOUS
<1>0. file \in File /\ form \in Form /\ written \in SUBSET Form /\ accept \in Lists
  BY DEF TypeInv, FilesOK, ViewOK
<1>1. CASE UNCHANGED <<file, written, window, loaded, touched, form>>
  BY <1>1 DEF RoundInv
<1>2. CASE init_ui_from_config
  <2>1. file' = file /\ written' = written
    BY <1>2 DEF init_ui_from_config
  <2>2. CASE file.kind # "whole"
    <3>1. loaded' = FALSE \/ window' # "open"
      BY <1>0, <1>2, <2>2 DEF init_ui_from_config, File
    <3> QED BY <2>1, <3>1 DEF RoundInv
  <2>3. CASE file.kind = "whole"
    <3>1. PICK l \in ReadList(accept) : form' = LoadedForm(l)
      BY <1>2, <2>3 DEF init_ui_from_config
    <3>2. l \in Lists
      BY <1>0 DEF ReadList
    <3>3. Alike(form', Remembered(form'))
      BY <1>0, <3>1, <3>2, LoadedIsRemembered DEF RoundInv
    <3>4. \A f \in written : Alike(form', Remembered(f))
      BY <1>0, <3>1, <3>2, FileRemembers DEF RoundInv
    <3>5. Remembered(form)' = Remembered(form')
      BY DEF Remembered
    <3>6. \A f \in written : FileOf(f)' = FileOf(f) /\ Remembered(f)' = Remembered(f)
      BY DEF FileOf, Remembered
    <3> QED BY <2>1, <3>3, <3>4 DEF RoundInv
  <2> QED BY <2>2, <2>3
<1>3. CASE Edit
  <2>1. touched' = TRUE /\ file' = file /\ written' = written
    BY <1>3 DEF Edit, Editing
  <2> QED BY <2>1 DEF RoundInv
<1>4. CASE Close
  BY <1>4 DEF Close, RoundInv
<1>5. CASE Create
  <2>1. UNCHANGED <<window, loaded, form, touched>>
    BY <1>5 DEF Create
  <2>2. CASE file' = file /\ written' = written
    BY <2>1, <2>2 DEF RoundInv
  <2>3. CASE file' = Configured(Gathered) /\ written' = {form}
    <3>1. file' = FileOf(form)
      BY <1>0, <2>3, GatheredFile
    <3>2. file'.ssid # "spaced" /\ file'.pass # "spaced"
      BY <3>1 DEF FileOf, Collapsed
    <3>3. "mac" \in form.on => form.mac # "empty"
      BY <1>5 DEF Create, Validator, ValidEntry, Gathered
    <3> QED BY <2>1, <2>3, <3>1, <3>2, <3>3 DEF RoundInv
  <2> QED BY <1>5, <2>2, <2>3 DEF Create
<1>6. CASE CreateRefused \/ Start
  BY <1>1, <1>6 DEF CreateRefused, Start
<1> QED BY <1>1, <1>2, <1>3, <1>4, <1>5, <1>6 DEF FormNext, formVars

(* The next window shows what was saved last: eleven settings go out as    *)
(* options, become keys and come back as texts and toggles of another      *)
(* shape, over any number of windows, edits and hotspots in between.       *)
THEOREM FormIsRemembered == FormSpec => []RemembersForm
<1>1. FormInit => RoundInv
  BY DEF FormInit, RoundInv, Shipped
<1>2. TypeInv /\ RoundInv => RemembersForm
  <2> SUFFICES ASSUME TypeInv, RoundInv, window = "open", loaded, ~touched, NEW f \in written
               PROVE  [form EXCEPT !.list = "empty"] = [Remembered(f) EXCEPT !.list = "empty"]
    BY DEF RemembersForm
  <2>1. form \in Form /\ f \in Form /\ Alike(form, Remembered(f))
    BY DEF TypeInv, FilesOK, ViewOK, RoundInv
  <2>2. Remembered(f) \in Form
    <3>1. /\ Collapsed(f.ssid) \in Names /\ Collapsed(f.pass) \in Passes
          /\ "empty" \in Passes /\ "empty" \in Macs /\ "standard" \in Gateways
          /\ {"open", "gateway"} \subseteq Toggles /\ 0 \in ChannelTexts
      BY <2>1, ChannelAssumption DEF Form, Collapsed
    <3> DEFINE open == "open" \in f.on \/ f.pass = "empty"
               gate == "gateway" \in f.on /\ f.gateway # "standard"
               ss == Collapsed(f.ssid)
               ps == IF open THEN "empty" ELSE Collapsed(f.pass)
               ch == IF "channel" \in f.on THEN f.channel ELSE 0
               ma == IF "mac" \in f.on THEN f.mac ELSE "empty"
               ga == IF gate THEN f.gateway ELSE "standard"
               on == (f.on \ {"open", "gateway"}) \cup (IF open THEN {"open"} ELSE {})
                                                  \cup (IF gate THEN {"gateway"} ELSE {})
    <3>2. /\ ss \in Names /\ ps \in Passes /\ ch \in ChannelTexts /\ ma \in Macs
          /\ ga \in Gateways /\ on \in SUBSET Toggles
      BY <2>1, <3>1 DEF Form
    <3>3. Remembered(f) = [f EXCEPT !.ssid = ss, !.pass = ps, !.channel = ch, !.mac = ma,
                                    !.gateway = ga, !.on = on]
      BY DEF Remembered
    <3> HIDE DEF ss, ps, ch, ma, ga, on
    <3>4. f = [ssid |-> f.ssid, pass |-> f.pass, band |-> f.band, channel |-> f.channel,
               mac |-> f.mac, gateway |-> f.gateway, list |-> f.list, on |-> f.on,
               flags |-> f.flags]
      BY <2>1 DEF Form
    <3>5. Remembered(f) = [ssid |-> ss, pass |-> ps, band |-> f.band, channel |-> ch, mac |-> ma,
                           gateway |-> ga, list |-> f.list, on |-> on, flags |-> f.flags]
      BY <3>3, <3>4
    <3>6. f.band \in Bands /\ f.list \in Lists /\ f.flags \in SUBSET Flags
      BY <2>1 DEF Form
    <3> QED BY <3>2, <3>5, <3>6 DEF Form
  <2> DEFINE a == [form EXCEPT !.list = "empty"]
             b == [Remembered(f) EXCEPT !.list = "empty"]
  <2>3. a \in Form /\ b \in Form
    <3>1. "empty" \in Lists
      BY DEF Lists
    <3> QED BY <2>1, <2>2, <3>1 DEF Form
  <2>4. a.list = b.list /\ Alike(a, b)
    BY <2>1, <2>2 DEF Form, Alike
  <2> HIDE DEF a, b
  <2>5. a = b
    BY <2>3, <2>4 DEF Form, Alike
  <2> QED BY <2>5 DEF a, b
<1> QED BY <1>1, <1>2, StepRemembers, TypesHold, PTL DEF FormSpec
-----------------------------------------------------------------------------
(* What the script makes of a carrier of 2.4 or 5 GHz is its channel.      *)
LEMMA ConversionIsRight ==
  ASSUME NEW f \in Nat, NEW k \in Nat, <<f, k>> \in Freq!Standard
  PROVE  /\ Freq!ieee80211_frequency_to_channel(f) = k
         /\ Freq!ChannelOf(f) = k
         /\ Freq!is_5ghz_frequency(f) <=> f >= 4900
<1>1. \/ f = 2407 + 5 * k /\ k \in 1 .. 13
      \/ f = 2484 /\ k = 14
      \/ f = 4000 + 5 * k /\ k \in 183 .. 196
      \/ f = 5000 + 5 * k /\ k \in 36 .. 177
  BY DEF Freq!Standard
<1>2. Freq!ieee80211_frequency_to_channel(f) = k
  <2>1. CASE f = 2407 + 5 * k /\ k \in 1 .. 13
    <3>1. f \in 2412 .. 2472
      BY <2>1
    <3>2. Freq!ieee80211_frequency_to_channel(f) = (f - 2407) \div 5
      BY <3>1 DEF Freq!ieee80211_frequency_to_channel
    <3> QED BY <2>1, <3>2
  <2>2. CASE f = 2484 /\ k = 14
    BY <2>2 DEF Freq!ieee80211_frequency_to_channel
  <2>3. CASE f = 4000 + 5 * k /\ k \in 183 .. 196
    <3>1. f \in 4915 .. 4980
      BY <2>3
    <3>2. Freq!ieee80211_frequency_to_channel(f) = (f - 4000) \div 5
      BY <3>1 DEF Freq!ieee80211_frequency_to_channel
    <3> QED BY <2>3, <3>2
  <2>4. CASE f = 5000 + 5 * k /\ k \in 36 .. 177
    <3>1. f \in 5180 .. 5885
      BY <2>4
    <3>2. Freq!ieee80211_frequency_to_channel(f) = (f - 5000) \div 5
      BY <3>1 DEF Freq!ieee80211_frequency_to_channel
    <3> QED BY <2>4, <3>2
  <2> QED BY <1>1, <2>1, <2>2, <2>3, <2>4
<1>3. \A j \in Nat : <<f, j>> \in Freq!Standard \cup Freq!SixGHz \cup Freq!SixtyGHz => j = k
  <2> SUFFICES ASSUME NEW j \in Nat,
                      <<f, j>> \in Freq!Standard \cup Freq!SixGHz \cup Freq!SixtyGHz
               PROVE  j = k
    OBVIOUS
  <2>1. \/ f = 2407 + 5 * j /\ j \in 1 .. 13
        \/ f = 2484 /\ j = 14
        \/ f = 4000 + 5 * j /\ j \in 183 .. 196
        \/ f = 5000 + 5 * j /\ j \in 36 .. 177
        \/ f > 5885 /\ f # 5000 + 5 * k
    BY DEF Freq!Standard, Freq!SixGHz, Freq!SixtyGHz
  <2> QED BY <1>1, <2>1
<1>4. k \in 0 .. 233
  BY <1>1
<1>5. Freq!ChannelOf(f) = k
  BY <1>3, <1>4 DEF Freq!ChannelOf
<1>6. Freq!is_5ghz_frequency(f) <=> f >= 4900
  BY <1>1 DEF Freq!is_5ghz_frequency
<1> QED BY <1>2, <1>5, <1>6

(* The channel that waits to be used has passed the validator.             *)
ChannelInv ==
    command /\ "channel" \in form.on /\ form.band = "b2" => form.channel \in 1 .. 11

(* A hotspot is on the band and channel asked for, or shares the band of   *)
(* the card's link and, unless two channels are taken for possible, its    *)
(* channel, for every set of links of the standard and of adapters         *)
(* (create_ap:1412-1426, 1648-1668, 1704-1716).                            *)
THEOREM HotspotTuned == FormSpec => []ChannelAsAsked
<1>1. FormInit => ChannelInv /\ ChannelAsAsked
  BY DEF FormInit, ChannelInv, ChannelAsAsked
<1>2. PendingInv /\ ChannelInv /\ [FormNext]_formVars => ChannelInv'
  <2> SUFFICES ASSUME PendingInv, ChannelInv, [FormNext]_formVars PROVE ChannelInv'
    OBVIOUS
  <2>1. CASE UNCHANGED <<command, form>>
    BY <2>1 DEF ChannelInv
  <2>2. CASE Create
    <3>1. form' = form /\ Validator(Gathered)
      BY <2>2 DEF Create
    <3>2. ValidEntry("channel", Gathered)
      BY <3>1 DEF Validator
    <3>3. "channel" \in form.on /\ form.band = "b2" => form.channel \in 1 .. 11
      BY <3>2 DEF ValidEntry, Gathered
    <3> QED BY <3>1, <3>3 DEF ChannelInv
  <2>3. CASE ~command'
    BY <2>3 DEF ChannelInv
  <2>4. CASE init_ui_from_config
    BY <2>3, <2>4 DEF init_ui_from_config, PendingInv
  <2> QED BY <2>1, <2>2, <2>3, <2>4 DEF FormNext, formVars, Close, Edit, Editing,
                                        CreateRefused, Start
<1>3. TypeInv /\ PendingInv /\ ChannelInv /\ ChannelAsAsked /\ [FormNext]_formVars
        => ChannelAsAsked'
  <2> SUFFICES ASSUME TypeInv, PendingInv, ChannelInv, ChannelAsAsked, [FormNext]_formVars
               PROVE  ChannelAsAsked'
    OBVIOUS
  <2>1. CASE ap' = {}
    BY <2>1 DEF ChannelAsAsked
  <2>2. CASE UNCHANGED formVars
    BY <2>2 DEF ChannelAsAsked, formVars
  <2>3. CASE Start
    <3>1. command /\ UNCHANGED <<form, denied>>
      BY <2>3 DEF Start
    <3>2. SUFFICES ASSUME NEW a \in ap', "mkconfig" \notin denied
          PROVE /\ form.band # "auto" => a.band = form.band
                /\ form.band # "auto" \/ a.link = 0 \/ a.two =>
                     ("channel" \in form.on => a.channel = form.channel)
                /\ form.band = "auto" /\ a.link # 0 =>
                     /\ ~a.two => a.channel = Freq!ChannelOf(a.link)
                     /\ a.band = IF a.link >= 4900 THEN "b5" ELSE "b2"
      BY <3>1 DEF ChannelAsAsked
    <3>3. PICK link \in Links, two \in BOOLEAN, adapter \in Adapters :
                 a = Started(link, two, adapter)
      BY <2>3 DEF Start
    <3> DEFINE settled == Settled(link, two, adapter)
               tuned   == Tuned(link, two)
    <3>4. a.link = link /\ a.two = two /\ a.band = Mode(settled) /\ a.channel = settled.channel
      BY <3>3 DEF Started
    <3>5. /\ file.band = IF form.band = "auto" THEN "default" ELSE form.band
          /\ file.channel = IF "channel" \in form.on THEN form.channel ELSE Default
          /\ freq = form.band /\ form.band \in Bands
          /\ form.channel \in Nat /\ form.channel # Default
      <4>1. file = Configured(Gathered) /\ freq = form.band
        BY <3>1, <3>2 DEF PendingInv
      <4>2. form.band \in Bands /\ form.channel \in Nat /\ form.channel # Default
        BY ChannelAssumption DEF TypeInv, ViewOK, Form
      <4> QED BY <4>1, <4>2 DEF Configured, Gathered
    <3>6. BandOption = file.band
      BY <3>5 DEF BandOption
    <3> DEFINE chan == IF file.channel # Default THEN file.channel
                       ELSE IF file.band = "b2" THEN 1 ELSE 36
    <3>7. chan \in Nat /\ ("channel" \in form.on => chan = form.channel)
      BY <3>5
    <3>8. CASE form.band # "auto"
      <4>1. form.band = "b2" => ~(chan > 14)
        BY <3>1, <3>5, <3>8 DEF ChannelInv
      <4>2. tuned = [band |-> form.band, channel |-> chan]
        BY <3>5, <3>6, <3>8, <4>1 DEF Tuned
      <4>3. settled = tuned
        BY <3>5, <3>6, <3>8 DEF Settled
      <4> QED BY <3>4, <3>5, <3>7, <3>8, <4>2, <4>3 DEF Mode
    <3>9. CASE form.band = "auto" /\ link = 0
      <4>1. tuned.channel = chan
        BY <3>5, <3>6, <3>9 DEF Tuned
      <4>2. settled = tuned
        BY <3>9 DEF Settled
      <4> QED BY <3>4, <3>7, <3>9, <4>1, <4>2
    <3>10. CASE form.band = "auto" /\ link # 0
      <4>1. PICK c \in Freq!Standard : link = c[1]
        BY <3>10, LinksAssumption
      <4>2. c = <<link, c[2]>> /\ link \in Nat /\ c[2] \in Nat
        BY <4>1 DEF Freq!Standard
      <4>3. /\ Freq!ieee80211_frequency_to_channel(link) = Freq!ChannelOf(link)
            /\ Freq!is_5ghz_frequency(link) <=> link >= 4900
        BY <4>1, <4>2, ConversionIsRight
      <4> DEFINE side  == IF Freq!is_5ghz_frequency(link) THEN "b5" ELSE "b2"
                 there == Freq!ieee80211_frequency_to_channel(link)
      <4>4. tuned = [band |-> side, channel |-> IF two THEN chan ELSE there]
        BY <3>5, <3>6, <3>10 DEF Tuned
      <4>5. \/ settled = tuned
            \/ file.channel = Default /\ settled = [band |-> side, channel |-> there]
        BY <4>4 DEF Settled
      <4>6. settled.band = side /\ (~two => settled.channel = there)
            /\ (two /\ "channel" \in form.on => settled.channel = form.channel)
        BY <3>5, <3>7, <4>4, <4>5
      <4> QED BY <3>4, <3>10, <4>3, <4>6 DEF Mode
    <3> QED BY <3>8, <3>9, <3>10, <3>4
  <2> QED BY <2>1, <2>2, <2>3 DEF FormNext, init_ui_from_config, Close, Edit, Editing,
                                  CreateRefused, Create
<1> QED BY <1>1, <1>2, <1>3, TypesHold, PendingHolds, PTL DEF FormSpec
=============================================================================
