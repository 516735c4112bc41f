------------------------------ MODULE Channels ------------------------------
(***************************************************************************)
(* How create_ap turns the frequency of the card's link into a channel     *)
(* and a band (ieee80211_frequency_to_channel, is_5ghz_frequency), beside  *)
(* the channel numbers of the standard.                                    *)
(***************************************************************************)
EXTENDS Integers

VARIABLES
    carrier,    \* the frequency asked about, in MHz; 0 before the question
    answer      \* the channel, and whether the band is the 5 GHz one

channelVars == <<carrier, answer>>

(* A mutant: the 4.9 GHz channels end one carrier too early.               *)
frequency_to_channel_4980(freq) ==
    IF freq < 1000 THEN 0
    ELSE IF freq = 2484 THEN 14
    ELSE IF freq = 5935 THEN 2
    ELSE IF freq < 2484 THEN (freq - 2407) \div 5
    ELSE IF freq >= 4910 /\ freq < 4980 THEN (freq - 4000) \div 5
    ELSE IF freq < 5950 THEN (freq - 5000) \div 5
    ELSE IF freq =< 45000 THEN (freq - 5950) \div 5
    ELSE IF freq >= 58320 /\ freq =< 70200 THEN (freq - 56160) \div 2160
    ELSE 0

(* The tests come in this order, and divisions drop the remainder.         *)
ieee80211_frequency_to_channel(freq) ==
    CASE freq < 1000                       -> 0
      [] freq = 2484                       -> 14
      [] freq = 5935                       -> 2
      [] freq >= 1000 /\ freq < 2484       -> (freq - 2407) \div 5
      [] freq >= 4910 /\ freq =< 4980      -> (freq - 4000) \div 5
      [] /\ freq > 2484 /\ freq < 5950 /\ freq # 5935
         /\ freq < 4910 \/ freq > 4980     -> (freq - 5000) \div 5
      [] freq >= 5950 /\ freq =< 45000     -> (freq - 5950) \div 5
      [] freq >= 58320 /\ freq =< 70200    -> (freq - 56160) \div 2160
      [] OTHER                             -> 0

is_5ghz_frequency(freq) == freq \in 4900 .. 5999

-----------------------------------------------------------------------------
(* The carriers of each band and their channels, as IEEE 802.11 numbers    *)
(* them.                                                                   *)
Standard ==
      {<<2407 + 5 * k, k>> : k \in 1 .. 13} \cup {<<2484, 14>>}
 \cup {<<4000 + 5 * k, k>> : k \in 183 .. 196}
 \cup {<<5000 + 5 * k, k>> : k \in {36, 40, 44, 48, 52, 56, 60, 64, 100, 104, 108, 112, 116,
                                    120, 124, 128, 132, 136, 140, 144, 149, 153, 157, 161,
                                    165, 169, 173, 177}}
SixGHz    == {<<5950 + 5 * k, k>> : k \in {1 + 4 * n : n \in 0 .. 58}} \cup {<<5935, 2>>}
SixtyGHz  == {<<56160 + 2160 * k, k>> : k \in 1 .. 6}
Carriers  == {c[1] : c \in Standard \cup SixGHz \cup SixtyGHz}

ChannelOf(freq) == CHOOSE k \in 0 .. 233 : <<freq, k>> \in Standard \cup SixGHz \cup SixtyGHz

ChannelInit == carrier = 0 /\ answer = [channel |-> 0, five |-> FALSE]

(* The script is asked once, about any carrier.                            *)
AskChannel ==
    /\ carrier = 0
    /\ carrier' \in Carriers
    /\ answer' = [channel |-> ieee80211_frequency_to_channel(carrier'),
                  five |-> is_5ghz_frequency(carrier')]

ChannelSpec == ChannelInit /\ [][AskChannel]_channelVars

(* A link's frequency gives the channel of the standard in every band, and *)
(* in the bands hostapd is configured for also the right side of the       *)
(* 2.4 GHz / 5 GHz choice (create_ap:348-375, 1649-1656).                  *)
ChannelsRight ==
    carrier # 0 =>
      /\ answer.channel = ChannelOf(carrier)
      /\ carrier \in {c[1] : c \in Standard} => answer.five = (carrier >= 4900)
=============================================================================
