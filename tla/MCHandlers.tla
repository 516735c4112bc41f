----------------------------- MODULE MCHandlers -----------------------------
(* Small instances of what single handlers of wihotspot compute.  The main *)
(* loop runs one handler to its end before the next, and these share no    *)
(* state, so each is looked at by itself: handler says which.              *)
EXTENDS ConfigForm, QrPng, MacAddress, ClientList, Channels, TLC

VARIABLE handler

vars == <<handler, formVars, qrVars, macVars, clientVars, channelVars>>

OneBand  == {<<"b2", k>> : k \in 1 .. 13}
TwoBands == OneBand \cup {<<"b5", k>> : k \in {36, 40, 100, 165}}
OneOrTwoBands == {OneBand, TwoBands}

Init == /\ handler \in {"form", "qr", "mac", "clients", "channel"}
        /\ FormInit /\ (handler # "form" => file = Shipped /\ accept = "empty")
        /\ QrInit /\ MacInit /\ ClientInit /\ ChannelInit

Next ==
    \/ /\ handler = "form" /\ FormNext
       /\ UNCHANGED <<handler, qrVars, macVars, clientVars, channelVars>>
    \/ /\ handler = "qr" /\ QrNext
       /\ UNCHANGED <<handler, formVars, macVars, clientVars, channelVars>>
    \/ /\ handler = "mac" /\ ReadChar
       /\ UNCHANGED <<handler, formVars, qrVars, clientVars, channelVars>>
    \/ /\ handler = "clients" /\ ClientNext
       /\ UNCHANGED <<handler, formVars, qrVars, macVars, channelVars>>
    \/ /\ handler = "channel" /\ AskChannel
       /\ UNCHANGED <<handler, formVars, qrVars, macVars, clientVars>>

Spec == Init /\ [][Next]_vars

(* Every variable has its type; among the bounds are those of the row      *)
(* buffer's bit, of the module array and of the three markers.             *)
TypesOK == FormTypeOK /\ QrTypeOK /\ MacTypeOK /\ ClientTypeOK
=============================================================================
