----------------------------- MODULE MacAddress -----------------------------
(***************************************************************************)
(* Two readers of one address: isValidMacAddress (util.c), which the       *)
(* window asks before it saves a setting, and is_macaddr (create_ap),      *)
(* which decides whether the hotspot starts with it.  Both read the text a *)
(* character at a time; of a character they tell apart only its class.     *)
(***************************************************************************)
EXTENDS Integers

CONSTANT MaxLen       \* bound: characters of the text

ASSUME MaxLenAssumption == MaxLen \in Nat

VARIABLES
    len,      \* characters read
    i, s,     \* the digits and separators isValidMacAddress has counted
    broken,   \* its loop has been left early
    place     \* how far the pattern of is_macaddr matches, -1 when it does not

macVars == <<len, i, s, broken, place>>

CharClass == {"hex", "colon", "dash", "other"}

MacInit == len = 0 /\ i = 0 /\ s = 0 /\ broken = FALSE /\ place = 0

(* C divides towards zero.                                                 *)
Pairs == IF i = 0 THEN 0 ELSE i \div 2

(* A mutant: a separator is compared with the digits after it.             *)
CountSeparatorLate ==
    IF i = 0 \/ Pairs # s THEN broken' = TRUE /\ UNCHANGED <<i, s>>
    ELSE s' = s + 1 /\ UNCHANGED <<i, broken>>

CountSeparator ==
    IF i = 0 \/ Pairs - 1 # s THEN broken' = TRUE /\ UNCHANGED <<i, s>>
    ELSE s' = s + 1 /\ UNCHANGED <<i, broken>>

(* One turn of the loop, unless it was left.                               *)
Count(c) ==
    CASE broken              -> UNCHANGED <<i, s, broken>>
      [] ~broken /\ c = "hex"  -> i' = i + 1 /\ UNCHANGED <<s, broken>>
      [] ~broken /\ c \in {"colon", "dash"} -> CountSeparator
      [] ~broken /\ c = "other" -> s' = -1 /\ UNCHANGED <<i, broken>>

(* ([0-9a-fA-F]{2}:){5}[0-9a-fA-F]{2}, anchored at both ends.              *)
Match(c) ==
    place' = IF place \in 0 .. 16 /\ c = (IF place % 3 = 2 THEN "colon" ELSE "hex")
               THEN place + 1 ELSE -1

ReadChar ==
    /\ len < MaxLen
    /\ len' = len + 1
    /\ \E c \in CharClass : Count(c) /\ Match(c)

MacSpec == MacInit /\ [][ReadChar]_macVars

-----------------------------------------------------------------------------
(* What each answers when the text ends here.                              *)
isValidMacAddress == i = 12 /\ (s = 5 \/ s = 0)
is_macaddr == place = 17

MacTypeOK ==
    /\ len \in 0 .. MaxLen /\ i \in 0 .. MaxLen /\ s \in -1 .. MaxLen
    /\ broken \in BOOLEAN /\ place \in -1 .. 17

(* The window never refuses an address that create_ap would take: the two  *)
(* counters of util.c:71-95 follow the pattern of create_ap:386-388.  The  *)
(* converse does not hold: twelve digits in a row, dashes, or separators   *)
(* in the wrong places pass the window and are refused at the start.       *)
MacAccepted == is_macaddr => isValidMacAddress
=============================================================================
