----------------------------- MODULE ClientList -----------------------------
(***************************************************************************)
(* The clients of a hotspot on their way to the window: create_ap prints a *)
(* line for each (list_clients, print_client), get_connected_devices       *)
(* (h_prop.c) cuts a line into its columns where it stands, and            *)
(* set_connected_devices_label (ui.c) fills the grid.                      *)
(*                                                                         *)
(* With no client there is a sentence instead, which is read like a line.  *)
(*                                                                         *)
(* A character is "letter", "blank" or "end" (NUL); a string is the        *)
(* stretch of the line from its first character to the NUL behind it.      *)
(***************************************************************************)
EXTENDS Integers, Sequences

CONSTANTS
    IpLengths,     \* lengths of an address, or 1 for "*"
    HostLengths,   \* lengths of a name; no name has "MAC" in it, such lines are skipped
    MaxClients     \* bound: clients of the hotspot; the window prints a number into two bytes

ASSUME LengthsAssumption == IpLengths \subseteq 1 .. 15 /\ HostLengths \subseteq Nat \ {0}
ASSUME ClientsAssumption == MaxClients \in 0 .. 9

VARIABLES
    clients,    \* the stations, as lengths of their address and name
    reader,     \* where get_connected_devices is
    line,       \* its buffer
    lineSize,   \* strlen of the line when it was read
    pos,        \* its i
    marker, n,  \* the columns found
    devices,    \* the list it makes
    grid        \* the rows the window shows

clientVars == <<clients, reader, line, lineSize, pos, marker, n, devices, grid>>

Client == [ip : IpLengths, host : HostLengths]

MacLength == 17
IpColumn  == 21                  \* "%-20s " before it
HostColumn == 40                 \* "%-20s %-18s " before it

(* What print_client prints, with the newline.                             *)
Printed(c) ==
    [k \in 0 .. HostColumn + c.host + 1 |->
       IF k > HostColumn + c.host THEN "end"
       ELSE IF k \in 0 .. MacLength - 1 \cup IpColumn .. IpColumn + c.ip - 1
                       \cup HostColumn .. HostColumn + c.host THEN "letter"
       ELSE "blank"]

(* "No clients connected"                                                  *)
Sentence ==
    [k \in 0 .. 21 |-> IF k > 20 THEN "end" ELSE IF k \in {2, 10} THEN "blank" ELSE "letter"]

(* The lines behind the heading, each with the place of its NUL.           *)
Lines == IF clients = << >> THEN <<[text |-> Sentence, size |-> 21]>>
         ELSE [k \in 1 .. Len(clients) |->
                 [text |-> Printed(clients[k]), size |-> HostColumn + clients[k].host + 1]]

(* The string at a place: where it starts and how long it is.              *)
StringAt(k) ==
    [from |-> k,
     length |-> (CHOOSE e \in k .. lineSize :
                   line[e] = "end" /\ \A j \in k .. e - 1 : line[j] # "end") - k]

NoMarks == [k \in 1 .. 2 |-> 0]

-----------------------------------------------------------------------------
ClientInit ==
    /\ clients = << >> /\ reader = "idle"
    /\ line = [k \in 0 .. 0 |-> "end"] /\ lineSize = 0 /\ pos = 0
    /\ marker = NoMarks /\ n = 0
    /\ devices = << >> /\ grid = {}

(* Refresh is clicked: the command prints its heading and a line for each  *)
(* client, the heading being skipped because it holds "MAC", or the        *)
(* sentence alone.                                                         *)
ListClients ==
    /\ reader = "idle"
    /\ \E k \in 0 .. MaxClients : clients' \in [1 .. k -> Client]
    /\ reader' = "fgets"
    /\ UNCHANGED <<line, lineSize, pos, marker, n, devices, grid>>

(* The instance has ended or the command is refused, and nothing is        *)
(* printed: Next of the head, which only add_device_node sets, is read all *)
(* the same.                                                               *)
NothingPrinted ==
    /\ reader = "idle" /\ reader' = "undefined"
    /\ UNCHANGED <<clients, line, lineSize, pos, marker, n, devices, grid>>

(* A line is read and its newline overwritten.                             *)
ReadLine ==
    /\ reader = "fgets"
    /\ Len(devices) < Len(Lines)
    /\ LET next == Lines[Len(devices) + 1] IN
         /\ lineSize' = next.size
         /\ line' = [next.text EXCEPT ![next.size - 1] = "end"]
    /\ marker' = NoMarks /\ n' = 0
    /\ pos' = 0 /\ reader' = "scan"
    /\ UNCHANGED <<clients, devices, grid>>

(* A mutant: the marker is counted after it is set.                        *)
NoteColumnAfter(k) == n' = n + 1 /\ marker' = [marker EXCEPT ![n] = k]

NoteColumn(k) == n' = n + 1 /\ marker' = [marker EXCEPT ![n + 1] = k]

(* A turn of the loop: the end of a column is cut off, and then, maybe one *)
(* place on, the head of the next is noted.                                *)
Scan ==
    /\ reader = "scan" /\ pos < lineSize
    /\ LET ends == line[pos] # "blank" /\ line[pos + 1] = "blank"
           cut  == IF ends THEN [line EXCEPT ![pos + 1] = "end"] ELSE line
           here == IF ends THEN pos + 1 ELSE pos
           head == cut[here] = "blank" /\ cut[here + 1] # "blank"
       IN /\ line' = IF head THEN [cut EXCEPT ![here] = "end"] ELSE cut
          /\ IF head THEN NoteColumn(here + 1) ELSE UNCHANGED <<n, marker>>
          /\ pos' = here + 1
    /\ UNCHANGED <<clients, reader, lineSize, devices, grid>>

(* The three strings are copied into a node at the end of the list.        *)
add_device_node ==
    /\ reader = "scan" /\ pos >= lineSize
    /\ devices' = Append(devices, [Number |-> Len(devices) + 1, MAC |-> StringAt(0),
                                   IP |-> StringAt(marker[1]),
                                   HOSTNAME |-> StringAt(marker[2])])
    /\ reader' = "fgets"
    /\ UNCHANGED <<clients, line, lineSize, pos, marker, n, grid>>

(* The grid is emptied and gets a row for each node behind the head.       *)
FillGrid ==
    /\ reader = "fgets"
    /\ Len(devices) = Len(Lines)
    /\ grid' = {devices[k] : k \in 1 .. Len(devices)}
    /\ devices' = << >> /\ reader' = "shown"
    /\ UNCHANGED <<clients, line, lineSize, pos, marker, n>>

ClientNext == ListClients \/ NothingPrinted \/ ReadLine \/ Scan \/ add_device_node \/ FillGrid

ClientSpec == ClientInit /\ [][ClientNext]_clientVars

-----------------------------------------------------------------------------
ClientTypeOK ==
    /\ clients \in Seq(Client)
    /\ reader \in {"idle", "fgets", "scan", "shown", "undefined"}
    /\ DOMAIN line = 0 .. lineSize
    /\ pos \in 0 .. lineSize
    /\ n \in 0 .. 2 /\ marker \in [1 .. 2 -> 0 .. lineSize]

(* The first word of the sentence.                                         *)
No == [from |-> 0, length |-> 2]

(* Every client has its row, with its own address and name whole and in    *)
(* their columns: the cuts are made in the line while it is read, and the  *)
(* columns found are kept as places of the buffer the next line goes to.   *)
(* With no client the sentence that says so is shown as one, all of whose  *)
(* columns say "No", since a single blank starts no column (h_prop.c:      *)
(* 472-524, ui.c:1012-1037, create_ap:910-924, 949-963).                   *)
RowsShowClients ==
    reader = "shown" =>
      grid = IF clients = << >>
             THEN {[Number |-> 1, MAC |-> No, IP |-> No, HOSTNAME |-> No]}
             ELSE {[Number |-> k,
                    MAC |-> [from |-> 0, length |-> MacLength],
                    IP |-> [from |-> IpColumn, length |-> clients[k].ip],
                    HOSTNAME |-> [from |-> HostColumn, length |-> clients[k].host]]
                   : k \in 1 .. Len(clients)}
=============================================================================
