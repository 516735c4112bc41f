----------------------------- MODULE MCCreateAp -----------------------------
(* Small machines for CreateAp.                                            *)
EXTENDS CreateAp, TLC

CONSTANTS p1, p2, eth0

(* Two processes share the same uplink with nat.                           *)
OneUplink == [p \in Process |-> eth0]
AllNat == [p \in Process |-> "nat"]

(* One shares with nat, the other bridges.                                 *)
NatAndBridge == p1 :> "nat" @@ p2 :> "bridge"

=============================================================================
