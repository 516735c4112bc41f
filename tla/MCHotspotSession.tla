-------------------------- MODULE MCHotspotSession --------------------------
(* Small instances of HotspotSession.                                      *)
EXTENDS HotspotSession, TLC

CONSTANTS p1, p2, home, away

(* The file names one network and leaves the band open.                    *)
HomeAnyBand == [ssid |-> home, band |-> AnyBand]

=============================================================================
