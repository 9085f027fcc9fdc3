---------------------------- MODULE MCZoneIndex ----------------------------
(* Model values for ZoneIndex: the zone "z.", labels "a", "b", "*" and the *)
(* two-character label "ab", whose reversal "ba" is a different key.       *)
EXTENDS ZoneIndex

MCLabels == {<<"a">>, <<"b">>, <<"*">>, <<"a", "b">>}
MCQueryLabels == MCLabels
MCZoneName == <<"z", ".">>
=============================================================================
