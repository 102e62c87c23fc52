---------------------------- MODULE MCLotStreaming ----------------------------
(***************************************************************************)
(* Small instances of LotStreaming for TLC.                                *)
(***************************************************************************)
EXTENDS LotStreaming

CONSTANTS north, south

TwoLots == {north, south}
LongAndShort ==
    [l \in TwoLots |->
        IF l = north THEN {<<"regular", "large", "regular">>, <<"regular", "regular", "large">>}
                     ELSE {<<"regular", "regular">>}]
OneOrTwo == {0, 2}

=============================================================================
