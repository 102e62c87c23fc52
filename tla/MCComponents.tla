---------------------------- MODULE MCComponents ----------------------------
(***************************************************************************)
(* Small instances, for TLC, of the parts side by side in Components.      *)
(***************************************************************************)
EXTENDS Components

CONSTANTS shadows, unknown

-----------------------------------------------------------------------------
(* ConfigValues: the capacities 256 and 65536 are scaled to 8 and 16; the  *)
(* game has a value of its own for one key.                                *)

TwoKeys == {shadows, unknown}
OneStock == [n \in TwoKeys |-> IF n = shadows THEN 1 ELSE None]
ShortLengths == {2, 6}
AllLengths == {2, 20}

(* LegacyIni: files of up to four lines. *)

Header(prefix, name) == [kind |-> "header", prefix |-> prefix, name |-> name]
Pair(name, value) == [kind |-> "pair", key |-> name, value |-> value]

IniLines ==
    {[kind |-> "marker"], [kind |-> "other"],
     Header("plain", "Fog"), Header("optimization", "Textures"), Header("config", "Fog"),
     Header("qol", "ToggleKey"),
     Pair("Value", <<"">>), Pair("Value", <<"7", "0.5", "">>), Pair("Value", <<"7px">>), Pair("Value", <<"0.5">>),
     Pair("Min", <<"0.5">>), Pair("Enabled", <<"true">>), Pair("Size", <<"7", "Night">>)}

(* CodeScan: images of six bytes, code and behind it padding, or not. *)

Bytes == {"8B", "FF", "C1"}
SixByteImages == {m \in [0..5 -> Bytes \cup {"00"}] : \A a \in 0..4 : m[a] = "00" => m[a + 1] = "00"}

TwoFixes ==
    <<[pattern |-> <<{"C1"}, Bytes, {"FF"}>>, offset |-> 1, expect |-> <<"C1">>, replace |-> <<"E8">>],
      [pattern |-> <<{"FF"}, {"C1"}>>, offset |-> 1, expect |-> <<"C1">>, replace |-> <<"E9">>]>>
OneSite ==
    [addresses |-> [v \in {"1.67"} |-> 2], pattern |-> <<{"8B", "C1"}, {"8B"}>>, offset |-> 1, expect |-> <<"8B">>]
SleepCode == <<{"8B"}, {"FF"}>>
TwoVersions == {"1.67", "unknown"}
ThreeRates == {-1, 500, 2000}

(* PixelFilters: textures of two by two pixels. *)

FivePixels == {1, 65534, 33024, 639, 65317}
SixStrengths == {0, 51, 256, 300, 512, 1000}

(* AdaptiveWait: two threads, a budget between 50 and 60, intervals of two calls. *)

Asks(hook, handle, time, alertable) ==
    [hook |-> hook, handle |-> handle, time |-> time, alertable |-> alertable]

FourCalls ==
    {Asks("wait", "event", "endless", FALSE), Asks("waitEx", "event", "endless", TRUE),
     Asks("waitEx", "thread", "none", FALSE), Asks("waitEx", "null", "some", FALSE)}
TwoThreads == {1, 2}
FourHandles == {"event", "thread", "process", "null"}

(* LightingHooks: patterns of three and four samples. *)

Light(multiplier, walls, cap, soft, diagonal, wallBlur, edge, samples, adapts, blurs) ==
    [multiplier |-> multiplier, walls |-> walls, cap |-> cap, soft |-> soft, diagonal |-> diagonal,
     wallBlur |-> wallBlur, edge |-> edge, samples |-> samples, adaptive |-> adapts, blur |-> blurs]
Plain == Light(1, 1, FALSE, FALSE, FALSE, 0, "own", 0, FALSE, FALSE)

ThreeLights ==
    {Plain, Light(2, 4, FALSE, TRUE, FALSE, 2, "own", 4, TRUE, FALSE),
     Light(4, 4, TRUE, FALSE, TRUE, 0, "ours", 3, FALSE, TRUE)}
OneThread == {1}
ThreeColours == {0, 1, 5}

(* CpuAffinity: three processors, two of them fast. *)

ThreeCores == 0..2
TwoFastCores == <<0, 2>>
ThreeMasks == {ThreeCores, {1, 2}, {1}}

(* MemoryWarning: thresholds of 2.0 and 2.2 GB. *)

FourLevels == {17, 18, 20, 22}
TwoThresholds == {20, 22}

(* FrameLimiter: periods of one and two units, a second of two. *)

Tuned(once, cycle, frame, inactive) ==
    [tickOnce |-> once, cycle |-> cycle, frame |-> frame, inactive |-> inactive]
ThreeTunings == {Tuned(TRUE, 1, 0, 0), Tuned(FALSE, 2, 0, 0), Tuned(TRUE, 0, 1, 2)}
TwoFrequencies == {1, 2}

=============================================================================
