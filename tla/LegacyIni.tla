------------------------------ MODULE LegacyIni ------------------------------
(***************************************************************************)
(* The migration's reading of the old INI file, line by line (ParseOldINI), *)
(* and the TOML table it builds from what it read (BuildToml).             *)
(*                                                                         *)
(* A value is the sequence of its comma separated tokens; the empty value  *)
(* is <<"">>.  Trimming and the characters inside a token are abstracted.  *)
(***************************************************************************)
EXTENDS Sequences, FiniteSetsExt, Functions

CONSTANTS
    Lines,   \* the lines a file may be made of
    MaxLines \* bound: the length of a file

Empty == <<"">>

\* What std::stod and std::stoll make of a token: they stop where the number ends.
StoD == [t \in {"7", "7px", "0.5"} |-> IF t = "0.5" THEN t ELSE "7"]
StoLL == [t \in DOMAIN StoD |-> IF t = "0.5" THEN "0" ELSE "7"]
IntegerTokens == {"7"}
RealTokens == {"0.5"}

VARIABLES
    file,        \* the lines read so far
    section,     \* currentSection, its name and the fields seen in it
    inPatchArea,
    outSettings, outConfigs, outQoL, outPatches,
    built, tomlTable \* what BuildToml returned, once it has

vars == <<file, section, inPatchArea, outSettings, outConfigs, outQoL, outPatches, built, tomlTable>>

NoSection == [kind |-> "none", name |-> "", fields |-> <<>>]
NoTable == [part \in {"settings", "config", "qol", "patches"} |-> <<>>]
QoLNames == {"ToggleKey", "DisableHooks", "Enabled", "Threshold", "WarningStyle", "Mode"}
Bounds == {"Min", "Max", "Step"}

Init ==
    /\ file = <<>>
    /\ section = NoSection
    /\ inPatchArea = FALSE
    /\ outSettings = <<>> /\ outConfigs = <<>> /\ outPatches = <<>>
    /\ outQoL = [x \in QoLNames |-> Empty]
    /\ built = FALSE /\ tomlTable = NoTable

-----------------------------------------------------------------------------
(* The parser. *)

\* fields is the sequence of <<key, value>> pairs of the section; the members of
\* the structs are the last of their key.
Field(pairs, key) ==
    LET S == {i \in DOMAIN pairs : pairs[i][1] = key}
    IN IF S = {} THEN Empty ELSE pairs[Max(S)][2]

\* flushSection: a section without a name or a value is dropped, a patch only
\* needs a name.
FlushSettings ==
    IF section.kind = "setting" /\ Field(section.fields, "Value") # Empty
    THEN Append(outSettings, section) ELSE outSettings
FlushConfigs ==
    IF section.kind = "config" /\ Field(section.fields, "Value") # Empty
    THEN Append(outConfigs, section) ELSE outConfigs
FlushPatches ==
    IF section.kind = "patch" THEN Append(outPatches, section) ELSE outPatches

FlushSection ==
    /\ outSettings' = FlushSettings
    /\ outConfigs' = FlushConfigs
    /\ outPatches' = FlushPatches

\* Which struct a header opens; only patches are recognised by their prefix, and
\* only behind the marker.
HeaderKind(prefix) ==
    IF prefix \in {"qol", "config"} THEN prefix
    ELSE IF ~inPatchArea THEN "setting"
    ELSE IF prefix = "optimization" THEN "patch" ELSE "none"

GetLine(line) ==
    /\ ~built
    /\ Len(file) < MaxLines
    /\ file' = Append(file, line)
    /\ UNCHANGED <<built, tomlTable>>

ReadMarker(line) ==
    /\ GetLine(line) /\ line.kind = "marker"
    /\ FlushSection
    /\ section' = NoSection
    /\ inPatchArea' = TRUE
    /\ UNCHANGED outQoL

\* Comments, empty lines, lines that are neither a header nor a pair.
ReadOther(line) ==
    /\ GetLine(line) /\ line.kind = "other"
    /\ UNCHANGED <<section, inPatchArea, outSettings, outConfigs, outQoL, outPatches>>

\* Mutant of ReadHeader: the section before it is not flushed.
ReadHeaderForgetful(line) ==
    /\ GetLine(line) /\ line.kind = "header"
    /\ section' = [kind |-> HeaderKind(line.prefix), name |-> line.name, fields |-> <<>>]
    /\ UNCHANGED <<inPatchArea, outSettings, outConfigs, outQoL, outPatches>>

ReadHeader(line) ==
    /\ GetLine(line) /\ line.kind = "header"
    /\ FlushSection
    /\ section' = [kind |-> HeaderKind(line.prefix), name |-> line.name, fields |-> <<>>]
    /\ UNCHANGED <<inPatchArea, outQoL>>

\* A pair of a [Config:QoL:...] section goes straight to its field.
ReadPair(line) ==
    /\ GetLine(line) /\ line.kind = "pair"
    /\ section' = IF section.kind \in {"none", "qol"} THEN section
                  ELSE [section EXCEPT !.fields = Append(@, <<line.key, line.value>>)]
    /\ outQoL' = IF section.kind = "qol" /\ line.key = "Value" /\ section.name \in QoLNames
                 THEN [outQoL EXCEPT ![section.name] = line.value] ELSE outQoL
    /\ UNCHANGED <<inPatchArea, outSettings, outConfigs, outPatches>>

-----------------------------------------------------------------------------
(* The builder. *)

\* std::getline drops the empty token behind a trailing comma.
Tokens(value) ==
    IF value[Len(value)] = "" THEN SubSeq(value, 1, Len(value) - 1) ELSE value

IsNumber(token) == token \in DOMAIN StoD

\* InsertSmartValue: the type a value is given.
Smart(value) ==
    IF value \in {<<"true">>, <<"false">>} THEN <<"boolean", value[1]>>
    ELSE IF Len(value) > 1
         THEN IF \A i \in DOMAIN Tokens(value) : IsNumber(Tokens(value)[i])
              THEN <<"array", [i \in DOMAIN Tokens(value) |-> StoD[Tokens(value)[i]]]>>
              ELSE <<"string", value>>
    ELSE IF value[1] \in IntegerTokens THEN <<"integer", value[1]>>
    ELSE IF value[1] \in RealTokens THEN <<"real", value[1]>>
    ELSE <<"string", value>>

\* A number alone; the rest of the first token, and of the value, is ignored.
Number(value) == <<"real", StoD[value[1]]>>
Whole(value) == <<"integer", StoLL[value[1]]>>
Flag(value) == <<"boolean", IF value = <<"true">> THEN "true" ELSE "false">>
Text(value) == <<"string", value>>

\* toml::table::insert leaves an existing key alone: the first of a name counts.
InsertAll(out, Entry(_)) ==
    LET First(name) == Min({i \in DOMAIN out : out[i].name = name})
    IN [name \in {out[i].name : i \in DOMAIN out} |-> Entry(out[First(name)].fields)]

SettingEntry(pairs) ==
    LET keys == {"Value"} \cup {k \in {"Category"} : Field(pairs, k) # Empty}
                    \cup {k \in Bounds : IsNumber(Field(pairs, k)[1])}
    IN [key \in keys |-> CASE key = "Value" -> Smart(Field(pairs, key))
                           [] key = "Category" -> Text(Field(pairs, key))
                           [] OTHER -> Number(Field(pairs, key))]

ConfigEntry(pairs) == Text(Field(pairs, "Value"))

\* The settings of a patch are inserted one by one: there too the first counts.
Reserved == {"Enabled", "Value", "Category"} \cup Bounds
PatchSettings(pairs) == {i \in DOMAIN pairs : pairs[i][1] \notin Reserved}

PatchEntry(pairs) ==
    LET keys == {pairs[i][1] : i \in PatchSettings(pairs)}
        First(key) == Min({i \in PatchSettings(pairs) : pairs[i][1] = key})
        flag == {k \in {"Enabled"} : Field(pairs, k) # Empty}
    IN [key \in keys \cup flag |-> IF key = "Enabled" THEN Flag(Field(pairs, key))
                                  ELSE Smart(pairs[First(key)][2])]

QoLEntry(x, value) ==
    CASE x = "ToggleKey" -> Whole(value)
      [] x = "Threshold" -> Number(value)
      [] x \in {"DisableHooks", "Enabled"} -> Flag(value)
      [] OTHER -> Text(value)

\* An unreadable number leaves its key out.
QoLTable(qol) ==
    [x \in {y \in QoLNames : /\ qol[y] # Empty
                             /\ y \in {"ToggleKey", "Threshold"} => IsNumber(qol[y][1])}
        |-> QoLEntry(x, qol[x])]

BuildToml(settings, configs, qol, patches) ==
    [settings |-> InsertAll(settings, SettingEntry),
     config   |-> InsertAll(configs, ConfigEntry),
     qol      |-> QoLTable(qol),
     patches  |-> InsertAll(patches, PatchEntry)]

\* The end of the file: the last section is flushed, the table is built.
Build ==
    /\ ~built
    /\ FlushSection
    /\ section' = NoSection
    /\ built' = TRUE
    /\ tomlTable' = BuildToml(FlushSettings, FlushConfigs, outQoL, FlushPatches)
    /\ UNCHANGED <<file, inPatchArea, outQoL>>

Next ==
    \/ \E line \in Lines : ReadMarker(line) \/ ReadOther(line) \/ ReadHeader(line) \/ ReadPair(line)
    \/ Build

Spec == Init /\ [][Next]_vars

-----------------------------------------------------------------------------
(* What the file means, read as a whole. *)

HeadersOf(prefixes) == {i \in DOMAIN file : file[i].kind = "header" /\ file[i].prefix \in prefixes}
BehindMarker(i) == \E j \in 1..(i - 1) : file[j].kind = "marker"

\* The positions of the pairs of key that belong to the header at i.
PairsOf(i, key) ==
    {j \in (i + 1)..Len(file) :
        /\ file[j].kind = "pair" /\ file[j].key = key
        /\ \A k \in i + 1..j : file[k].kind \notin {"header", "marker"}}

LastOf(i, key) == IF PairsOf(i, key) = {} THEN Empty ELSE file[Max(PairsOf(i, key))].value

SettingHeaders ==
    {i \in HeadersOf({"optimization", "plain"}) : ~BehindMarker(i) /\ LastOf(i, "Value") # Empty}
ConfigHeaders == {i \in HeadersOf({"config"}) : LastOf(i, "Value") # Empty}
PatchHeaders == {i \in HeadersOf({"optimization"}) : BehindMarker(i)}

\* The settings a header gives: the keys of its pairs.
KeysOf(i) ==
    {file[j].key : j \in {k \in (i + 1)..Len(file) : file[k].kind = "pair" /\ k \in PairsOf(i, file[k].key)}}

\* What a token begins with: the number, its whole part, and what is left behind it.
Begins ==
    [t \in {"7", "7px", "0.5"} |->
        CASE t = "7" -> [number |-> "7", whole |-> "7", rest |-> ""]
          [] t = "7px" -> [number |-> "7", whole |-> "7", rest |-> "px"]
          [] t = "0.5" -> [number |-> "0.5", whole |-> "0", rest |-> ""]]

IsOneNumber(value) == Len(value) = 1 /\ value[1] \in DOMAIN Begins /\ Begins[value[1]].rest = ""

\* A comma makes a list, behind the last of which nothing need stand.
IsList(value) ==
    /\ Len(value) > 1
    /\ \A i \in 1..Len(value) : (i = Len(value) /\ value[i] = "") \/ value[i] \in DOMAIN Begins

\* An entry of the table says what the text of the file does: the words true and
\* false, one number and nothing else, a list of numbers, or the text itself.
Says(entry, value) ==
    /\ entry[1] = "boolean" <=> value \in {<<"true">>, <<"false">>}
    /\ entry[1] \in {"integer", "real"} <=> IsOneNumber(value)
    /\ entry[1] = "array" <=> IsList(value)
    /\ entry[1] = "boolean" => entry[2] = value[1]
    /\ entry[1] = "integer" => entry[2] = Begins[value[1]].whole /\ entry[2] = Begins[value[1]].number
    /\ entry[1] = "real" => entry[2] = Begins[value[1]].number /\ entry[2] # Begins[value[1]].whole
    /\ entry[1] = "array" => \A i \in 1..Len(value) : value[i] # "" => entry[2][i] = Begins[value[i]].number
    /\ entry[1] = "string" => entry[2] = value
    /\ entry[1] \in {"boolean", "integer", "real", "array", "string"}

IsTrue(value) == IF value = <<"true">> THEN "true" ELSE "false"

SettingSays(entry, i) ==
    /\ DOMAIN entry = {"Value"} \cup {k \in {"Category"} : LastOf(i, k) # Empty}
                           \cup {b \in Bounds : LastOf(i, b)[1] \in DOMAIN Begins}
    /\ Says(entry["Value"], LastOf(i, "Value"))
    /\ "Category" \in DOMAIN entry => entry["Category"] = <<"string", LastOf(i, "Category")>>
    /\ \A b \in Bounds \cap DOMAIN entry : entry[b] = <<"real", Begins[LastOf(i, b)[1]].number>>

PatchSays(entry, i) ==
    /\ DOMAIN entry = (KeysOf(i) \ Reserved) \cup {k \in {"Enabled"} : LastOf(i, k) # Empty}
    /\ "Enabled" \in DOMAIN entry => entry["Enabled"] = <<"boolean", IsTrue(LastOf(i, "Enabled"))>>
    /\ \A key \in DOMAIN entry \ {"Enabled"} : Says(entry[key], file[Min(PairsOf(i, key))].value)

QoLSays(table, x, value) ==
    /\ x \in DOMAIN table <=>
           value # Empty /\ (x \in {"ToggleKey", "Threshold"} => value[1] \in DOMAIN Begins)
    /\ x \in DOMAIN table =>
           table[x] = CASE x = "ToggleKey" -> <<"integer", Begins[value[1]].whole>>
                        [] x = "Threshold" -> <<"real", Begins[value[1]].number>>
                        [] x \in {"DisableHooks", "Enabled"} -> <<"boolean", IsTrue(value)>>
                        [] OTHER -> <<"string", value>>

\* The migrated file says of every section what the old file says, no more and no
\* less: of sections of one name the first that has a value, of keys of one section
\* the last (of a patch's settings the first), of a QoL value the last section that
\* gives it, nothing of a section in the wrong area, and nothing is carried from one
\* section into the next.  A number that is asked for is what the text begins with,
\* of the toggle key its whole part; without one the key is left out.
MigrationKeepsTheFile ==
    built =>
        LET NamesOf(H) == {file[i].name : i \in H}
            At(H, name) == Min({i \in H : file[i].name = name})
            QoLValues(x) == UNION {PairsOf(i, "Value") : i \in {h \in HeadersOf({"qol"}) : file[h].name = x}}
        IN /\ DOMAIN tomlTable.settings = NamesOf(SettingHeaders)
           /\ \A name \in NamesOf(SettingHeaders) :
                SettingSays(tomlTable.settings[name], At(SettingHeaders, name))
           /\ DOMAIN tomlTable.config = NamesOf(ConfigHeaders)
           /\ \A name \in NamesOf(ConfigHeaders) :
                tomlTable.config[name] = <<"string", LastOf(At(ConfigHeaders, name), "Value")>>
           /\ DOMAIN tomlTable.patches = NamesOf(PatchHeaders)
           /\ \A name \in NamesOf(PatchHeaders) :
                PatchSays(tomlTable.patches[name], At(PatchHeaders, name))
           /\ DOMAIN tomlTable.qol \subseteq QoLNames
           /\ \A x \in QoLNames :
                LET J == QoLValues(x)
                IN QoLSays(tomlTable.qol, x, IF J = {} THEN Empty ELSE file[Max(J)].value)

=============================================================================
