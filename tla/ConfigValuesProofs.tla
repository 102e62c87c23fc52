------------------------- MODULE ConfigValuesProofs -------------------------
(***************************************************************************)
(* Theorems about ConfigValues for any keys, lengths of values, sizes of   *)
(* the buffers and number of edits.                                        *)
(***************************************************************************)
EXTENDS ConfigValues, TLAPS

-----------------------------------------------------------------------------
(* Types. *)

\* A value goes with an entry; whoever is about to read one finds it.
ValuesKnown ==
    /\ \A n \in Names : entry[n] # NoEntry => entry[n].value \in Nat
    /\ pc = "override" => entry[key].value \in Nat
    /\ gui = "update" => edits < MaxEdits /\ entry[typed.name] # NoEntry
    /\ phase = "boot" => pc = "idle" /\ gui = "idle"

TypeInv == TypeOK /\ ValuesKnown

LEMMA SmallerOrLarger ==
    ASSUME NEW a \in Int, NEW b \in Int
    PROVE  /\ Smaller(a, b) \in {a, b} /\ Smaller(a, b) <= a /\ Smaller(a, b) <= b
           /\ Larger(a, b) \in {a, b} /\ Larger(a, b) >= a /\ Larger(a, b) >= b
BY DEF Smaller, Larger

\* What GetOrCreateBuffer returns: a buffer that holds the string, or as much of it
\* as the largest buffer does; it is the old one where that was large enough.
LEMMA BufferHolds ==
    ASSUME TypeOK, NEW n \in Names, NEW length \in Nat, NEW least \in Nat,
           GetOrCreateBuffer(n, length, least)
    PROVE  /\ buffer' \in [Names -> Nat] /\ capacity' \in [Names -> 0..MaxBuffer]
           /\ content' \in [Names -> Nat]
           /\ \A m \in Names \ {n} : UNCHANGED <<buffer[m], capacity[m], content[m]>>
           /\ content'[n] = Smaller(length, MaxBuffer - 1)
           /\ content'[n] < capacity'[n]
           /\ capacity'[n] >= capacity[n]
           /\ capacity'[n] >= Smaller(MinCapacity, MaxBuffer) \/ capacity'[n] = capacity[n]
           /\ buffer'[n] = buffer[n] \/ capacity[n] < Smaller(Larger(least, length + 1), MaxBuffer)
<1> DEFINE required == Smaller(Larger(least, length + 1), MaxBuffer)
           fresh == Smaller(Larger(2 * required, MinCapacity), MaxBuffer)
<1>1. /\ MaxBuffer \in Nat \ {0} /\ MinCapacity \in Nat \ {0}
      /\ buffer \in [Names -> Nat] /\ capacity \in [Names -> 0..MaxBuffer] /\ content \in [Names -> Nat]
  BY ConfigAssumption DEF ConfigAssumption, TypeOK
<1>2. /\ required \in Nat /\ required >= 1 /\ required <= MaxBuffer
      /\ required >= length + 1 \/ required = MaxBuffer
  BY <1>1 DEF Smaller, Larger
<1>3. /\ fresh \in 0..MaxBuffer /\ fresh >= required
      /\ fresh >= Smaller(MinCapacity, MaxBuffer)
  <2> HIDE DEF required
  <2> QED BY <1>1, <1>2 DEF Smaller, Larger
<1>4. /\ IF capacity[n] < required
         THEN capacity' = [capacity EXCEPT ![n] = fresh] /\ buffer' = [buffer EXCEPT ![n] = @ + 1]
         ELSE UNCHANGED <<capacity, buffer>>
      /\ content' = [content EXCEPT ![n] = Smaller(length, capacity'[n] - 1)]
  BY DEF GetOrCreateBuffer
<1> HIDE DEF fresh
<1>5. /\ buffer' \in [Names -> Nat] /\ capacity' \in [Names -> 0..MaxBuffer]
      /\ \A m \in Names \ {n} : UNCHANGED <<buffer[m], capacity[m]>>
      /\ capacity'[n] >= required /\ capacity'[n] >= capacity[n]
      /\ capacity'[n] = fresh \/ capacity'[n] = capacity[n]
      /\ buffer'[n] = buffer[n] \/ capacity[n] < required
  <2> HIDE DEF required
  <2> QED BY <1>1, <1>2, <1>3, <1>4
<1>6. /\ Smaller(length, capacity'[n] - 1) = Smaller(length, MaxBuffer - 1)
      /\ Smaller(length, capacity'[n] - 1) \in Nat
      /\ Smaller(length, capacity'[n] - 1) < capacity'[n]
  <2>1. capacity'[n] \in Nat /\ capacity'[n] <= MaxBuffer /\ capacity'[n] >= 1
    BY <1>1, <1>2, <1>5
  <2>2. capacity'[n] >= length + 1 \/ capacity'[n] = MaxBuffer
    BY <1>1, <1>2, <1>5, <2>1
  <2> QED BY <1>1, <2>1, <2>2 DEF Smaller
<1>7. /\ content' \in [Names -> Nat] /\ content'[n] = Smaller(length, capacity'[n] - 1)
      /\ \A m \in Names \ {n} : content'[m] = content[m]
  BY <1>1, <1>4, <1>6
<1> QED BY <1>3, <1>5, <1>6, <1>7

LEMMA TypeInit == Init => TypeInv
<1> SUFFICES ASSUME Init PROVE TypeInv
  OBVIOUS
<1> USE ConfigAssumption DEF ConfigAssumption, Init
<1>1. NoEntry \in Entries
  BY DEF NoEntry, Entries
<1>2. TypeOK
  <2>1. file \in Overrides /\ typed \in [name : Names, value : Nat]
    BY DEF Overrides
  <2>2. \A n \in Names : buffer[n] = 0
    OBVIOUS
  <2>3. capacity \in [Names -> 0..MaxBuffer] /\ edits \in 0..MaxEdits
    OBVIOUS
  <2> QED BY <1>1, <2>1, <2>2, <2>3 DEF TypeOK
<1>3. ValuesKnown
  BY DEF ValuesKnown
<1> QED BY <1>2, <1>3 DEF TypeInv

\* What a lookup or an edit leaves of the types when it takes a buffer for a key.
LEMMA BufferTypes ==
    ASSUME TypeOK, NEW n \in Names, NEW length \in Nat, NEW least \in Nat,
           GetOrCreateBuffer(n, length, least)
    PROVE  /\ buffer' \in [Names -> Nat] /\ capacity' \in [Names -> 0..MaxBuffer]
           /\ content' \in [Names -> Nat]
           /\ \A m \in Names : buffer'[m] # 0 => content'[m] < capacity'[m]
<1>1. \A m \in Names : buffer[m] # 0 => content[m] < capacity[m]
  BY DEF TypeOK
<1> QED BY BufferHolds, <1>1

LEMMA DistributeTypes ==
    ASSUME TypeInv, Distribute
    PROVE  /\ entry' \in [Names -> Entries]
           /\ \A n \in Names : entry'[n] # NoEntry => entry'[n].value \in Nat
           /\ \A n \in Names : entry[n] # NoEntry => entry'[n] # NoEntry
<1> DEFINE new(n) == [value |-> file[n], isModified |-> TRUE,
                      bufferSize |-> IF entry[n] = NoEntry THEN MinCapacity ELSE entry[n].bufferSize]
<1>1. /\ MinCapacity \in Nat /\ entry \in [Names -> Entries] /\ file \in [Names -> Nat \cup {None}]
      /\ \A n \in Names : entry[n] # NoEntry => entry[n].value \in Nat
  BY ConfigAssumption DEF ConfigAssumption, TypeInv, TypeOK, ValuesKnown, Overrides
<1>2. \A n \in Names : file[n] # None => new(n) \in Entries /\ new(n).value \in Nat /\ new(n) # NoEntry
  BY <1>1 DEF Entries, NoEntry
<1>3. entry' = [n \in Names |-> IF file[n] = None THEN entry[n] ELSE new(n)]
  BY DEF Distribute
<1> HIDE DEF new
<1> QED BY <1>1, <1>2, <1>3

LEMMA EntryTypes ==
    ASSUME TypeInv, NEW n \in Names, entry' \in [Names -> Entries], entry'[n].value \in Nat,
           \A m \in Names \ {n} : entry'[m] = entry[m]
    PROVE  /\ \A m \in Names : entry'[m] # NoEntry => entry'[m].value \in Nat
           /\ \A m \in Names : entry[m] # NoEntry => entry'[m] # NoEntry
<1>1. NoEntry.value \notin Nat
  BY ConfigAssumption DEF ConfigAssumption, NoEntry
<1>2. \A m \in Names : entry[m] # NoEntry => entry[m].value \in Nat
  BY DEF TypeInv, ValuesKnown
<1>3. entry'[n] # NoEntry
  BY <1>1
<1> QED BY <1>2, <1>3

LEMMA TypeStep == TypeInv /\ [Next]_vars => TypeInv'
<1> SUFFICES ASSUME TypeInv, [Next]_vars PROVE TypeInv'
  OBVIOUS
<1> USE ConfigAssumption DEF ConfigAssumption
<1> USE DEF TypeInv
<1>1. ASSUME NEW n \in Names, LookupFind(n) PROVE TypeInv'
  BY <1>1 DEF LookupFind, TypeOK, ValuesKnown, cacheVars, guiVars, Entries, NoEntry
<1>2. CASE LookupOverride
  <2>1. key \in Names /\ entry[key].value \in Nat /\ entry[key].bufferSize \in Nat
    BY <1>2 DEF LookupOverride, TypeOK, ValuesKnown, Entries
  <2>2. held' \in [Names -> SUBSET Nat]
    BY <1>2, <2>1, BufferTypes DEF LookupOverride, TypeOK
  <2> QED BY <1>2, <2>1, <2>2, BufferTypes DEF LookupOverride, TypeOK, ValuesKnown, guiVars
<1>3. CASE LookupOwn
  <2>1. key \in Names /\ (Stock[key] # None => Stock[key] \in Nat /\ Stock[key] + 1 \in Nat)
    BY DEF TypeOK
  <2>2. CASE Stock[key] # None
    <3>1. GetOrCreateBuffer(key, Stock[key], Stock[key] + 1)
      BY <1>3, <2>2 DEF LookupOwn
    <3>2. buffer' \in [Names -> Nat]
      BY <2>1, <2>2, <3>1, BufferTypes
    <3>3. held' = [held EXCEPT ![key] = @ \cup {buffer'[key]}]
      BY <1>3, <2>2 DEF LookupOwn
    <3>4. held' \in [Names -> SUBSET Nat]
      BY <2>1, <3>2, <3>3 DEF TypeOK
    <3> QED BY <1>3, <2>1, <2>2, <3>1, <3>4, BufferTypes DEF LookupOwn, TypeOK, ValuesKnown, guiVars
  <2>3. CASE Stock[key] = None
    BY <1>3, <2>3 DEF LookupOwn, TypeOK, ValuesKnown, cacheVars, guiVars
  <2> QED BY <2>2, <2>3
<1>4. CASE LookupAdd
  <2>1. key \in Names /\ Stock[key] \in Nat \cup {None}
    BY DEF TypeOK
  <2>2. /\ entry' \in [Names -> Entries] /\ entry'[key].value \in Nat
        /\ \A m \in Names \ {key} : entry'[m] = entry[m]
    BY <1>4, <2>1 DEF LookupAdd, TypeOK, Entries
  <2> QED BY <1>4, <2>1, <2>2, EntryTypes DEF LookupAdd, TypeOK, ValuesKnown, cacheVars, guiVars
<1>5. ASSUME NEW n \in Names, NEW v \in Lengths, UpdateBuffer(n, v) PROVE TypeInv'
  <2>1. v \in Nat /\ (IF entry[n].bufferSize > 0 THEN entry[n].bufferSize ELSE v + 1) \in Nat
    BY DEF TypeOK, Entries
  <2> QED BY <1>5, <2>1, BufferTypes DEF UpdateBuffer, Request, TypeOK, ValuesKnown, gameVars, Entries
<1>6. CASE UpdateEntry
  <2>1. typed.name \in Names /\ typed.value \in Nat /\ entry[typed.name].bufferSize \in Nat
    BY DEF TypeOK, Entries
  <2>2. /\ entry' \in [Names -> Entries] /\ entry'[typed.name].value \in Nat
        /\ \A m \in Names \ {typed.name} : entry'[m] = entry[m]
    BY <1>6, <2>1 DEF UpdateEntry, TypeOK, Entries
  <2> QED BY <1>6, <2>1, <2>2, EntryTypes DEF UpdateEntry, TypeOK, ValuesKnown, cacheVars, gameVars
<1>7. ASSUME NEW n \in Names, ClearOverride(n) PROVE TypeInv'
  <2>1. entry[n].bufferSize \in Nat
    BY DEF TypeOK, Entries
  <2>2. /\ entry' \in [Names -> Entries] /\ entry'[n].value \in Nat
        /\ \A m \in Names \ {n} : entry'[m] = entry[m]
    <3> DEFINE off == [entry EXCEPT ![n].isModified = FALSE]
    <3>1. off \in [Names -> Entries] /\ \A m \in Names \ {n} : off[m] = entry[m]
      BY DEF TypeOK, Entries
    <3>2. entry' = [off EXCEPT ![n].value = 0]
      BY <1>7 DEF ClearOverride
    <3> HIDE DEF off
    <3> QED BY <3>1, <3>2 DEF Entries
  <2> QED BY <1>7, <2>1, <2>2, EntryTypes DEF ClearOverride, Request, TypeOK, ValuesKnown, cacheVars, gameVars
<1>8. CASE SaveAll
  BY <1>8 DEF SaveAll, Request, TypeOK, ValuesKnown, cacheVars, gameVars, guiVars, Entries, Overrides, NoEntry
<1>9. CASE LoadAtStart
  BY <1>9, DistributeTypes DEF LoadAtStart, TypeOK, ValuesKnown, cacheVars, gameVars, guiVars
<1>10. CASE LoadSettings
  BY <1>10, DistributeTypes DEF LoadSettings, Request, TypeOK, ValuesKnown, cacheVars, gameVars, guiVars
<1>11. CASE Restart
  BY <1>11 DEF Restart, TypeOK, ValuesKnown, Entries, NoEntry
<1>12. CASE UNCHANGED vars
  BY <1>12 DEF vars, cacheVars, gameVars, guiVars, TypeOK, ValuesKnown, Entries, NoEntry
<1> QED
  BY <1>1, <1>2, <1>3, <1>4, <1>5, <1>6, <1>7, <1>8, <1>9, <1>10, <1>11, <1>12 DEF Next, Lookup, Overlay

\* Type correctness; no capacity exceeds MAX_BUFFER_SIZE and every string ends, with its
\* terminator, inside its buffer (config_value_manager.cpp:48).
THEOREM TypeCorrect == Spec => []TypeOK
<1>1. TypeInv => TypeOK
  BY DEF TypeInv
<1> QED BY <1>1, TypeInit, TypeStep, PTL DEF Spec

-----------------------------------------------------------------------------
(* The game's pointers. *)

\* Every value a user may choose, and every one of the game's own, fits with its
\* terminator into the least buffer.
ShortValues ==
    /\ \A v \in Lengths : v < MinCapacity
    /\ \A n \in Names : Stock[n] # None => Stock[n] < MinCapacity

\* Then nothing ever asks for more than the least buffer,
RequestsAreShort ==
    /\ \A n \in Names : entry[n].bufferSize <= MinCapacity
    /\ \A n \in Names : entry[n].value \in Nat => entry[n].value < MinCapacity
    /\ \A n \in Names : file[n] \in Nat => file[n] < MinCapacity
    /\ typed.value < MinCapacity

\* and a buffer, once there, has that size.
BuffersAreLeast ==
    \A n \in Names :
        /\ capacity[n] = 0 \/ capacity[n] >= Smaller(MinCapacity, MaxBuffer)
        /\ capacity[n] = 0 => held[n] = {}

PointersInv == TypeInv /\ RequestsAreShort /\ BuffersAreLeast /\ PointersLive

LEMMA PointersInit == ShortValues /\ Init => PointersInv
<1> SUFFICES ASSUME ShortValues, Init PROVE PointersInv
  OBVIOUS
<1> USE ConfigAssumption DEF ConfigAssumption, Init
<1>1. RequestsAreShort
  BY DEF RequestsAreShort, ShortValues, NoEntry
<1>2. BuffersAreLeast /\ PointersLive
  BY DEF BuffersAreLeast, PointersLive
<1> QED BY <1>1, <1>2, TypeInit DEF PointersInv

\* A request that is short never frees a buffer the game holds.
LEMMA BufferStays ==
    ASSUME PointersInv, NEW n \in Names, NEW length \in Nat, NEW least \in Nat,
           length < MinCapacity, least <= MinCapacity,
           GetOrCreateBuffer(n, length, least),
           held' = held \/ held' = [held EXCEPT ![n] = @ \cup {buffer'[n]}]
    PROVE  BuffersAreLeast' /\ PointersLive'
<1> DEFINE floor == Smaller(MinCapacity, MaxBuffer)
<1>1. /\ MinCapacity \in Nat \ {0} /\ MaxBuffer \in Nat \ {0} /\ TypeOK
      /\ \A m \in Names : capacity[m] \in Nat /\ held[m] \subseteq {buffer[m]}
      /\ held \in [Names -> SUBSET Nat]
  BY ConfigAssumption DEF ConfigAssumption, PointersInv, TypeInv, TypeOK, PointersLive
<1>2. floor \in Nat /\ floor >= 1
  BY <1>1 DEF Smaller
<1>3. Smaller(Larger(least, length + 1), MaxBuffer) <= floor
  BY <1>1 DEF Smaller, Larger
<1>4. \A m \in Names : /\ capacity[m] = 0 \/ capacity[m] >= floor
                       /\ capacity[m] = 0 => held[m] = {}
  BY DEF PointersInv, BuffersAreLeast
<1>5. /\ \A m \in Names \ {n} : buffer'[m] = buffer[m] /\ capacity'[m] = capacity[m]
      /\ content'[n] \in Nat /\ content'[n] < capacity'[n] /\ capacity'[n] \in Nat
      /\ capacity'[n] >= floor \/ capacity'[n] = capacity[n]
      /\ buffer'[n] = buffer[n] \/ capacity[n] < Smaller(Larger(least, length + 1), MaxBuffer)
  BY <1>1, BufferHolds
<1>6. Smaller(Larger(least, length + 1), MaxBuffer) \in Nat
  BY <1>1 DEF Smaller, Larger
<1> HIDE DEF floor
<1>7. capacity'[n] >= floor /\ capacity'[n] # 0 /\ (buffer'[n] = buffer[n] \/ held[n] = {})
  BY <1>1, <1>2, <1>3, <1>4, <1>5, <1>6
<1>8. \A m \in Names \ {n} : held'[m] = held[m]
  BY <1>1
<1>9. held'[n] \subseteq {buffer'[n]}
  BY <1>1, <1>7
<1>10. PointersLive'
  BY <1>1, <1>5, <1>8, <1>9 DEF PointersLive
<1>11. BuffersAreLeast'
  BY <1>4, <1>5, <1>7, <1>8 DEF BuffersAreLeast, floor
<1> QED BY <1>10, <1>11

LEMMA PointersStep == ShortValues /\ PointersInv /\ [Next]_vars => PointersInv'
<1> SUFFICES ASSUME ShortValues, PointersInv, [Next]_vars PROVE PointersInv'
  OBVIOUS
<1> USE ConfigAssumption DEF ConfigAssumption
<1>1. TypeInv' /\ TypeInv
  BY TypeStep DEF PointersInv
<1>2. RequestsAreShort /\ BuffersAreLeast /\ PointersLive /\ entry \in [Names -> Entries]
      /\ typed \in [name : Names, value : Nat] /\ key \in Names
  BY <1>1 DEF PointersInv, TypeInv, TypeOK
<1>3. SUFFICES RequestsAreShort' /\ BuffersAreLeast' /\ PointersLive'
  BY <1>1 DEF PointersInv
<1>4. ASSUME UNCHANGED <<buffer, capacity, held>> PROVE BuffersAreLeast' /\ PointersLive'
  BY <1>2, <1>4 DEF BuffersAreLeast, PointersLive
<1>5. ASSUME UNCHANGED <<entry, file, typed>> PROVE RequestsAreShort'
  BY <1>2, <1>5 DEF RequestsAreShort
<1>6. ASSUME NEW n \in Names, LookupFind(n) PROVE RequestsAreShort' /\ BuffersAreLeast' /\ PointersLive'
  BY <1>4, <1>5, <1>6 DEF LookupFind, cacheVars, guiVars
<1>7. CASE LookupOverride
  <2>1. entry[key].value \in Nat /\ entry[key].value < MinCapacity
        /\ entry[key].bufferSize \in Nat /\ entry[key].bufferSize <= MinCapacity
    BY <1>1, <1>2, <1>7 DEF LookupOverride, TypeInv, ValuesKnown, RequestsAreShort, Entries
  <2> QED BY <1>2, <1>5, <1>7, <2>1, BufferStays DEF LookupOverride, guiVars
<1>8. CASE LookupOwn
  <2>1. CASE Stock[key] # None
    <3>1. Stock[key] \in Nat /\ Stock[key] < MinCapacity /\ Stock[key] + 1 \in Nat /\ Stock[key] + 1 <= MinCapacity
      BY <1>2, <2>1 DEF ShortValues
    <3> QED BY <1>2, <1>5, <1>8, <2>1, <3>1, BufferStays DEF LookupOwn, guiVars
  <2>2. CASE Stock[key] = None
    BY <1>4, <1>5, <1>8, <2>2 DEF LookupOwn, guiVars, cacheVars
  <2> QED BY <2>1, <2>2
<1>9. CASE LookupAdd
  <2>1. /\ \A m \in Names \ {key} : entry'[m] = entry[m]
        /\ entry'[key].value < MinCapacity /\ entry'[key].bufferSize <= MinCapacity
    BY <1>2, <1>9 DEF LookupAdd, ShortValues
  <2> QED BY <1>2, <1>4, <1>9, <2>1 DEF LookupAdd, RequestsAreShort, cacheVars, guiVars
<1>10. ASSUME NEW n \in Names, NEW v \in Lengths, UpdateBuffer(n, v)
       PROVE  RequestsAreShort' /\ BuffersAreLeast' /\ PointersLive'
  <2> DEFINE least == IF entry[n].bufferSize > 0 THEN entry[n].bufferSize ELSE v + 1
  <2>1. v \in Nat /\ v < MinCapacity /\ least \in Nat /\ least <= MinCapacity
    BY <1>2 DEF ShortValues, RequestsAreShort, Entries
  <2>2. GetOrCreateBuffer(n, v, least) /\ held' = held
    BY <1>10 DEF UpdateBuffer
  <2> HIDE DEF least
  <2>3. BuffersAreLeast' /\ PointersLive'
    BY <2>1, <2>2, BufferStays
  <2>4. typed'.value = v /\ UNCHANGED <<entry, file>>
    BY <1>10 DEF UpdateBuffer
  <2> QED BY <1>2, <2>1, <2>3, <2>4 DEF RequestsAreShort
<1>11. CASE UpdateEntry
  <2>1. /\ \A m \in Names \ {typed.name} : entry'[m] = entry[m]
        /\ entry'[typed.name].value = typed.value
        /\ entry'[typed.name].bufferSize = entry[typed.name].bufferSize
    BY <1>2, <1>11 DEF UpdateEntry, Entries
  <2> QED BY <1>2, <1>4, <1>11, <2>1 DEF UpdateEntry, RequestsAreShort, cacheVars
<1>12. ASSUME NEW n \in Names, ClearOverride(n) PROVE RequestsAreShort' /\ BuffersAreLeast' /\ PointersLive'
  <2>1. /\ \A m \in Names \ {n} : entry'[m] = entry[m]
        /\ entry'[n].value = 0 /\ entry'[n].bufferSize = entry[n].bufferSize
    BY <1>2, <1>12 DEF ClearOverride, Entries
  <2> QED BY <1>2, <1>4, <1>12, <2>1 DEF ClearOverride, RequestsAreShort, cacheVars
<1>13. CASE SaveAll
  BY <1>2, <1>4, <1>13 DEF SaveAll, RequestsAreShort, cacheVars, guiVars
<1>14. ASSUME Distribute, UNCHANGED <<file, typed>> PROVE RequestsAreShort'
  <2>1. file \in [Names -> Nat \cup {None}]
    BY <1>1 DEF TypeInv, TypeOK, Overrides
  <2>2. \A m \in Names : \/ entry'[m] = entry[m]
                         \/ /\ entry'[m].value = file[m] /\ file[m] \in Nat
                            /\ entry'[m].bufferSize \in {MinCapacity, entry[m].bufferSize}
    BY <1>14, <2>1 DEF Distribute
  <2> QED BY <1>2, <1>14, <2>2 DEF RequestsAreShort
<1>15. CASE LoadAtStart
  BY <1>4, <1>14, <1>15 DEF LoadAtStart, cacheVars, guiVars
<1>16. CASE LoadSettings
  BY <1>4, <1>14, <1>16 DEF LoadSettings, cacheVars, guiVars
<1>17. CASE Restart
  <2>1. BuffersAreLeast' /\ PointersLive'
    BY <1>17 DEF Restart, BuffersAreLeast, PointersLive
  <2>2. RequestsAreShort'
    BY <1>2, <1>17 DEF Restart, RequestsAreShort, NoEntry
  <2> QED BY <2>1, <2>2
<1>18. CASE UNCHANGED vars
  BY <1>4, <1>5, <1>18 DEF vars, cacheVars, guiVars
<1> QED
  BY <1>6, <1>7, <1>8, <1>9, <1>10, <1>11, <1>12, <1>13, <1>15, <1>16, <1>17, <1>18 DEF Next, Lookup, Overlay

\* While all values fit into the least buffer, no pointer the game was given is freed,
\* whichever lookups, edits, loads and restarts overlap ("The buffer persists for the
\* lifetime of the process so the game can read from it", config_value_manager.h:28).
THEOREM ShortPointersStay == ShortValues => (Spec => []PointersLive)
<1> SUFFICES ASSUME ShortValues PROVE Spec => []PointersLive
  OBVIOUS
<1>1. Init => PointersInv
  BY PointersInit
<1>2. PointersInv /\ [Next]_vars => PointersInv'
  BY PointersStep
<1>3. PointersInv => PointersLive
  BY DEF PointersInv
<1> QED BY <1>1, <1>2, <1>3, PTL DEF Spec

-----------------------------------------------------------------------------
(* Lookups and requests one after the other. *)

\* A lookup that found no override has none to lose, an edit has a value the user
\* typed, and before LoadAll there is neither an entry nor a buffer.
OneByOne ==
    /\ pc # "idle" => gui = "idle" /\ phase = "up"
    /\ pc \in {"own", "add"} => ~entry[key].isModified
    /\ gui = "update" => typed.value \in Lengths /\ phase = "up"
    /\ phase = "boot" => \A n \in Names : entry[n] = NoEntry /\ buffer[n] = 0

\* What is overridden, and what is saved, a user has typed.
Typed ==
    /\ file \in [Names -> Lengths \cup {None}]
    /\ \A n \in Names : entry[n].isModified => entry[n].value \in Lengths

SerialInv == TypeInv /\ OneByOne /\ Typed

LEMMA SerialInit == Init => SerialInv
<1> SUFFICES ASSUME Init PROVE OneByOne /\ Typed
  BY TypeInit DEF SerialInv
<1> QED BY DEF Init, OneByOne, Typed, NoEntry

LEMMA TypedStep == SerialInv /\ [Next]_vars => Typed'
<1> SUFFICES ASSUME SerialInv, [Next]_vars PROVE Typed'
  OBVIOUS
<1>1. OneByOne /\ Typed /\ key \in Names /\ entry \in [Names -> Entries] /\ typed.name \in Names
  BY DEF SerialInv, TypeInv, TypeOK
<1>2. CASE UNCHANGED <<entry, file>>
  BY <1>1, <1>2 DEF Typed
<1>3. CASE LookupAdd
  BY <1>1, <1>3 DEF LookupAdd, Typed
<1>4. CASE UpdateEntry
  BY <1>1, <1>4 DEF UpdateEntry, Typed, OneByOne, Entries
<1>5. ASSUME NEW n \in Names, ClearOverride(n) PROVE Typed'
  BY <1>1, <1>5 DEF ClearOverride, Typed, Entries
<1>6. CASE SaveAll
  BY <1>1, <1>6 DEF SaveAll, Typed
<1>7. ASSUME Distribute, file' = file PROVE Typed'
  BY <1>1, <1>7 DEF Distribute, Typed
<1>8. CASE Restart
  BY <1>1, <1>8 DEF Restart, Typed, NoEntry
<1> QED
  <2>1. CASE Lookup
    BY <1>2, <1>3, <2>1 DEF Lookup, LookupFind, LookupOverride, LookupOwn
  <2>2. CASE Overlay
    BY <1>2, <1>4, <1>5, <1>6, <1>7, <2>2 DEF Overlay, UpdateBuffer, LoadSettings
  <2> QED
    BY <1>2, <1>7, <1>8, <2>1, <2>2 DEF Next, LoadAtStart, vars

LEMMA SerialStep == Serialized /\ SerialInv /\ [Next]_vars => SerialInv'
<1> SUFFICES ASSUME Serialized, SerialInv, [Next]_vars PROVE OneByOne'
  BY TypeStep, TypedStep DEF SerialInv
<1>1. OneByOne /\ key \in Names /\ entry \in [Names -> Entries] /\ typed.name \in Names
  BY DEF SerialInv, TypeInv, TypeOK
<1>2. ASSUME NEW n \in Names, LookupFind(n) PROVE OneByOne'
  BY <1>1, <1>2 DEF LookupFind, OneByOne, cacheVars, guiVars
<1>3. CASE LookupOverride
  BY <1>1, <1>3 DEF LookupOverride, OneByOne, guiVars
<1>4. CASE LookupOwn
  BY <1>1, <1>4 DEF LookupOwn, OneByOne, guiVars
<1>5. CASE LookupAdd
  BY <1>1, <1>5 DEF LookupAdd, OneByOne, cacheVars, guiVars
<1>6. ASSUME NEW n \in Names, NEW v \in Lengths, UpdateBuffer(n, v) PROVE OneByOne'
  BY <1>1, <1>6 DEF UpdateBuffer, Request, OneByOne, gameVars
<1>7. CASE UpdateEntry
  BY <1>1, <1>7 DEF UpdateEntry, OneByOne, cacheVars, gameVars
<1>8. ASSUME NEW n \in Names, ClearOverride(n) PROVE OneByOne'
  BY <1>1, <1>8 DEF ClearOverride, Request, OneByOne, cacheVars, gameVars
<1>9. CASE SaveAll
  BY <1>1, <1>9 DEF SaveAll, Request, OneByOne, cacheVars, gameVars, guiVars
<1>10. CASE LoadAtStart
  <2>1. pc = "idle" /\ gui = "idle"
    BY <1>10 DEF LoadAtStart, SerialInv, TypeInv, ValuesKnown
  <2> QED BY <1>1, <1>10, <2>1 DEF LoadAtStart, OneByOne, cacheVars, gameVars, guiVars
<1>11. CASE LoadSettings
  BY <1>1, <1>11 DEF LoadSettings, Request, OneByOne, cacheVars, gameVars, guiVars
<1>12. CASE Restart
  BY <1>1, <1>12 DEF Restart, OneByOne
<1>13. CASE UNCHANGED vars
  BY <1>1, <1>13 DEF vars, cacheVars, gameVars, guiVars, OneByOne
<1> QED
  BY <1>2, <1>3, <1>4, <1>5, <1>6, <1>7, <1>8, <1>9, <1>10, <1>11, <1>12, <1>13 DEF Next, Lookup, Overlay

\* An override is in its buffer once there is one; the one being typed is there before
\* it is in its entry.
Effective(n, value) == content[n] = Smaller(value, MaxBuffer - 1)

EffectiveInv ==
    /\ \A n \in Names : entry[n].isModified /\ buffer[n] # 0 /\ ~(gui = "update" /\ n = typed.name) =>
          Effective(n, entry[n].value)
    /\ gui = "update" => Effective(typed.name, typed.value)

LEMMA EffectiveStep == Serialized /\ ~Reloads /\ SerialInv /\ EffectiveInv /\ [Next]_vars => EffectiveInv'
<1> SUFFICES ASSUME Serialized, ~Reloads, SerialInv, EffectiveInv, [Next]_vars PROVE EffectiveInv'
  OBVIOUS
<1>1. /\ TypeInv /\ TypeOK /\ OneByOne /\ ValuesKnown
      /\ key \in Names /\ entry \in [Names -> Entries] /\ typed \in [name : Names, value : Nat]
  BY DEF SerialInv, TypeInv, TypeOK
<1>2. ASSUME NEW n \in Names, LookupFind(n) PROVE EffectiveInv'
  BY <1>1, <1>2 DEF LookupFind, OneByOne, EffectiveInv, Effective, cacheVars, guiVars
<1>3. ASSUME NEW n \in Names, NEW length \in Nat, NEW least \in Nat, GetOrCreateBuffer(n, length, least)
      PROVE  /\ \A m \in Names \ {n} : content'[m] = content[m] /\ buffer'[m] = buffer[m]
             /\ content'[n] = Smaller(length, MaxBuffer - 1)
  BY <1>1, <1>3, BufferHolds
<1>4. CASE LookupOverride
  <2>1. /\ entry[key].value \in Nat /\ entry[key].bufferSize \in Nat /\ gui = "idle" /\ gui' = "idle"
        /\ GetOrCreateBuffer(key, entry[key].value, entry[key].bufferSize) /\ entry' = entry
    BY <1>1, <1>4 DEF LookupOverride, ValuesKnown, OneByOne, Entries, guiVars
  <2>2. /\ \A m \in Names \ {key} : content'[m] = content[m] /\ buffer'[m] = buffer[m]
        /\ content'[key] = Smaller(entry[key].value, MaxBuffer - 1)
    BY <1>1, <1>3, <2>1
  <2> QED BY <2>1, <2>2 DEF EffectiveInv, Effective
<1>5. CASE LookupOwn
  <2>1. gui = "idle" /\ gui' = "idle" /\ entry' = entry /\ ~entry[key].isModified
    BY <1>1, <1>5 DEF LookupOwn, OneByOne, guiVars
  <2>2. \A m \in Names \ {key} : content'[m] = content[m] /\ buffer'[m] = buffer[m]
    <3>1. CASE Stock[key] # None
      <4>1. Stock[key] \in Nat /\ Stock[key] + 1 \in Nat
        BY <1>1, <3>1, ConfigAssumption DEF ConfigAssumption
      <4> QED BY <1>1, <1>3, <1>5, <3>1, <4>1 DEF LookupOwn
    <3>2. CASE Stock[key] = None
      BY <1>5, <3>2 DEF LookupOwn, cacheVars
    <3> QED BY <3>1, <3>2
  <2> QED BY <2>1, <2>2 DEF EffectiveInv, Effective
<1>6. CASE LookupAdd
  <2>1. /\ gui = "idle" /\ gui' = "idle" /\ UNCHANGED cacheVars
        /\ \A m \in Names \ {key} : entry'[m] = entry[m]
        /\ ~entry'[key].isModified
    BY <1>1, <1>6 DEF LookupAdd, OneByOne, guiVars
  <2> QED BY <2>1 DEF EffectiveInv, Effective, cacheVars
<1>7. ASSUME NEW n \in Names, NEW v \in Lengths, UpdateBuffer(n, v) PROVE EffectiveInv'
  <2> DEFINE least == IF entry[n].bufferSize > 0 THEN entry[n].bufferSize ELSE v + 1
  <2>1. v \in Nat /\ least \in Nat
    BY <1>1, ConfigAssumption DEF ConfigAssumption, Entries
  <2>2. /\ GetOrCreateBuffer(n, v, least) /\ entry' = entry
        /\ gui = "idle" /\ typed'.name = n /\ typed'.value = v
    BY <1>7 DEF UpdateBuffer, Request
  <2> HIDE DEF least
  <2>3. /\ \A m \in Names \ {n} : content'[m] = content[m] /\ buffer'[m] = buffer[m]
        /\ content'[n] = Smaller(v, MaxBuffer - 1)
    BY <1>3, <2>1, <2>2
  <2>4. gui' = "update"
    BY <1>7 DEF UpdateBuffer
  <2> QED BY <2>2, <2>3, <2>4 DEF EffectiveInv, Effective
<1>8. CASE UpdateEntry
  <2>1. /\ gui = "update" /\ gui' = "idle" /\ UNCHANGED cacheVars
        /\ \A m \in Names \ {typed.name} : entry'[m] = entry[m]
        /\ entry'[typed.name].value = typed.value
    BY <1>1, <1>8 DEF UpdateEntry, Entries
  <2> QED BY <2>1 DEF EffectiveInv, Effective, cacheVars
<1>9. ASSUME NEW n \in Names, ClearOverride(n) PROVE EffectiveInv'
  <2>1. /\ gui = "idle" /\ gui' = "idle" /\ UNCHANGED cacheVars
        /\ \A m \in Names \ {n} : entry'[m] = entry[m]
        /\ ~entry'[n].isModified
    BY <1>1, <1>9 DEF ClearOverride, Request, Entries
  <2> QED BY <2>1 DEF EffectiveInv, Effective, cacheVars
<1>10. CASE SaveAll
  BY <1>10 DEF SaveAll, EffectiveInv, Effective, cacheVars, guiVars
<1>11. CASE LoadAtStart
  <2>1. gui' = "idle" /\ \A n \in Names : buffer'[n] = 0
    BY <1>1, <1>11 DEF LoadAtStart, ValuesKnown, OneByOne, cacheVars, guiVars
  <2> QED BY <2>1 DEF EffectiveInv
<1>12. CASE Restart
  BY <1>12 DEF Restart, EffectiveInv
<1>13. CASE UNCHANGED vars
  BY <1>13 DEF vars, cacheVars, guiVars, EffectiveInv, Effective
<1> QED
  BY <1>2, <1>4, <1>5, <1>6, <1>7, <1>8, <1>9, <1>10, <1>11, <1>12, <1>13 DEF Next, Lookup, Overlay, LoadSettings

\* What the overlay shows as the override is what the game reads through its pointer, up
\* to the largest buffer, for values of any length, if lookups and requests do not
\* overlap and the file is not loaded again (config_value_manager.cpp:20, 48).
THEOREM ShownTakesEffect == Serialized /\ ~Reloads => (Spec => []ShownIsEffective)
<1> SUFFICES ASSUME Serialized, ~Reloads PROVE Spec => []ShownIsEffective
  OBVIOUS
<1>1. Init => SerialInv /\ EffectiveInv
  <2> SUFFICES ASSUME Init PROVE EffectiveInv
    BY SerialInit
  <2> QED BY DEF Init, EffectiveInv
<1>2. SerialInv /\ EffectiveInv /\ [Next]_vars => SerialInv' /\ EffectiveInv'
  BY SerialStep, EffectiveStep
<1>3. EffectiveInv => ShownIsEffective
  BY DEF EffectiveInv, Effective, ShownIsEffective
<1> QED BY <1>1, <1>2, <1>3, PTL DEF Spec

-----------------------------------------------------------------------------
(* The refinement of OverrideStore. *)

Override(n) == IF entry[n].isModified THEN entry[n].value ELSE None

\* A step that changes no override and not the file is a stutter of the store.
LEMMA WishFrame ==
    ASSUME phase = "up", phase' = "up", file' = file, edits' = edits,
           \A n \in Names : Override(n)' = Override(n)
    PROVE  UNCHANGED Store!vars
<1>1. Wish' = Wish /\ Kept' = Kept
  BY DEF Wish, Override, Kept
<1> QED BY <1>1 DEF Store!vars, NoOverrides

LEMMA InitImplements == Init => Store!Init
<1> SUFFICES ASSUME Init PROVE Store!Init
  OBVIOUS
<1>1. file \in [Names -> Lengths \cup {None}] /\ Wish = file
  BY DEF Init, Overrides, NoOverrides, Wish
<1>2. ASSUME NEW n \in Names PROVE Kept[n] \in Store!Readings /\ file[n] \in Kept[n]
  <2>1. Kept[n] = {file[n]} /\ file[n] \in Lengths \cup {None}
    BY <1>1 DEF Kept
  <2>2. {file[n]} \in SUBSET (Lengths \cup {None}) /\ {file[n]} \notin {{}}
    BY <2>1
  <2> QED BY <2>1, <2>2 DEF Store!Readings
<1> QED BY <1>1, <1>2 DEF Init, Kept, Store!Init, Store!Overrides, Store!NoOverrides, NoOverrides

LEMMA StepImplements == Serialized /\ SerialInv /\ [Next]_vars => [Store!Next]_Store!vars
<1> SUFFICES ASSUME Serialized, SerialInv, [Next]_vars PROVE Store!Next \/ UNCHANGED Store!vars
  OBVIOUS
<1>1. /\ OneByOne /\ ValuesKnown /\ key \in Names /\ entry \in [Names -> Entries]
      /\ typed \in [name : Names, value : Nat] /\ phase \in {"boot", "up"} /\ edits \in Nat
      /\ file \in [Names -> Nat \cup {None}]
  BY ConfigAssumption DEF ConfigAssumption, SerialInv, TypeInv, TypeOK, Overrides
<1>2. UNCHANGED NoOverrides /\ (file' = file => Kept' = Kept)
  BY DEF NoOverrides, Kept
<1>3. ASSUME NEW n \in Names, NEW v \in Nat \cup {None}, phase = "up", phase' = "up", file' = file,
             \A m \in Names \ {n} : entry'[m] = entry[m], Override(n)' = v
      PROVE  Wish' = [Wish EXCEPT ![n] = v]
  <2>1. Wish = [m \in Names |-> Override(m)] /\ Wish' = [m \in Names |-> Override(m)']
    BY <1>3 DEF Wish, Override
  <2>2. \A m \in Names \ {n} : Override(m)' = Override(m)
    BY <1>3 DEF Override
  <2> QED BY <1>3, <2>1, <2>2
<1>4. ASSUME NEW n \in Names, LookupFind(n) PROVE UNCHANGED Store!vars
  BY <1>4, WishFrame DEF LookupFind, Override, guiVars
<1>5. CASE LookupOverride
  BY <1>1, <1>5, WishFrame DEF LookupOverride, OneByOne, Override, guiVars
<1>6. CASE LookupOwn
  BY <1>1, <1>6, WishFrame DEF LookupOwn, OneByOne, Override, guiVars
<1>7. CASE LookupAdd
  <2>1. \A n \in Names : Override(n)' = Override(n)
    BY <1>1, <1>7 DEF LookupAdd, OneByOne, Override
  <2> QED BY <1>1, <1>7, <2>1, WishFrame DEF LookupAdd, OneByOne, guiVars
<1>8. ASSUME NEW n \in Names, NEW v \in Lengths, UpdateBuffer(n, v) PROVE UNCHANGED Store!vars
  BY <1>8, WishFrame DEF UpdateBuffer, Request, Override
<1>9. CASE UpdateEntry
  <2>1. PICK n \in Names, v \in Lengths : n = typed.name /\ v = typed.value
    BY <1>1, <1>9 DEF UpdateEntry, OneByOne
  <2>2. /\ edits < MaxEdits /\ phase = "up" /\ edits' = edits + 1 /\ phase' = "up" /\ file' = file
        /\ \A m \in Names \ {n} : entry'[m] = entry[m]
    BY <1>1, <1>9, <2>1 DEF UpdateEntry, OneByOne, ValuesKnown
  <2>3. Override(n)' = v
    BY <1>1, <1>9, <2>1 DEF UpdateEntry, Override, Entries
  <2>4. Store!Edit(n, v)
    BY <1>2, <1>3, <2>2, <2>3, ConfigAssumption DEF ConfigAssumption, Store!Edit, Store!Request
  <2> QED BY <2>4 DEF Store!Next
<1>10. ASSUME NEW n \in Names, ClearOverride(n) PROVE Store!Next
  <2>1. /\ edits < MaxEdits /\ phase = "up" /\ edits' = edits + 1 /\ phase' = "up" /\ file' = file
        /\ \A m \in Names \ {n} : entry'[m] = entry[m]
    BY <1>1, <1>10 DEF ClearOverride, Request
  <2>2. Override(n)' = None
    BY <1>1, <1>10 DEF ClearOverride, Override, Entries
  <2>3. Store!Clear(n)
    BY <1>2, <1>3, <2>1, <2>2 DEF Store!Clear, Store!Request
  <2> QED BY <2>3 DEF Store!Next
<1>11. CASE SaveAll
  <2>1. file' = Wish /\ Wish' = Wish /\ edits' = edits
    BY <1>11 DEF SaveAll, Request, Wish, guiVars
  <2>2. Kept' = [n \in Names |-> {Wish[n]}]
    BY <2>1 DEF Kept
  <2>3. Store!Save
    BY <1>2, <2>1, <2>2 DEF Store!Save
  <2> QED BY <2>3 DEF Store!Next
<1>12. ASSUME phase' = "up", Distribute
       PROVE  Wish' = [n \in Names |-> IF file[n] # None THEN file[n] ELSE Override(n)]
  BY <1>12 DEF Distribute, Wish, Override
<1>13. CASE LoadAtStart
  <2>1. \A n \in Names : Override(n) = None
    BY <1>1, <1>13 DEF LoadAtStart, OneByOne, Override, NoEntry
  <2>2. Wish' = file
    BY <1>1, <1>12, <1>13, <2>1 DEF LoadAtStart
  <2> QED BY <1>2, <1>13, <2>2 DEF LoadAtStart, Wish, Store!vars, guiVars
<1>14. CASE LoadSettings
  <2>1. Wish = [n \in Names |-> Override(n)] /\ phase' = "up" /\ Distribute /\ UNCHANGED <<file, edits>>
    BY <1>14 DEF LoadSettings, Request, Wish, Override, guiVars
  <2>2. file \in Store!Overrides /\ \A n \in Names : file[n] \in Kept[n] \cup {None}
    BY <1>1 DEF Kept, Store!Overrides, SerialInv, Typed
  <2>3. Wish' = Store!Merge(file, Wish)
    BY <1>12, <2>1 DEF Store!Merge
  <2>4. Store!Load
    BY <1>2, <2>1, <2>2, <2>3 DEF Store!Load
  <2> QED BY <2>4 DEF Store!Next
<1>15. CASE Restart
  <2>0. file \in Store!Overrides /\ \A n \in Names : file[n] \in Kept[n]
    BY DEF Kept, Store!Overrides, SerialInv, Typed
  <2>1. Store!Restart
    BY <1>2, <1>15, <2>0 DEF Restart, Wish, Store!Restart, Store!NoOverrides, NoOverrides
  <2> QED BY <2>1 DEF Store!Next
<1>16. CASE UNCHANGED vars
  BY <1>2, <1>16 DEF vars, guiVars, Store!vars, Wish
<1> QED
  BY <1>4, <1>5, <1>6, <1>7, <1>8, <1>9, <1>10, <1>11, <1>13, <1>14, <1>15, <1>16 DEF Next, Lookup, Overlay

\* No lookup of the game, edit, save, load or restart loses or invents an override of a
\* config value, as long as lookups and requests do not overlap: each is a step of
\* OverrideStore or changes nothing there (config_value_manager.cpp).
THEOREM StoreImplemented == Serialized => (Spec => ImplementsStore)
<1> SUFFICES ASSUME Serialized PROVE Spec => Store!Spec
  BY DEF ImplementsStore
<1>1. Init => SerialInv
  BY SerialInit
<1>2. SerialInv /\ [Next]_vars => SerialInv'
  BY SerialStep
<1>3. Init => Store!Init
  BY InitImplements
<1>4. SerialInv /\ [Next]_vars => [Store!Next]_Store!vars
  BY StepImplements
<1> QED BY <1>1, <1>2, <1>3, <1>4, PTL DEF Spec, Store!Spec

=============================================================================
