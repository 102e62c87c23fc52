----------------------------- MODULE ConfigValues -----------------------------
(***************************************************************************)
(* The GraphicsRules configuration values that S3SS overrides.  The game   *)
(* asks for a value through ConfigRetrievalHook and keeps the pointer it   *)
(* gets; the overlay edits the value in the buffer behind that pointer.    *)
(*                                                                         *)
(* m_configValues is guarded by no mutex; m_cacheMutex makes each          *)
(* GetOrCreateBuffer one step.  Strings are abstracted to their lengths,   *)
(* and saving to one step: SettingsStore has its detail.                   *)
(***************************************************************************)
EXTENDS Integers

CONSTANTS
    Names,       \* keys of the category Config
    Lengths,     \* lengths of the values a user may ask for
    Stock,       \* per key the length of the game's own value, or None
    None,
    MinCapacity, \* least capacity of a buffer (256)
    MaxBuffer,   \* MAX_BUFFER_SIZE (65536)
    MaxEdits,    \* bound: how many requests the user makes
    Reloads,     \* TRUE: File > Load Settings may be used
    Serialized   \* TRUE: a lookup of the game never overlaps an overlay request

ASSUME ConfigAssumption ==
    /\ Lengths \subseteq Nat
    /\ None \notin Nat
    /\ Stock \in [Names -> Nat \cup {None}]
    /\ MinCapacity \in Nat \ {0} /\ MaxBuffer \in Nat \ {0}
    /\ MaxEdits \in Nat
    /\ Reloads \in BOOLEAN /\ Serialized \in BOOLEAN

Overrides == [Names -> Nat \cup {None}]
NoOverrides == [n \in Names |-> None]
NoEntry == [value |-> None, isModified |-> FALSE, bufferSize |-> 0]

VARIABLES
    phase,    \* "boot" until HookThread's LoadAll, then "up"
    entry,    \* m_configValues
    buffer,   \* m_bufferCache: which allocation a key has, 0 for none,
    capacity, \* its size
    content,  \* and the length of the string in it
    held,     \* the allocations the game holds pointers to
    pc, key,  \* the game thread's lookup
    gui, typed, \* the overlay's UpdateConfigValue
    file,     \* the [config] section of S3SS.toml
    edits     \* requests so far

cacheVars == <<buffer, capacity, content>>
gameVars == <<pc, key>>
guiVars == <<gui, typed, edits>>
vars == <<phase, entry, cacheVars, held, gameVars, guiVars, file>>

-----------------------------------------------------------------------------
Init ==
    /\ phase = "boot"
    /\ entry = [n \in Names |-> NoEntry]
    /\ buffer = [n \in Names |-> 0]
    /\ capacity = [n \in Names |-> 0]
    /\ content = [n \in Names |-> 0]
    /\ held = [n \in Names |-> {}]
    /\ pc = "idle"
    /\ key \in Names
    /\ gui = "idle"
    /\ typed = [name |-> key, value |-> 0]
    /\ file \in [Names -> Lengths \cup {None}]
    /\ edits = 0

Smaller(a, b) == IF a < b THEN a ELSE b
Larger(a, b) == IF a < b THEN b ELSE a

\* Mutant of GetOrCreateBuffer: no least capacity.
GetOrCreateTight(n, length, minCapacity) ==
    LET required == Smaller(Larger(minCapacity, length + 1), MaxBuffer)
    IN  /\ IF capacity[n] < required
           THEN /\ capacity' = [capacity EXCEPT ![n] = Smaller(2 * required, MaxBuffer)]
                /\ buffer' = [buffer EXCEPT ![n] = @ + 1]
           ELSE UNCHANGED <<capacity, buffer>>
        /\ content' = [content EXCEPT ![n] = Smaller(length, capacity'[n] - 1)]

\* Mutant of GetOrCreateBuffer: the string is copied only into a new buffer.
GetOrCreateStale(n, length, minCapacity) ==
    LET required == Smaller(Larger(minCapacity, length + 1), MaxBuffer)
    IN  IF capacity[n] < required
        THEN /\ capacity' = [capacity EXCEPT ![n] =
                                Smaller(Larger(2 * required, MinCapacity), MaxBuffer)]
             /\ buffer' = [buffer EXCEPT ![n] = @ + 1]
             /\ content' = [content EXCEPT ![n] = Smaller(length, capacity'[n] - 1)]
        ELSE UNCHANGED cacheVars

\* A buffer that is too small is replaced, which frees the old one.
GetOrCreateBuffer(n, length, minCapacity) ==
    LET required == Smaller(Larger(minCapacity, length + 1), MaxBuffer)
    IN  /\ IF capacity[n] < required
           THEN /\ capacity' = [capacity EXCEPT ![n] =
                                   Smaller(Larger(2 * required, MinCapacity), MaxBuffer)]
                /\ buffer' = [buffer EXCEPT ![n] = @ + 1]
           ELSE UNCHANGED <<capacity, buffer>>
        /\ content' = [content EXCEPT ![n] = Smaller(length, capacity'[n] - 1)]

-----------------------------------------------------------------------------
(* ConfigRetrievalHook, on the game's thread. *)

\* Mutant of LookupFind: isModified is not looked at.
LookupFindAny(n) ==
    /\ phase = "up" /\ pc = "idle"
    /\ Serialized => gui = "idle"
    /\ key' = n
    /\ pc' = "own"
    /\ UNCHANGED <<phase, entry, cacheVars, held, guiVars, file>>

\* The search for a saved override.
LookupFind(n) ==
    /\ phase = "up" /\ pc = "idle"
    /\ Serialized => gui = "idle"
    /\ key' = n
    /\ pc' = IF entry[n].isModified THEN "override" ELSE "own"
    /\ UNCHANGED <<phase, entry, cacheVars, held, guiVars, file>>

\* Found: the game gets the buffer with the entry's value of this moment.
LookupOverride ==
    /\ pc = "override"
    /\ GetOrCreateBuffer(key, entry[key].value, entry[key].bufferSize)
    /\ held' = [held EXCEPT ![key] = @ \cup {buffer'[key]}]
    /\ pc' = "idle"
    /\ UNCHANGED <<phase, entry, key, guiVars, file>>

\* Not found: the game's own value, if it has one, moves into the buffer ...
LookupOwn ==
    /\ pc = "own"
    /\ pc' = "add"
    /\ IF Stock[key] # None
       THEN /\ GetOrCreateBuffer(key, Stock[key], Stock[key] + 1)
            /\ held' = [held EXCEPT ![key] = @ \cup {buffer'[key]}]
       ELSE UNCHANGED <<cacheVars, held>>
    /\ UNCHANGED <<phase, entry, key, guiVars, file>>

\* ... and AddConfigValue replaces the entry by an unmodified one.
LookupAdd ==
    /\ pc = "add"
    /\ pc' = "idle"
    /\ entry' = [entry EXCEPT ![key] =
                    IF Stock[key] # None
                    THEN [value |-> Stock[key], isModified |-> FALSE, bufferSize |-> Stock[key] + 1]
                    ELSE [value |-> 0, isModified |-> FALSE, bufferSize |-> MinCapacity]]
    /\ UNCHANGED <<phase, cacheVars, held, key, guiVars, file>>

-----------------------------------------------------------------------------
(* The overlay: its own thread, one request at a time. *)

Request ==
    /\ phase = "up" /\ gui = "idle"
    /\ Serialized => pc = "idle"

\* UpdateConfigValue: the buffer first ...
UpdateBuffer(n, v) ==
    /\ Request
    /\ edits < MaxEdits
    /\ entry[n] # NoEntry
    /\ GetOrCreateBuffer(n, v, IF entry[n].bufferSize > 0 THEN entry[n].bufferSize ELSE v + 1)
    /\ typed' = [name |-> n, value |-> v]
    /\ gui' = "update"
    /\ UNCHANGED <<phase, entry, held, gameVars, edits, file>>

\* ... then the entry.
UpdateEntry ==
    /\ gui = "update"
    /\ entry' = [entry EXCEPT ![typed.name].value = typed.value,
                              ![typed.name].isModified = TRUE]
    /\ gui' = "idle"
    /\ edits' = edits + 1
    /\ UNCHANGED <<phase, cacheVars, held, gameVars, typed, file>>

\* "Clear Override": an unmodified copy with an empty value replaces the entry.
ClearOverride(n) ==
    /\ Request
    /\ edits < MaxEdits
    /\ entry[n] # NoEntry
    /\ entry' = [entry EXCEPT ![n].isModified = FALSE, ![n].value = 0]
    /\ edits' = edits + 1
    /\ UNCHANGED <<phase, cacheVars, held, gameVars, gui, typed, file>>

\* SaveToToml and the write of the file.
SaveAll ==
    /\ Request
    /\ file' = [n \in Names |-> IF entry[n].isModified THEN entry[n].value ELSE None]
    /\ UNCHANGED <<phase, entry, cacheVars, held, gameVars, guiVars>>

\* LoadFromToml: present entries take the value, others are created.
Distribute ==
    entry' = [n \in Names |->
                IF file[n] = None THEN entry[n]
                ELSE [value |-> file[n], isModified |-> TRUE,
                      bufferSize |-> IF entry[n] = NoEntry THEN MinCapacity
                                     ELSE entry[n].bufferSize]]

LoadAtStart ==
    /\ phase = "boot"
    /\ phase' = "up"
    /\ Distribute
    /\ UNCHANGED <<cacheVars, held, gameVars, guiVars, file>>

LoadSettings ==
    /\ Reloads
    /\ Request
    /\ Distribute
    /\ UNCHANGED <<phase, cacheVars, held, gameVars, guiVars, file>>

\* The process ends and is started again: only the file is left.
Restart ==
    /\ phase' = "boot"
    /\ entry' = [n \in Names |-> NoEntry]
    /\ buffer' = [n \in Names |-> 0]
    /\ capacity' = [n \in Names |-> 0]
    /\ content' = [n \in Names |-> 0]
    /\ held' = [n \in Names |-> {}]
    /\ pc' = "idle"
    /\ gui' = "idle"
    /\ UNCHANGED <<key, typed, file, edits>>

-----------------------------------------------------------------------------
Lookup == LookupOverride \/ LookupOwn \/ LookupAdd \/ \E n \in Names : LookupFind(n)

Overlay ==
    \/ \E n \in Names : ClearOverride(n) \/ \E v \in Lengths : UpdateBuffer(n, v)
    \/ UpdateEntry \/ SaveAll \/ LoadSettings

Next == Lookup \/ Overlay \/ LoadAtStart \/ Restart

Spec == Init /\ [][Next]_vars

-----------------------------------------------------------------------------
(* Properties. *)

Entries == [value : Nat \cup {None}, isModified : BOOLEAN, bufferSize : Nat]

\* Every variable has its type, no capacity exceeds MAX_BUFFER_SIZE, and every
\* string ends, with its terminator, inside its buffer.
TypeOK ==
    /\ phase \in {"boot", "up"}
    /\ entry \in [Names -> Entries]
    /\ buffer \in [Names -> Nat]
    /\ capacity \in [Names -> 0..MaxBuffer]
    /\ content \in [Names -> Nat]
    /\ \A n \in Names : buffer[n] # 0 => content[n] < capacity[n]
    /\ held \in [Names -> SUBSET Nat]
    /\ pc \in {"idle", "override", "own", "add"}
    /\ key \in Names
    /\ gui \in {"idle", "update"}
    /\ typed \in [name : Names, value : Nat]
    /\ file \in Overrides
    /\ edits \in 0..MaxEdits

\* No pointer the game was given is ever freed ("The buffer persists for the
\* lifetime of the process so the game can read from it", config_value_manager.h:28).
PointersLive == \A n \in Names : held[n] \subseteq {buffer[n]}

\* What the overlay shows as the override is what the game reads through the
\* pointer it holds, up to the largest buffer, whichever of the game's lookups
\* and the user's edits came first.
ShownIsEffective ==
    pc = "idle" /\ gui = "idle" =>
        \A n \in Names : entry[n].isModified /\ buffer[n] # 0 =>
            content[n] = Smaller(entry[n].value, MaxBuffer - 1)

\* A config value shown in green is in the config file ("Green settings -
\* Modified from the default and saved", README.md:132).
GreenIsSaved ==
    gui = "idle" => \A n \in Names : entry[n].isModified => file[n] = entry[n].value

\* No lookup of the game, save, load or restart loses or invents an override of
\* a config value: each is a step of OverrideStore or changes nothing there.
Wish ==
    IF phase = "boot" THEN file
    ELSE [n \in Names |-> IF entry[n].isModified THEN entry[n].value ELSE None]

Kept == [n \in Names |-> {file[n]}]

Store == INSTANCE OverrideStore
            WITH Values <- Lengths, wish <- Wish, kept <- Kept, base <- NoOverrides

ImplementsStore == Store!Spec

=============================================================================
