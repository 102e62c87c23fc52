------------------------------- MODULE CodeScan -------------------------------
(***************************************************************************)
(* How the game's code is found and changed by its bytes: the two pattern  *)
(* scanners, AddressInfo, the topology fix of DllMain and the patch that   *)
(* rewrites every match of a pattern (SmoothPatchClassic).                 *)
(*                                                                         *)
(* The image is a function on 0..Size-1.  An entry of a pattern is the set *)
(* of bytes it matches: one byte, a nibble's sixteen, or all of them.      *)
(***************************************************************************)
EXTENDS Integers, Sequences, FiniteSetsExt

CONSTANTS
    Size,      \* SizeOfImage
    Word,      \* size_t wraps here: 2^32 in the code
    Images,    \* the images the program may find
    Fixes,     \* kTopologyPatches, a sequence of [pattern, offset, expect, replace]
    Site,      \* an AddressInfo: [addresses, pattern, offset, expect]
    Versions,  \* the game's versions, Unknown among them
    Unknown,
    Sleep,     \* the pattern of the sleep SmoothPatchClassic rewrites
    Rates,     \* values of customTPS
    MaxInstalls \* bound

VARIABLES
    exe, image, \* the code as it was loaded, and as it is
    version, rate,
    stage,      \* where the program is
    next,       \* the fix to be applied, then where the next scan begins
    sites, missed, \* what SmoothPatchClassic has tracked, and where its write failed
    isEnabled, installs,
    putBack     \* history: the places a failed removal has restored

vars == <<exe, image, version, rate, stage, next, sites, missed, isEnabled, installs, putBack>>

NotFound == -1 \* the scanners' 0
Outside == -2  \* the scan has read beyond the image

-----------------------------------------------------------------------------
(* The scanners. *)

\* What comparing the pattern at a place of memory comes to.
Compare(memory, place, pattern) ==
    LET stop == {j \in DOMAIN pattern :
                    \/ place + j - 1 >= Size
                    \/ memory[place + j - 1] \notin pattern[j]}
    IN IF stop = {} THEN "match"
       ELSE IF place + Min(stop) - 1 >= Size THEN "outside" ELSE "differs"

\* The first place, of those from start to start + last, that does not differ.
FirstOf(memory, start, last, pattern) ==
    LET S == {i \in 0..last : Compare(memory, start + i, pattern) # "differs"}
    IN IF S = {} THEN NotFound
       ELSE IF Compare(memory, start + Min(S), pattern) = "match" THEN start + Min(S) ELSE Outside

\* size - bytes.size(), unsigned.
Room(size, pattern) == (size - Len(pattern)) % Word

\* Mutant of ScanPattern: the bound of the other scanner.
ScanPatternShort(memory, start, size, pattern) ==
    IF pattern = <<>> THEN NotFound ELSE FirstOf(memory, start, Room(size, pattern) - 1, pattern)

\* PatchHelper::ScanPattern; a pattern it cannot parse is like an empty one.
ScanPattern(memory, start, size, pattern) ==
    IF pattern = <<>> THEN NotFound ELSE FirstOf(memory, start, Room(size, pattern), pattern)

\* Pattern::ScanModule leaves out the last place.
ScanModule(memory, pattern) == FirstOf(memory, 0, Room(Size, pattern) - 1, pattern)

Holds(memory, place, bytes) ==
    \A j \in DOMAIN bytes : place + j - 1 \in 0..Size - 1 /\ memory[place + j - 1] = bytes[j]

Write(memory, place, bytes) ==
    [a \in DOMAIN memory |->
        IF a \in place..(place + Len(bytes) - 1) THEN bytes[a - place + 1] ELSE memory[a]]

\* AddressInfo::Resolve: a known address that fails validation is not searched for.
Resolve(memory) ==
    IF version # Unknown /\ version \in DOMAIN Site.addresses
    THEN IF Holds(memory, Site.addresses[version], Site.expect)
         THEN Site.addresses[version] ELSE NotFound
    ELSE LET found == ScanPattern(memory, 0, Size, Site.pattern)
         IN IF found >= 0 /\ Holds(memory, found + Site.offset, Site.expect)
            THEN found + Site.offset ELSE NotFound

-----------------------------------------------------------------------------
Init ==
    /\ exe \in Images /\ image = exe
    /\ version \in Versions
    /\ rate \in Rates
    /\ stage = "attach" /\ next = 1
    /\ sites = <<>> /\ missed = {}
    /\ isEnabled = FALSE /\ installs = 0 /\ putBack = {}

\* ApplyCpuidTopologyFix: the first match only, and only where the byte is the
\* expected one; on a processor without the defect nothing is done.
ApplyFix ==
    /\ stage = "attach" /\ next <= Len(Fixes)
    /\ next' = next + 1
    /\ LET fix == Fixes[next]
           place == ScanPattern(image, 0, Size, fix.pattern) + fix.offset
       IN \/ UNCHANGED image
          \/ /\ place >= fix.offset
             /\ Holds(image, place, fix.expect)
             /\ image' = Write(image, place, fix.replace)
    /\ UNCHANGED <<exe, version, rate, stage, sites, missed, isEnabled, installs, putBack>>

Attached ==
    /\ stage = "attach" /\ next > Len(Fixes)
    /\ stage' = "idle"
    /\ UNCHANGED <<exe, image, version, rate, next, sites, missed, isEnabled, installs, putBack>>

\* customTPS is an int setting from -1 to 2000.
ChangeRate ==
    /\ stage = "idle" /\ ~isEnabled
    /\ rate' \in Rates
    /\ UNCHANGED <<exe, image, version, stage, next, sites, missed, isEnabled, installs, putBack>>

CalculateMSPT == IF rate <= 0 THEN rate ELSE 1000 \div rate

\* A return; a sleep of nothing; a sleep of so many milliseconds.
Replacement ==
    CASE CalculateMSPT = -1 -> <<"C3">>
      [] CalculateMSPT = 0 -> <<"B9", "00">>
      [] OTHER -> <<"B9", "ms">>

BeginInstall ==
    /\ stage = "idle" /\ ~isEnabled
    /\ installs < MaxInstalls /\ installs' = installs + 1
    /\ stage' = "install" /\ next' = 0
    /\ missed' = {}
    /\ UNCHANGED <<exe, image, version, rate, sites, isEnabled, putBack>>

Found == ScanPattern(image, next, (Size - next) % Word, Sleep)

\* WriteBytes tracks the place before the write, which may fail.
PatchSite ==
    /\ stage = "install" /\ Found >= 0
    /\ sites' = Append(sites, [place |-> Found, bytes |-> [j \in DOMAIN Replacement |-> image[Found + j - 1]]])
    /\ \/ image' = Write(image, Found, Replacement) /\ UNCHANGED missed
       \/ missed' = missed \cup {Found} /\ UNCHANGED image
    /\ next' = Found + Len(Sleep)
    /\ UNCHANGED <<exe, version, rate, stage, isEnabled, installs, putBack>>

\* Without a single write Install fails, and keeps what it has tracked.
EndInstall ==
    /\ stage = "install" /\ Found < 0
    /\ stage' = IF Found = Outside THEN "crashed" ELSE "idle"
    /\ isEnabled' = \E i \in DOMAIN sites : sites[i].place \notin missed
    /\ UNCHANGED <<exe, image, version, rate, next, sites, missed, installs, putBack>>

\* RestoreAll, last write first: of what it manages to restore, a byte is left as
\* the first write found it.
RestoredAt(memory, tracked, done) ==
    LET Saved(a) == {i \in done :
                        a \in tracked[i].place..(tracked[i].place + Len(tracked[i].bytes) - 1)}
        First(a) == tracked[Min(Saved(a))]
    IN [a \in DOMAIN memory |->
            IF Saved(a) = {} THEN memory[a] ELSE First(a).bytes[a - First(a).place + 1]]

Restored(memory, tracked) == RestoredAt(memory, tracked, DOMAIN tracked)

\* Mutant of Uninstall: what it could not restore is forgotten.
UninstallForgets ==
    /\ stage = "idle" /\ isEnabled
    /\ \E done \in SUBSET DOMAIN sites : image' = RestoredAt(image, sites, done)
    /\ sites' = <<>> /\ isEnabled' = FALSE /\ putBack' = {}
    /\ UNCHANGED <<exe, version, rate, stage, next, missed, installs>>

\* Where a restore fails the others go on; the patch stays on, and what it tracks too.
Uninstall ==
    /\ stage = "idle" /\ isEnabled
    /\ \E done \in SUBSET DOMAIN sites :
        /\ image' = RestoredAt(image, sites, done)
        /\ IF done = DOMAIN sites
           THEN sites' = <<>> /\ isEnabled' = FALSE /\ putBack' = {}
           ELSE putBack' = putBack \cup {sites[i].place : i \in done} /\ UNCHANGED <<sites, isEnabled>>
    /\ UNCHANGED <<exe, version, rate, stage, next, missed, installs>>

Next ==
    \/ ApplyFix \/ Attached \/ ChangeRate
    \/ BeginInstall \/ PatchSite \/ EndInstall \/ Uninstall

Spec == Init /\ [][Next]_vars

-----------------------------------------------------------------------------
\* The reference: the places where a pattern lies in the image.
Places(memory, pattern) ==
    {i \in 0..Size - Len(pattern) :
        \A j \in DOMAIN pattern : memory[i + j - 1] \in pattern[j]}

FirstPlace(memory, pattern) ==
    IF Places(memory, pattern) = {} THEN NotFound ELSE Min(Places(memory, pattern))

\* In whatever state the patches have left the code, both scanners answer with the
\* first place of a pattern, the one in Pattern misses a match at the very end of
\* the image, and an address resolved is a place whose bytes are the expected ones.
ScansFindTheFirst ==
    /\ \A p \in {Sleep, Site.pattern} \cup {Fixes[k].pattern : k \in DOMAIN Fixes} :
        LET first == FirstPlace(image, p)
        IN /\ ScanPattern(image, 0, Size, p) = first
           /\ ScanModule(image, p) = IF first = Size - Len(p) THEN NotFound ELSE first
    /\ Resolve(image) # NotFound =>
        /\ Holds(image, Resolve(image), Site.expect)
        /\ \/ version \in DOMAIN Site.addresses /\ Resolve(image) = Site.addresses[version]
           \/ Resolve(image) = FirstPlace(image, Site.pattern) + Site.offset

Covered(place, pattern) == place..(place + Len(pattern) - 1)

\* Room for the scan behind the last match, as in a section with its padding.
Padded == \A i \in Places(exe, Sleep) : i + 2 * Len(Sleep) <= Size

\* Every byte that differs from the game's belongs to a place one of the patterns
\* describes; once the patch is on, each such place of its pattern is rewritten, or
\* its write failed, or a removal that failed elsewhere has restored it, and the
\* scan has not left the image; with the patch off again, after however many failed
\* installs and removals, the sleeps are back.
CodeIsChangedWhereMeant ==
    /\ Padded => stage # "crashed"
    /\ \A a \in DOMAIN image : image[a] # exe[a] =>
        \/ \E i \in Places(exe, Sleep) : a \in Covered(i, Sleep)
        \/ \E k \in DOMAIN Fixes : \E i \in Places(exe, Fixes[k].pattern) : a \in Covered(i, Fixes[k].pattern)
    /\ isEnabled => Places(image, Sleep) \subseteq missed \cup putBack
    /\ stage = "idle" /\ ~isEnabled => Places(exe, Sleep) \subseteq Places(image, Sleep)

=============================================================================
