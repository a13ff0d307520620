------------------------------ MODULE Settings ------------------------------
(* Saved settings: persistence.c and serialize/serialize.c of                 *)
(* appl/persistence, its flash medium (media/flash/flash_medium.c) and the    *)
(* boot of kernel/main.c, with resets between any two writes to the flash.    *)
(*                                                                            *)
(* The medium is a header and a sequence of items.  A save reads the medium   *)
(* into memory, lets each serializer write its item there, then erases the    *)
(* flash, programs the items and, last, the header.  The header's checksum is *)
(* taken to identify the items it was computed from; erasing and programming  *)
(* succeed, or are cut short by a reset.  Allocations may fail.               *)
EXTENDS Integers, Sequences, FiniteSets, SequencesExt

CONSTANTS
    NumSerializers, \* g_serializers, in the order of their registration
    ByName,         \* those that are saved by name
    Values,         \* what a setting may be
    Default,        \* its factory default
    Firmwares,      \* images that a reset may start
    Version,        \* Version[fw][s]: the version of serializer s in image fw
    STUB,           \* an item of its name only, without data
    INITIAL,        \* what the initialisations make of a setting
    NONE

Serializers == 1..NumSerializers
ItemType == [name : Serializers, version : Nat, data : Values \cup {STUB, INITIAL}]

ASSUME SettingsAssumption ==
    /\ NumSerializers \in Nat /\ ByName \subseteq Serializers
    /\ Default \in [Serializers -> Values] /\ STUB \notin Values /\ INITIAL \notin Values
    /\ Version \in [Firmwares -> [Serializers -> Nat]]
    /\ NONE \notin Seq(ItemType)

VARIABLES
    setting,    \* the settings in effect
    fw,         \* the running image
    header,     \* the items whose checksum the flash header holds, or NONE
    body,       \* the items in flash
    items,      \* THIS->items, what the save under way will write
    pc,         \* "boot", "ready", or in medium_close "erase", "program"
    kept,       \* the items of the last completed save, NONE once they are given up
    last,       \* each setting as the last save that covers it took it
    covers,     \* the serializers that the save under way covers
    clean       \* since the boot no allocation failed and nothing erased the medium

vars == <<setting, fw, header, body, items, pc, kept, last, covers, clean>>

-----------------------------------------------------------------------------
(* medium_open: the items of a valid medium.                                   *)
Valid == header # NONE /\ header = body
\* Mutant of Opened: a save starts from an empty list.
OpenedFresh == <<>>
Opened == IF Valid THEN body ELSE <<>>

Item(s, data) == [name |-> s, version |-> Version[fw][s], data |-> data]
Position(list, s) ==
    IF \E i \in DOMAIN list : list[i].name = s
    THEN CHOOSE i \in DOMAIN list : list[i].name = s
    ELSE Len(list) + 1

(* serialize_item with LOAD or VALIDATE: the item has this version and size.   *)
Loads(list, s) ==
    \E i \in DOMAIN list : list[i].name = s /\ list[i].version = Version[fw][s] /\ list[i].data # STUB
Validates == Valid /\ \A s \in Serializers : Loads(body, s)
Loaded(old) ==
    [s \in Serializers |-> IF Valid /\ Loads(body, s) THEN body[Position(body, s)].data ELSE old[s]]

(* serialize_item with SAVE, or with COUNT for a serializer that the save does *)
(* not cover.  An item of this version is overwritten in place, which a stub   *)
(* has no room for.  Another is built in a new buffer; when that cannot be     *)
(* allocated the list of items ends here.                                      *)
ItemSaved(list, s, save, alloc, from) ==
    LET at == Position(list, s)
        here == at \in DOMAIN list /\ list[at].version = Version[fw][s]
        data == IF save THEN from[s] ELSE STUB
    IN CASE here -> IF save /\ list[at].data # STUB THEN [list EXCEPT ![at].data = data] ELSE list
         [] ~here /\ ~alloc -> SubSeq(list, 1, at - 1)
         [] ~here /\ alloc /\ at \in DOMAIN list -> [list EXCEPT ![at] = Item(s, data)]
         [] OTHER -> Append(list, Item(s, data))

(* The serializers up to n, of which those in covered are saved, in the order  *)
(* of their registration.  Allocations succeed from serializer a on.           *)
Saved(list, n, covered, a, from) ==
    FoldLeft(LAMBDA l, s : ItemSaved(l, s, s \in covered, s >= a, from), list, [i \in 1..n |-> i])

(* serialize_by_groups over all groups, and serialize_by_name, which stops     *)
(* after its item.                                                             *)
SavedAll(list, a, from) == Saved(list, NumSerializers, Serializers, a, from)
SavedByName(list, n, a, from) == Saved(list, n, {n}, a, from)

Allocs == 1..(NumSerializers + 1)

Init ==
    /\ setting = [s \in Serializers |-> INITIAL] /\ fw \in Firmwares
    /\ header = NONE /\ body = <<>> /\ items = <<>> /\ pc = "boot"
    /\ kept = NONE /\ last = Default /\ covers = {} /\ clean = TRUE

(* A save has its items in memory and goes on to close the medium.             *)
Close(list, covered) == items' = list /\ covers' = covered /\ pc' = "erase"

-----------------------------------------------------------------------------
\* Mutant of Boot: the defaults replace what could be loaded.
BootDefaultsLast(validated, loaded, saved, a) ==
    /\ pc = "boot"
    /\ IF validated /\ Validates
       THEN /\ setting' = IF loaded THEN Loaded(setting) ELSE setting
            /\ pc' = "ready" /\ UNCHANGED <<items, covers>>
       ELSE /\ setting' = Default
            /\ IF saved THEN Close(SavedAll(Opened, a, Default), Serializers)
               ELSE pc' = "ready" /\ UNCHANGED <<items, covers>>
    /\ last' = setting'
    /\ clean' = (validated /\ loaded /\ saved /\ a = 1
                 /\ \A i \in DOMAIN Opened : Opened[i].data # STUB)
    /\ UNCHANGED <<fw, header, body, kept>>

(* main() after a reset.  validated, loaded and saved: medium_open found the   *)
(* memory it needs in each of the three passes.                                *)
Boot(validated, loaded, saved, a) ==
    LET defaults == IF loaded THEN Loaded(Default) ELSE Default IN
    /\ pc = "boot"
    /\ IF validated /\ Validates
       THEN /\ setting' = IF loaded THEN Loaded(setting) ELSE setting
            /\ pc' = "ready" /\ UNCHANGED <<items, covers>>
       ELSE /\ setting' = defaults
            /\ IF saved THEN Close(SavedAll(Opened, a, defaults), Serializers)
               ELSE pc' = "ready" /\ UNCHANGED <<items, covers>>
    /\ last' = setting'
    /\ clean' = (validated /\ loaded /\ saved /\ a = 1
                 /\ \A i \in DOMAIN Opened : Opened[i].data # STUB)
    /\ UNCHANGED <<fw, header, body, kept>>

(* A command changes a setting; it is not saved.                               *)
Configure(s, v) ==
    /\ pc = "ready"
    /\ setting' = [setting EXCEPT ![s] = v]
    /\ UNCHANGED <<fw, header, body, items, pc, kept, last, covers, clean>>

(* persistence_save_all_current_settings; the reset button restores the        *)
(* factory defaults first.                                                     *)
SaveAll(a, factory) ==
    /\ pc = "ready"
    /\ setting' = IF factory THEN Default ELSE setting
    /\ Close(SavedAll(Opened, a, setting'), Serializers)
    /\ clean' = (clean /\ a = 1)
    /\ UNCHANGED <<fw, header, body, kept, last>>

(* persistence_save_current_settings.                                          *)
SaveName(n, a) ==
    /\ pc = "ready"
    /\ Close(SavedByName(Opened, n, a, setting), {n})
    /\ clean' = (clean /\ a = 1)
    /\ UNCHANGED <<setting, fw, header, body, kept, last>>

(* medium_close.                                                               *)
Erase ==
    /\ pc = "erase"
    /\ header' = NONE /\ body' = <<>> /\ kept' = NONE
    /\ pc' = "program"
    /\ UNCHANGED <<setting, fw, items, last, covers, clean>>

\* Mutant of ProgramItem: the header follows every item.
ProgramItemAndHeader ==
    /\ pc = "program" /\ Len(body) < Len(items)
    /\ body' = Append(body, items[Len(body) + 1])
    /\ header' = body'
    /\ UNCHANGED <<setting, fw, items, pc, kept, last, covers, clean>>
ProgramItem ==
    /\ pc = "program" /\ Len(body) < Len(items)
    /\ body' = Append(body, items[Len(body) + 1])
    /\ UNCHANGED <<setting, fw, header, items, pc, kept, last, covers, clean>>

Programmed == Len(body) = Len(items)
ProgramHeader ==
    /\ pc = "program" /\ Programmed
    /\ header' = body
    /\ kept' = items
    /\ last' = [s \in Serializers |-> IF s \in covers THEN setting[s] ELSE last[s]]
    /\ pc' = "ready" /\ items' = <<>> /\ covers' = {}
    /\ UNCHANGED <<setting, fw, body, clean>>

(* The buffer for the checksum cannot be allocated: the header stays erased.   *)
CloseFails ==
    /\ pc = "program" /\ Programmed
    /\ pc' = "ready" /\ items' = <<>> /\ covers' = {}
    /\ clean' = FALSE
    /\ UNCHANGED <<setting, fw, header, body, kept, last>>

(* The flash command erases the partition.                                     *)
EraseMedium ==
    /\ pc = "ready"
    /\ header' = NONE /\ body' = <<>> /\ kept' = NONE
    /\ clean' = FALSE
    /\ UNCHANGED <<setting, fw, items, pc, last, covers>>

(* A reset or a power failure, at any time; another image may start.           *)
Reset(image) ==
    /\ pc # "boot"
    /\ fw' = image
    /\ setting' = [s \in Serializers |-> INITIAL]
    /\ pc' = "boot" /\ items' = <<>> /\ covers' = {}
    /\ UNCHANGED <<header, body, kept, last, clean>>

Next ==
    \/ \E a \in Allocs :
         \/ \E validated, loaded, saved \in BOOLEAN : Boot(validated, loaded, saved, a)
         \/ \E factory \in BOOLEAN : SaveAll(a, factory)
         \/ \E n \in ByName : SaveName(n, a)
    \/ \E s \in Serializers, v \in Values : Configure(s, v)
    \/ Erase \/ ProgramItem \/ ProgramHeader \/ CloseFails \/ EraseMedium
    \/ \E image \in Firmwares : Reset(image)

Spec == Init /\ [][Next]_vars

-----------------------------------------------------------------------------
IsItems(list) ==
    /\ \A i \in DOMAIN list : list[i] \in ItemType
    /\ \A i, j \in DOMAIN list : list[i].name = list[j].name => i = j

(* Every variable holds a value of its type, and no list of items, in memory or *)
(* in flash, has two of a name.                                                 *)
TypeOK ==
    /\ setting \in [Serializers -> Values \cup {INITIAL}] /\ fw \in Firmwares
    /\ last \in [Serializers -> Values \cup {INITIAL}]
    /\ (header = NONE \/ IsItems(header)) /\ (kept = NONE \/ IsItems(kept))
    /\ IsItems(body) /\ IsItems(items)
    /\ pc \in {"boot", "ready", "erase", "program"}
    /\ covers \subseteq Serializers /\ clean \in BOOLEAN

(* main() and the medium: while no allocation has failed and nothing erased the *)
(* medium since the boot, the next boot finds every setting, as the last save   *)
(* that covers it took it; a save by name keeps the other settings.             *)
MediumCurrent ==
    /\ TypeOK
    /\ pc = "ready" /\ clean => Validates
    /\ pc = "ready" /\ clean =>
          \A s \in Serializers : body[Position(body, s)].data = last[s]

(* main(): after a boot a setting is what the last completed save wrote, if it  *)
(* was written in this version, and else its factory default, wherever the save *)
(* before the boot was cut short.                                               *)
Expected(s) ==
    IF kept # NONE /\ Loads(kept, s) THEN kept[Position(kept, s)].data ELSE Default[s]
BootRestores ==
    [][pc = "boot" /\ pc' # "boot" /\ clean' => \A s \in Serializers : setting'[s] = Expected(s)]_vars

(* flash_medium.c: a reader finds what one save wrote, all of it, or nothing.   *)
Medium == INSTANCE SavedMedium WITH
    Contents <- Seq(ItemType),
    saved <- IF Valid THEN body ELSE NONE,
    writing <- IF pc \in {"erase", "program"} THEN items ELSE NONE
MediumSpec == Medium!Spec
=============================================================================
