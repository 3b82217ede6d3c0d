------------------------------- MODULE OneWire -------------------------------
(***************************************************************************)
(* The search of OneWire.cpp: each call of search() finds one device of    *)
(* the bus, bit by bit, and remembers the last bit at which it took the    *)
(* way of the 0 though there was one of the 1.  Devices come and go.       *)
(* LastFamilyDiscrepancy is left out: nothing reads it.                    *)
(***************************************************************************)
EXTENDS Naturals, FiniteSets

CONSTANTS
  Bits, FamilyBits,   \* of an address, 64 and 8 in the code
  MaxDevices,         \* bound: devices on the bus at first
  MaxChanges          \* bound: devices coming and going

VARIABLES
  bus,                \* the devices on the bus
  ROM_NO, LastDiscrepancy, LastDeviceFlag,
  id_bit_number, last_zero, \* search(); id_bit_number = 0 between calls
  selected,           \* the devices that still answer in this call
  result,             \* of the last call: "none" before one has returned
  found,              \* devices found since the search began anew
  stayed,             \* devices on the bus ever since
  target,             \* a family the next call is to find, 0 if none
  left,               \* a device has left the bus since
  changes             \* comings and goings so far

search_ == <<ROM_NO, LastDiscrepancy, LastDeviceFlag, id_bit_number, last_zero, selected>>
ghosts  == <<result, found, stayed, target, left>>
vars    == <<bus, search_, ghosts, changes>>

ConstantsOK ==
  /\ {Bits, FamilyBits, MaxDevices, MaxChanges} \subseteq Nat
  /\ FamilyBits \in 1 .. Bits - 1

Bit     == 1 .. Bits
Address == [Bit -> {0, 1}]
Zero    == [b \in Bit |-> 0]
family(a) == [b \in 1 .. FamilyBits |-> a[b]]
NoFamily  == family(Zero)
Device  == {a \in Address : family(a) # NoFamily}

TypeOK ==
  /\ {bus, selected, found, stayed} \subseteq SUBSET Device
  /\ {ROM_NO} \subseteq Address /\ LastDiscrepancy \in 0 .. Bits
  /\ {LastDeviceFlag, left} \subseteq BOOLEAN
  /\ id_bit_number \in 0 .. Bits + 1 /\ last_zero \in 0 .. Bits
  /\ result \in {"none", "found", "end", "lost"}
  /\ target \in {family(a) : a \in Address}
  /\ changes \in 0 .. MaxChanges

\* The search begins anew: the ghosts too.
Anew(devices) ==
  /\ found' = {} /\ stayed' = devices /\ left' = FALSE

Init ==
  /\ bus \in {s \in SUBSET Device : Cardinality(s) <= MaxDevices} /\ changes = 0
  /\ ROM_NO = Zero /\ LastDiscrepancy = 0 /\ LastDeviceFlag = FALSE
  /\ id_bit_number = 0 /\ last_zero = 0 /\ selected = {}
  /\ result = "none" /\ found = {} /\ stayed = bus /\ target = NoFamily /\ left = FALSE

reset_search ==
  /\ id_bit_number = 0
  /\ LastDiscrepancy' = 0 /\ LastDeviceFlag' = FALSE /\ ROM_NO' = Zero
  /\ result' = "none" /\ target' = NoFamily /\ Anew(bus)
  /\ UNCHANGED <<bus, id_bit_number, last_zero, selected, changes>>

target_search(f) ==
  /\ id_bit_number = 0
  /\ ROM_NO' = [b \in Bit |-> IF b <= FamilyBits THEN f[b] ELSE 0]
  /\ LastDiscrepancy' = Bits /\ LastDeviceFlag' = FALSE
  /\ result' = "none" /\ target' = f /\ Anew(bus)
  /\ UNCHANGED <<bus, id_bit_number, last_zero, selected, changes>>

\* search() finds nothing: the next call is like a first one.
NotFound(why) ==
  /\ LastDiscrepancy' = 0 /\ LastDeviceFlag' = FALSE
  /\ id_bit_number' = 0
  /\ result' = why

SearchEnds ==
  /\ id_bit_number = 0
  /\ LastDeviceFlag \/ bus = {}
  /\ NotFound(IF LastDeviceFlag THEN "end" ELSE "lost")
  /\ UNCHANGED <<bus, ROM_NO, last_zero, selected, found, stayed, target, left, changes>>

\* reset() and the search command: every device on the bus answers.  After
\* a call that found nothing this is a search that begins anew.
SearchBegins ==
  /\ id_bit_number = 0 /\ ~LastDeviceFlag /\ bus # {}
  /\ id_bit_number' = 1 /\ last_zero' = 0 /\ selected' = bus
  /\ IF result \in {"end", "lost"}
     THEN Anew(bus) /\ target' = NoFamily
     ELSE UNCHANGED <<found, stayed, target, left>>
  /\ UNCHANGED <<bus, ROM_NO, LastDiscrepancy, LastDeviceFlag, result, changes>>

Answers == {a[id_bit_number] : a \in selected}

\* Mutant: the way of the last time is taken up to the discrepancy itself.
search_direction_TooFar ==
  IF Cardinality(Answers) = 1 THEN CHOOSE v \in Answers : TRUE
  ELSE IF id_bit_number <= LastDiscrepancy THEN ROM_NO[id_bit_number]
  ELSE 0

search_direction ==
  IF Cardinality(Answers) = 1 THEN CHOOSE v \in Answers : TRUE
  ELSE IF id_bit_number < LastDiscrepancy THEN ROM_NO[id_bit_number]
  ELSE IF id_bit_number = LastDiscrepancy THEN 1 ELSE 0

SearchBit ==
  /\ id_bit_number \in Bit /\ selected # {}
  /\ last_zero' = IF Cardinality(Answers) = 2 /\ search_direction = 0
                  THEN id_bit_number ELSE last_zero
  /\ ROM_NO' = [ROM_NO EXCEPT ![id_bit_number] = search_direction]
  /\ selected' = {a \in selected : a[id_bit_number] = search_direction}
  /\ id_bit_number' = id_bit_number + 1
  /\ UNCHANGED <<bus, LastDiscrepancy, LastDeviceFlag, ghosts, changes>>

\* "no devices on 1-wire"
SearchLost ==
  /\ id_bit_number \in Bit /\ selected = {}
  /\ NotFound("lost")
  /\ UNCHANGED <<bus, ROM_NO, last_zero, selected, found, stayed, target, left, changes>>

\* The address is in newAddr.
SearchFinds ==
  /\ id_bit_number = Bits + 1
  /\ LastDiscrepancy' = last_zero /\ LastDeviceFlag' = (last_zero = 0)
  /\ id_bit_number' = 0 /\ selected' = {}
  /\ result' = "found" /\ found' = found \cup {ROM_NO}
  /\ UNCHANGED <<bus, ROM_NO, last_zero, stayed, target, left, changes>>

\* A device comes; it takes part in the next call.
Attach(a) ==
  /\ changes < MaxChanges /\ changes' = changes + 1
  /\ a \notin bus /\ bus' = bus \cup {a}
  /\ UNCHANGED <<search_, ghosts>>

Detach(a) ==
  /\ changes < MaxChanges /\ changes' = changes + 1
  /\ a \in bus /\ bus' = bus \ {a} /\ left' = TRUE
  /\ selected' = selected \ {a} /\ stayed' = stayed \ {a}
  /\ UNCHANGED <<ROM_NO, LastDiscrepancy, LastDeviceFlag, id_bit_number, last_zero,
                 result, found, target>>

Next ==
  \/ reset_search \/ \E a \in Device : target_search(family(a))
  \/ SearchBegins \/ SearchBit \/ SearchLost \/ SearchFinds \/ SearchEnds
  \/ \E a \in Device : Attach(a) \/ Detach(a)

Spec == Init /\ [][Next]_vars

-----------------------------------------------------------------------------
(* Properties *)

\* search: an enumeration that comes to its end, and was not begun at a
\* family, has found every device that was on the bus all the time, whatever
\* devices have come; but not if one has left: see the README.
AllFound ==
  result = "end" /\ target = NoFamily /\ ~left /\ id_bit_number = 0 => stayed \subseteq found

\* search: no device is found twice, though devices come.
FoundOnce == [][SearchFinds => (~left => ROM_NO \notin found)]_vars

\* target_search: "find the device type 'family_code' on the next call to
\* search() if it is present", whatever other devices do.
TargetFound ==
  [][SearchFinds /\ found = {} /\ target \in {family(a) : a \in stayed}
       => family(ROM_NO) = target]_vars

SearchOK == []AllFound /\ FoundOnce /\ TargetFound
=============================================================================
