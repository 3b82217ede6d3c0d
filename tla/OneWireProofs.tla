---------------------------- MODULE OneWireProofs ----------------------------
(***************************************************************************)
(* Proofs about OneWire: an enumeration finds every device, none twice,    *)
(* for every length of an address and every number of devices that are     *)
(* there or come, as long as none leaves; and target_search() finds the    *)
(* family even then.  Addresses are compared by the first bit at which     *)
(* they differ: the search goes up.                                        *)
(***************************************************************************)
EXTENDS OneWire, FiniteSetTheorems, TLAPS

\* Below bit n the address a is that of ROM_NO.
Agree(a, n) == \A b \in Bit : b < n => a[b] = ROM_NO[b]

\* a leaves ROM_NO at q, on the side the search comes to later, or earlier.
Ahead(a, q)  == q \in Bit /\ a[q] = 1 /\ ROM_NO[q] = 0 /\ Agree(a, q)
Behind(a, q) == q \in Bit /\ a[q] = 0 /\ ROM_NO[q] = 1 /\ Agree(a, q)

\* Who answers, or will when the next call begins.
Answering == IF id_bit_number = 0 THEN bus ELSE selected

\* The bookkeeping of search(), whatever devices do.
WalkOK ==
  /\ stayed \subseteq bus /\ selected \subseteq bus
  /\ \A a \in selected : Agree(a, id_bit_number)
  /\ id_bit_number = Bits + 1 => ROM_NO \in Device
  /\ id_bit_number # 0 => last_zero < id_bit_number /\ ~LastDeviceFlag
  /\ LastDeviceFlag => LastDiscrepancy = 0 /\ found # {}
  /\ result = "found" => found # {}
  /\ result \in {"end", "lost"} /\ id_bit_number = 0 => LastDiscrepancy = 0 /\ ~LastDeviceFlag
  /\ found # {} /\ LastDiscrepancy = 0 =>
       id_bit_number = 0 /\ (LastDeviceFlag \/ result \in {"end", "lost"})
  /\ target = NoFamily /\ found = {} => LastDiscrepancy = 0

\* When no device has left, the devices that were always there answer as far
\* as they agree, and the way that is left for the next call leads to one.
QuietOK ==
  ~left =>
    /\ id_bit_number # 0 => /\ selected # {}
                            /\ \A a \in stayed : Agree(a, id_bit_number) => a \in selected
                            /\ last_zero > 0 => \E y \in bus : Ahead(y, last_zero)
    /\ found # {} /\ LastDiscrepancy > 0 /\ id_bit_number <= LastDiscrepancy =>
         ROM_NO \in Answering /\ \E y \in Answering : Ahead(y, LastDiscrepancy)

\* What has been found lies behind.
BehindOK ==
  ~left => \A f \in found :
    IF id_bit_number <= LastDiscrepancy \/ id_bit_number = 0
    THEN f = ROM_NO \/ \E q \in Bit : Behind(f, q)
    ELSE \E q \in Bit : q <= LastDiscrepancy /\ Behind(f, q)

\* What has not been found lies ahead, where the search will turn.
MissingOK ==
  ~left /\ target = NoFamily => \A a \in stayed \ found :
    IF id_bit_number = 0
    THEN \/ result = "lost"
         \/ result # "end" /\ found = {}
         \/ result # "end" /\ \E q \in Bit : q <= LastDiscrepancy /\ Ahead(a, q)
    ELSE \/ \E q \in Bit : q <= last_zero /\ Ahead(a, q)
         \/ /\ Agree(a, id_bit_number)
            /\ id_bit_number <= LastDiscrepancy =>
                 \E q \in Bit : q <= LastDiscrepancy /\ q >= id_bit_number /\ Ahead(a, q)

\* The search that begins at a family keeps to it while a device of it stays.
TargetOK ==
  /\ target # NoFamily /\ found = {} /\ (id_bit_number # 0 \/ result = "none")
  /\ target \in {family(a) : a \in stayed}
  => /\ LastDiscrepancy = Bits
     /\ \A b \in 1 .. FamilyBits : ROM_NO[b] = target[b]
     /\ id_bit_number # 0 /\ id_bit_number <= FamilyBits =>
          \A a \in stayed : family(a) = target => a \in selected

IInv == TypeOK /\ WalkOK /\ QuietOK /\ BehindOK /\ MissingOK /\ TargetOK

-----------------------------------------------------------------------------
(* The constants and one bit of the search *)

LEMMA BitsFacts ==
  ASSUME ConstantsOK
  PROVE  /\ Bits \in Nat /\ FamilyBits \in Nat /\ MaxChanges \in Nat
         /\ FamilyBits >= 1 /\ FamilyBits < Bits
         /\ Bit \subseteq Nat /\ \A b \in Bit : b >= 1 /\ b <= Bits
         /\ \A b \in Nat : b >= 1 /\ b <= Bits => b \in Bit
  BY DEF ConstantsOK, Bit

\* Some devices answer 0 and some 1.
Both == \E a, b \in selected : a[id_bit_number] = 0 /\ b[id_bit_number] = 1

\* What the read of a bit and its complement tells is what the devices answer.
LEMMA AnswersTell ==
  ASSUME ConstantsOK, TypeOK, id_bit_number \in Bit, selected # {}
  PROVE  /\ Both => Answers = {0, 1} /\ Cardinality(Answers) = 2
         /\ ~Both => \E v \in {0, 1} : Answers = {v} /\ Cardinality(Answers) = 1
  <1>1. Answers \subseteq {0, 1} /\ Answers # {}
    <2>1. \A a \in selected : a[id_bit_number] \in {0, 1}
      BY DEF TypeOK, Device, Address
    <2> QED BY <2>1 DEF Answers
  <1>2. \A v : v \in Answers <=> \E a \in selected : a[id_bit_number] = v
    BY DEF Answers
  <1>3. Both <=> 0 \in Answers /\ 1 \in Answers
    BY <1>2 DEF Both
  <1>4. Cardinality({0}) = 1 /\ Cardinality({1}) = 1
    BY FS_Singleton
  <1>5. Cardinality({0, 1}) = 2
    <2>1. IsFiniteSet({0}) /\ Cardinality({0}) = 1
      BY FS_Singleton
    <2>2. Cardinality({0} \cup {1}) = 2
      <3>1. 1 \notin {0}
        OBVIOUS
      <3>2. Cardinality({0} \cup {1}) = Cardinality({0}) + 1
        BY <2>1, <3>1, FS_AddElement
      <3> QED BY <2>1, <3>2
    <2>3. {0} \cup {1} = {0, 1}
      OBVIOUS
    <2> QED BY <2>2, <2>3
  <1>6. CASE Both
    <2>1. Answers = {0, 1}
      BY <1>1, <1>3, <1>6
    <2> QED BY <1>5, <1>6, <2>1
  <1>7. CASE ~Both
    <2>1. Answers = {0} \/ Answers = {1}
      BY <1>1, <1>3, <1>7
    <2> QED BY <1>4, <1>7, <2>1
  <1> QED BY <1>6, <1>7

\* The direction is one a device answers, that of ROM_NO below the last
\* discrepancy and 1 at it, where there is a choice.
LEMMA DirectionFacts ==
  ASSUME ConstantsOK, TypeOK, id_bit_number \in Bit, selected # {}
  PROVE  /\ search_direction \in {0, 1}
         /\ \E a \in selected : a[id_bit_number] = search_direction
         /\ ~Both => \A a \in selected : a[id_bit_number] = search_direction
         /\ Both /\ id_bit_number < LastDiscrepancy => search_direction = ROM_NO[id_bit_number]
         /\ Both /\ id_bit_number = LastDiscrepancy => search_direction = 1
         /\ Both /\ id_bit_number > LastDiscrepancy => search_direction = 0
         /\ Cardinality(Answers) = 2 <=> Both
  <1>1. ROM_NO[id_bit_number] \in {0, 1}
    BY DEF TypeOK, Address
  <1>2. \A v : v \in Answers <=> \E a \in selected : a[id_bit_number] = v
    BY DEF Answers
  <1>3. CASE Both
    <2>1. Answers = {0, 1} /\ Cardinality(Answers) = 2
      BY <1>3, AnswersTell
    <2>2. search_direction = IF id_bit_number < LastDiscrepancy THEN ROM_NO[id_bit_number]
                             ELSE IF id_bit_number = LastDiscrepancy THEN 1 ELSE 0
      BY <2>1 DEF search_direction
    <2>3. id_bit_number \in Nat /\ LastDiscrepancy \in Nat
      BY BitsFacts DEF TypeOK
    <2>4. search_direction \in Answers
      BY <1>1, <2>1, <2>2
    <2> QED BY <1>1, <1>2, <1>3, <2>1, <2>2, <2>3, <2>4
  <1>4. CASE ~Both
    <2>1. PICK v \in {0, 1} : Answers = {v} /\ Cardinality(Answers) = 1
      BY <1>4, AnswersTell
    <2>2. search_direction = v
      BY <2>1 DEF search_direction
    <2> QED BY <1>2, <1>4, <2>1, <2>2
  <1> QED BY <1>3, <1>4

\* One bit: what changes, for those who look at it from outside.
LEMMA BitStep ==
  ASSUME ConstantsOK, TypeOK, SearchBit
  PROVE  /\ id_bit_number \in Bit /\ id_bit_number' = id_bit_number + 1
         /\ ROM_NO'[id_bit_number] \in {0, 1} /\ ROM_NO' \in Address
         /\ \A b \in Bit : b # id_bit_number => ROM_NO'[b] = ROM_NO[b]
         /\ \A a \in selected : a \in selected' <=> a[id_bit_number] = ROM_NO'[id_bit_number]
         /\ selected' \subseteq selected /\ selected' # {}
         /\ ~Both => selected' = selected /\ last_zero' = last_zero
         /\ Both /\ id_bit_number < LastDiscrepancy =>
              ROM_NO'[id_bit_number] = ROM_NO[id_bit_number]
         /\ Both /\ id_bit_number = LastDiscrepancy => ROM_NO'[id_bit_number] = 1
         /\ Both /\ id_bit_number > LastDiscrepancy => ROM_NO'[id_bit_number] = 0
         /\ last_zero' = IF Both /\ ROM_NO'[id_bit_number] = 0 THEN id_bit_number ELSE last_zero
         /\ UNCHANGED <<bus, LastDiscrepancy, LastDeviceFlag, ghosts, changes>>
  <1>1. id_bit_number \in Bit /\ selected # {}
    BY DEF SearchBit
  <1>2. ROM_NO \in [Bit -> {0, 1}]
    BY DEF TypeOK, Address
  <1>3. ROM_NO' = [ROM_NO EXCEPT ![id_bit_number] = search_direction]
    BY DEF SearchBit
  <1>4. search_direction \in {0, 1}
    BY <1>1, DirectionFacts
  <1>5. ROM_NO'[id_bit_number] = search_direction /\ ROM_NO' \in Address
    BY <1>1, <1>2, <1>3, <1>4 DEF Address
  <1>6. \A b \in Bit : b # id_bit_number => ROM_NO'[b] = ROM_NO[b]
    BY <1>1, <1>2, <1>3
  <1>7. selected' = {a \in selected : a[id_bit_number] = search_direction}
    BY DEF SearchBit
  <1>8. selected' \subseteq selected /\ selected' # {}
        /\ \A a \in selected : a \in selected' <=> a[id_bit_number] = ROM_NO'[id_bit_number]
    <2>1. \E a \in selected : a[id_bit_number] = search_direction
      BY <1>1, DirectionFacts
    <2> QED BY <1>5, <1>7, <2>1
  <1>9. last_zero' = IF Both /\ ROM_NO'[id_bit_number] = 0 THEN id_bit_number ELSE last_zero
    <2>1. Cardinality(Answers) = 2 <=> Both
      BY <1>1, DirectionFacts
    <2>2. last_zero' = IF Cardinality(Answers) = 2 /\ search_direction = 0
                       THEN id_bit_number ELSE last_zero
      BY DEF SearchBit
    <2> QED BY <1>5, <2>1, <2>2
  <1>10. ~Both => selected' = selected /\ last_zero' = last_zero
    <2>1. ~Both => \A a \in selected : a[id_bit_number] = search_direction
      BY <1>1, DirectionFacts
    <2> QED BY <1>7, <1>9, <2>1
  <1>11. /\ Both /\ id_bit_number < LastDiscrepancy =>
              ROM_NO'[id_bit_number] = ROM_NO[id_bit_number]
         /\ Both /\ id_bit_number = LastDiscrepancy => ROM_NO'[id_bit_number] = 1
         /\ Both /\ id_bit_number > LastDiscrepancy => ROM_NO'[id_bit_number] = 0
    BY <1>1, <1>5, DirectionFacts
  <1>12. /\ id_bit_number' = id_bit_number + 1
         /\ UNCHANGED <<bus, LastDiscrepancy, LastDeviceFlag, ghosts, changes>>
    BY DEF SearchBit
  <1> QED BY <1>1, <1>4, <1>5, <1>6, <1>8, <1>9, <1>10, <1>11, <1>12

-----------------------------------------------------------------------------
(* Types *)

LEMMA ZeroFacts ==
  ASSUME ConstantsOK
  PROVE  /\ Zero \in Address /\ NoFamily \in {family(a) : a \in Address}
         /\ \A f \in {family(a) : a \in Address} :
              [b \in Bit |-> IF b <= FamilyBits THEN f[b] ELSE 0] \in Address
  <1>1. Zero \in Address
    BY DEF Zero, Address
  <1>2. ASSUME NEW a \in Address
        PROVE  [b \in Bit |-> IF b <= FamilyBits THEN family(a)[b] ELSE 0] \in Address
    <2>1. \A b \in Bit : b <= FamilyBits => b \in 1 .. FamilyBits
      BY BitsFacts
    <2>2. \A b \in 1 .. FamilyBits : b \in Bit
      BY BitsFacts
    <2>3. \A b \in Bit : b <= FamilyBits => family(a)[b] \in {0, 1}
      BY <2>1, <2>2 DEF family, Address
    <2> QED BY <2>3 DEF Address
  <1> QED BY <1>1, <1>2 DEF NoFamily

LEMMA RangeFacts ==
  ASSUME ConstantsOK
  PROVE  /\ 0 \in 0 .. Bits /\ Bits \in 0 .. Bits /\ 0 \in 0 .. MaxChanges
         /\ 0 \in 0 .. Bits + 1 /\ 1 \in 0 .. Bits + 1
  BY BitsFacts

LEMMA TypeInit == ASSUME ConstantsOK, Init PROVE TypeOK
  <1>1. bus \subseteq Device
    BY DEF Init
  <1> QED BY <1>1, ZeroFacts, RangeFacts DEF Init, TypeOK

LEMMA TypeSearchBit == ASSUME ConstantsOK, TypeOK, SearchBit PROVE TypeOK'
  <1>1. id_bit_number \in Bit /\ id_bit_number' = id_bit_number + 1 /\ ROM_NO' \in Address
        /\ selected' \subseteq selected
    BY BitStep
  <1>2. last_zero' = id_bit_number \/ last_zero' = last_zero
    BY BitStep
  <1>3. id_bit_number \in Nat /\ id_bit_number >= 1 /\ id_bit_number <= Bits /\ Bits \in Nat
    BY <1>1, BitsFacts
  <1>4. id_bit_number' \in 0 .. Bits + 1
    BY <1>1, <1>3
  <1>5. last_zero' \in 0 .. Bits
    BY <1>2, <1>3 DEF TypeOK
  <1>6. UNCHANGED <<bus, LastDiscrepancy, LastDeviceFlag, ghosts, changes>>
    BY BitStep
  <1>7. UNCHANGED <<bus, LastDiscrepancy, LastDeviceFlag, result, found, stayed, target, left,
                    changes>>
    BY <1>6 DEF ghosts
  <1> QED BY <1>1, <1>4, <1>5, <1>7 DEF TypeOK

LEMMA TypeStep == ASSUME ConstantsOK, TypeOK, WalkOK, [Next]_vars PROVE TypeOK'
  <1>1. CASE reset_search
    BY <1>1, ZeroFacts, RangeFacts DEF reset_search, Anew, TypeOK
  <1>2. ASSUME NEW a \in Device, target_search(family(a)) PROVE TypeOK'
    <2>1. family(a) \in {family(x) : x \in Address}
      BY DEF Device
    <2> QED BY <1>2, <2>1, ZeroFacts, RangeFacts DEF target_search, Anew, TypeOK
  <1>3. CASE SearchBegins
    BY <1>3, RangeFacts, ZeroFacts DEF SearchBegins, Anew, TypeOK
  <1>4. CASE SearchBit
    BY <1>4, TypeSearchBit
  <1>5. CASE SearchLost
    BY <1>5, RangeFacts DEF SearchLost, NotFound, TypeOK
  <1>6. CASE SearchFinds
    <2>1. ROM_NO \in Device
      BY <1>6 DEF SearchFinds, WalkOK
    <2> QED BY <1>6, <2>1, RangeFacts DEF SearchFinds, TypeOK
  <1>7. CASE SearchEnds
    BY <1>7, RangeFacts DEF SearchEnds, NotFound, TypeOK
  <1>8. ASSUME NEW a \in Device, Attach(a) PROVE TypeOK'
    <2>1. changes' \in 0 .. MaxChanges
      BY <1>8, BitsFacts DEF Attach, TypeOK
    <2> QED BY <1>8, <2>1 DEF Attach, TypeOK, search_, ghosts
  <1>9. ASSUME NEW a \in Device, Detach(a) PROVE TypeOK'
    <2>1. changes' \in 0 .. MaxChanges
      BY <1>9, BitsFacts DEF Detach, TypeOK
    <2> QED BY <1>9, <2>1 DEF Detach, TypeOK
  <1>10. CASE UNCHANGED vars
    BY <1>10 DEF vars, search_, ghosts, TypeOK
  <1> QED BY <1>1, <1>2, <1>3, <1>4, <1>5, <1>6, <1>7, <1>8, <1>9, <1>10 DEF Next

-----------------------------------------------------------------------------
(* The bookkeeping *)

LEMMA AgreeStep ==
  ASSUME ConstantsOK, TypeOK, WalkOK, SearchBit, NEW a, Agree(a, id_bit_number),
         a[id_bit_number] = ROM_NO'[id_bit_number]
  PROVE  Agree(a, id_bit_number)'
  <1>1. /\ id_bit_number \in Nat /\ id_bit_number' = id_bit_number + 1
        /\ \A b \in Bit : b # id_bit_number => ROM_NO'[b] = ROM_NO[b]
    BY BitStep, BitsFacts
  <1>2. SUFFICES ASSUME NEW b \in Bit, b < id_bit_number + 1
                 PROVE  a[b] = ROM_NO'[b]
    BY <1>1 DEF Agree
  <1>3. b < id_bit_number \/ b = id_bit_number
    BY <1>1, <1>2, BitsFacts
  <1>4. CASE b < id_bit_number
    BY <1>1, <1>4, BitsFacts DEF Agree
  <1> QED BY <1>3, <1>4

\* An address that agrees on every bit is the one in ROM_NO.
LEMMA AgreeAll ==
  ASSUME ConstantsOK, TypeOK, NEW a \in Device, Agree(a, Bits + 1)
  PROVE  a = ROM_NO
  <1>1. \A b \in Bit : a[b] = ROM_NO[b]
    BY BitsFacts DEF Agree
  <1>2. a \in [Bit -> {0, 1}] /\ ROM_NO \in [Bit -> {0, 1}]
    BY DEF TypeOK, Device, Address
  <1> QED BY <1>1, <1>2

LEMMA WalkSearchBit == ASSUME ConstantsOK, TypeOK, WalkOK, SearchBit PROVE WalkOK'
  <1>1. id_bit_number \in Nat /\ id_bit_number >= 1 /\ id_bit_number' = id_bit_number + 1
    BY BitStep, BitsFacts
  <1>2. UNCHANGED <<bus, LastDiscrepancy, LastDeviceFlag, result, found, stayed, target, left>>
    BY BitStep DEF ghosts
  <1>3. selected' \subseteq selected /\ selected' # {}
    BY BitStep
  <1>4. \A a \in selected' : Agree(a, id_bit_number)'
    <2>1. TAKE a \in selected'
    <2>2. a \in selected /\ a[id_bit_number] = ROM_NO'[id_bit_number]
      BY <1>3, BitStep
    <2>3. Agree(a, id_bit_number)
      BY <2>2 DEF WalkOK
    <2> QED BY <2>2, <2>3, AgreeStep
  <1>5. id_bit_number' = Bits + 1 => ROM_NO' \in Device
    <2>1. SUFFICES ASSUME id_bit_number' = Bits + 1 PROVE ROM_NO' \in Device
      OBVIOUS
    <2>2. PICK a \in selected' : TRUE
      BY <1>3
    <2>3. a \in Device
      BY <1>3, <2>2 DEF TypeOK
    <2>4. TypeOK' /\ ROM_NO' \in [Bit -> {0, 1}]
      BY TypeSearchBit, BitStep DEF Address
    <2>5. \A b \in Bit : a[b] = ROM_NO'[b]
      BY <1>4, <2>1, <2>2, BitsFacts DEF Agree
    <2>6. a = ROM_NO'
      BY <2>3, <2>4, <2>5 DEF Device, Address
    <2> QED BY <2>3, <2>6
  <1>6. id_bit_number # 0 /\ last_zero \in Nat
    BY <1>1 DEF TypeOK
  <1>7. last_zero' < id_bit_number'
    <2>1. last_zero < id_bit_number
      BY <1>6 DEF WalkOK
    <2>2. last_zero' = id_bit_number \/ last_zero' = last_zero
      BY BitStep
    <2> QED BY <1>1, <1>6, <2>1, <2>2
  <1>8. id_bit_number' # 0
    BY <1>1
  <1> QED BY <1>2, <1>3, <1>4, <1>5, <1>6, <1>7, <1>8 DEF WalkOK

LEMMA WalkInit == ASSUME ConstantsOK, Init PROVE WalkOK
  BY BitsFacts DEF Init, WalkOK

LEMMA WalkStep == ASSUME ConstantsOK, TypeOK, WalkOK, [Next]_vars PROVE WalkOK'
  <1>0. 0 # Bits + 1 /\ 1 # Bits + 1 /\ Bits # 0
    BY BitsFacts
  <1>1. CASE reset_search
    <2>1. \A x \in selected' : Agree(x, id_bit_number)'
      <3>1. id_bit_number' = 0
        BY <1>1 DEF reset_search
      <3> QED BY <3>1, BitsFacts DEF Agree
    <2> QED BY <1>0, <1>1, <2>1 DEF reset_search, Anew, WalkOK
  <1>2. ASSUME NEW a \in Device, target_search(family(a)) PROVE WalkOK'
    <2>1. family(a) # NoFamily
      BY DEF Device
    <2>2. \A x \in selected' : Agree(x, id_bit_number)'
      <3>1. id_bit_number' = 0
        BY <1>2 DEF target_search
      <3> QED BY <3>1, BitsFacts DEF Agree
    <2> QED BY <1>0, <1>2, <2>1, <2>2 DEF target_search, Anew, WalkOK
  <1>3. CASE SearchBegins
    <2>1. \A x \in selected' : Agree(x, id_bit_number)'
      <3>1. id_bit_number' = 1
        BY <1>3 DEF SearchBegins
      <3> QED BY <3>1, BitsFacts DEF Agree
    <2>2. last_zero' < id_bit_number'
      BY <1>3 DEF SearchBegins
    <2>3. id_bit_number = 0 /\ id_bit_number' = 1 /\ ~LastDeviceFlag /\ selected' = bus
          /\ UNCHANGED <<bus, LastDiscrepancy, LastDeviceFlag, result>>
      BY <1>3 DEF SearchBegins
    <2>4. CASE result \in {"end", "lost"}
      <3>1. found' = {} /\ stayed' = bus /\ LastDiscrepancy = 0
        BY <1>3, <2>3, <2>4 DEF SearchBegins, Anew, WalkOK
      <3> QED BY <1>0, <2>1, <2>2, <2>3, <2>4, <3>1 DEF WalkOK
    <2>5. CASE result \notin {"end", "lost"}
      <3>1. UNCHANGED <<found, stayed, target>>
        BY <1>3, <2>5 DEF SearchBegins
      <3> QED BY <1>0, <2>1, <2>2, <2>3, <2>5, <3>1 DEF WalkOK
    <2> QED BY <2>4, <2>5
  <1>4. CASE SearchBit
    BY <1>4, WalkSearchBit
  <1>5. CASE SearchLost \/ SearchEnds
    <2>1. id_bit_number' = 0 /\ LastDiscrepancy' = 0 /\ ~LastDeviceFlag'
          /\ result' \in {"end", "lost"}
          /\ UNCHANGED <<bus, ROM_NO, last_zero, selected, found, stayed, target>>
      BY <1>5 DEF SearchLost, SearchEnds, NotFound
    <2>2. \A x \in selected' : Agree(x, id_bit_number)'
      BY <2>1, BitsFacts DEF Agree
    <2> QED BY <1>0, <2>1, <2>2 DEF WalkOK
  <1>6. CASE SearchFinds
    <2>1. id_bit_number' = 0 /\ selected' = {} /\ found' # {} /\ result' = "found"
          /\ (LastDeviceFlag' <=> LastDiscrepancy' = 0)
          /\ UNCHANGED <<bus, ROM_NO, last_zero, stayed, target>>
      BY <1>6 DEF SearchFinds
    <2> QED BY <1>0, <2>1 DEF WalkOK
  <1>8. ASSUME NEW a \in Device, Attach(a) PROVE WalkOK'
    BY <1>8 DEF Attach, WalkOK, search_, ghosts, Agree
  <1>9. ASSUME NEW a \in Device, Detach(a) PROVE WalkOK'
    BY <1>9 DEF Detach, WalkOK, Agree
  <1>10. CASE UNCHANGED vars
    BY <1>10 DEF vars, search_, ghosts, WalkOK, Agree
  <1> QED BY <1>1, <1>2, <1>3, <1>4, <1>5, <1>6, <1>8, <1>9, <1>10 DEF Next

-----------------------------------------------------------------------------
(* The way of the search, while no device leaves *)

\* What lies below the bit that is set stays as it is.
LEMMA BelowKept ==
  ASSUME ConstantsOK, TypeOK, SearchBit, NEW a
  PROVE  /\ \A q \in Nat : q <= id_bit_number => (Agree(a, q)' <=> Agree(a, q))
         /\ \A q \in Nat : q < id_bit_number => /\ Ahead(a, q)' <=> Ahead(a, q)
                                                /\ Behind(a, q)' <=> Behind(a, q)
  <1>1. id_bit_number \in Nat /\ \A b \in Bit : b < id_bit_number => ROM_NO'[b] = ROM_NO[b]
    <2>1. id_bit_number \in Nat /\ \A b \in Bit : b # id_bit_number => ROM_NO'[b] = ROM_NO[b]
      BY BitStep, BitsFacts
    <2> QED BY <2>1, BitsFacts
  <1>2. ASSUME NEW q \in Nat, q <= id_bit_number PROVE Agree(a, q)' <=> Agree(a, q)
    <2>1. \A b \in Bit : b < q => b < id_bit_number
      BY <1>1, <1>2, BitsFacts
    <2> QED BY <1>1, <2>1 DEF Agree
  <1>3. ASSUME NEW q \in Nat, q < id_bit_number
        PROVE  (Ahead(a, q)' <=> Ahead(a, q)) /\ (Behind(a, q)' <=> Behind(a, q))
    <2>1. Agree(a, q)' <=> Agree(a, q)
      BY <1>1, <1>2, <1>3
    <2> QED BY <1>1, <1>3, <2>1 DEF Ahead, Behind
  <1> QED BY <1>2, <1>3

\* Below the last discrepancy the search goes the way of the last time, if
\* the device that was found then still answers.
LEMMA WayKept ==
  ASSUME ConstantsOK, TypeOK, SearchBit, id_bit_number < LastDiscrepancy, ROM_NO \in selected
  PROVE  ROM_NO' = ROM_NO
  <1>1. /\ id_bit_number \in Bit /\ ROM_NO' \in Address
        /\ \A b \in Bit : b # id_bit_number => ROM_NO'[b] = ROM_NO[b]
    BY BitStep
  <1>2. ROM_NO'[id_bit_number] = ROM_NO[id_bit_number]
    <2>1. CASE Both
      BY <2>1, BitStep
    <2>2. CASE ~Both
      <3>1. ROM_NO \in selected'
        BY <2>2, BitStep
      <3> QED BY <3>1, BitStep
    <2> QED BY <2>1, <2>2
  <1>3. \A b \in Bit : ROM_NO'[b] = ROM_NO[b]
    BY <1>1, <1>2
  <1>4. ROM_NO \in [Bit -> {0, 1}] /\ ROM_NO' \in [Bit -> {0, 1}]
    BY <1>1 DEF TypeOK, Address
  <1> QED BY <1>3, <1>4

LEMMA QuietSearchBit ==
  ASSUME ConstantsOK, TypeOK, WalkOK, QuietOK, SearchBit PROVE QuietOK'
  <1>1. id_bit_number \in Bit /\ id_bit_number \in Nat /\ id_bit_number >= 1
        /\ id_bit_number' = id_bit_number + 1
    BY BitStep, BitsFacts
  <1>2. UNCHANGED <<bus, LastDiscrepancy, LastDeviceFlag, result, found, stayed, target, left>>
    BY BitStep DEF ghosts
  <1>3. SUFFICES ASSUME ~left PROVE
          /\ selected' # {}
          /\ \A a \in stayed : Agree(a, id_bit_number)' => a \in selected'
          /\ last_zero' > 0 => \E y \in bus : Ahead(y, last_zero)'
          /\ found # {} /\ LastDiscrepancy > 0 /\ id_bit_number + 1 <= LastDiscrepancy =>
               ROM_NO' \in selected' /\ \E y \in selected' : Ahead(y, LastDiscrepancy)'
    BY <1>1, <1>2 DEF QuietOK, Answering
  <1>4. /\ \A a \in stayed : Agree(a, id_bit_number) => a \in selected
        /\ last_zero > 0 => \E y \in bus : Ahead(y, last_zero)
    BY <1>1, <1>3 DEF QuietOK
  <1>5. selected' # {}
    BY BitStep
  <1>6. ASSUME NEW a \in stayed, Agree(a, id_bit_number)' PROVE a \in selected'
    <2>1. \A b \in Bit : b < id_bit_number + 1 => a[b] = ROM_NO'[b]
      BY <1>1, <1>6 DEF Agree
    <2>2. a[id_bit_number] = ROM_NO'[id_bit_number]
      BY <1>1, <2>1
    <2>3. Agree(a, id_bit_number)
      <3>1. \A b \in Bit : b < id_bit_number => b < id_bit_number + 1 /\ b # id_bit_number
        BY <1>1, BitsFacts
      <3> QED BY <2>1, <3>1, BitStep DEF Agree
    <2> QED BY <1>4, <2>2, <2>3, BitStep
  <1>7. ASSUME last_zero' > 0 PROVE \E y \in bus : Ahead(y, last_zero)'
    <2>1. CASE Both /\ ROM_NO'[id_bit_number] = 0
      <3>1. last_zero' = id_bit_number
        BY <2>1, BitStep
      <3>2. PICK y \in selected : y[id_bit_number] = 1
        BY <2>1 DEF Both
      <3>3. y \in bus /\ Agree(y, id_bit_number)
        BY <3>2 DEF WalkOK
      <3>4. Agree(y, id_bit_number)' <=> \A b \in Bit : b < id_bit_number + 1 => y[b] = ROM_NO'[b]
        BY <1>1 DEF Agree
      <3>5. \A b \in Bit : b < id_bit_number => y[b] = ROM_NO'[b]
        BY <1>1, <3>3, BitStep, BitsFacts DEF Agree
      <3> QED BY <1>1, <2>1, <3>1, <3>2, <3>3, <3>5 DEF Ahead, Agree
    <2>2. CASE ~(Both /\ ROM_NO'[id_bit_number] = 0)
      <3>1. last_zero' = last_zero
        BY <2>2, BitStep
      <3>2. PICK y \in bus : Ahead(y, last_zero)
        BY <1>4, <1>7, <3>1
      <3>3. last_zero < id_bit_number /\ last_zero \in Nat
        BY <1>1 DEF WalkOK, TypeOK
      <3>4. \A q \in Nat : q < id_bit_number => (Ahead(y, q)' <=> Ahead(y, q))
        BY BelowKept
      <3>5. \A b \in Bit : b < last_zero => b # id_bit_number
        BY <1>1, <3>3, BitsFacts
      <3>6. last_zero # id_bit_number
        BY <1>1, <3>3
      <3> QED BY <3>1, <3>2, <3>5, <3>6, BitStep DEF Ahead, Agree
    <2> QED BY <2>1, <2>2
  <1>8. ASSUME found # {}, LastDiscrepancy > 0, id_bit_number + 1 <= LastDiscrepancy
        PROVE  ROM_NO' \in selected' /\ \E y \in selected' : Ahead(y, LastDiscrepancy)'
    <2>1. id_bit_number < LastDiscrepancy /\ LastDiscrepancy \in Nat
      BY <1>1, <1>8 DEF TypeOK
    <2>2. id_bit_number <= LastDiscrepancy
      BY <1>1, <2>1
    <2>3. ROM_NO \in selected /\ \E y \in selected : Ahead(y, LastDiscrepancy)
      BY <1>1, <1>3, <1>8, <2>2 DEF QuietOK, Answering
    <2>4. ROM_NO' = ROM_NO
      BY <2>1, <2>3, WayKept
    <2>5. PICK y \in selected : Ahead(y, LastDiscrepancy)
      BY <2>3
    <2>6. y[id_bit_number] = ROM_NO[id_bit_number]
      BY <1>1, <2>1, <2>5 DEF Ahead, Agree
    <2>7. y \in selected' /\ ROM_NO \in selected'
      BY <2>3, <2>4, <2>6, BitStep
    <2> QED BY <1>2, <2>4, <2>5, <2>7 DEF Ahead, Agree
  <1> QED BY <1>5, <1>6, <1>7, <1>8

LEMMA QuietStep ==
  ASSUME ConstantsOK, TypeOK, WalkOK, QuietOK, [Next]_vars PROVE QuietOK'
  <1>1. CASE reset_search
    BY <1>1 DEF reset_search, Anew, QuietOK
  <1>2. ASSUME NEW a \in Device, target_search(family(a)) PROVE QuietOK'
    BY <1>2 DEF target_search, Anew, QuietOK
  <1>3. CASE SearchBegins
    <2>1. id_bit_number = 0 /\ id_bit_number' = 1 /\ last_zero' = 0 /\ selected' = bus
          /\ bus # {} /\ stayed \subseteq bus /\ stayed' \subseteq bus
          /\ UNCHANGED <<bus, ROM_NO, LastDiscrepancy>>
      BY <1>3 DEF SearchBegins, Anew, WalkOK
    <2>2. CASE result \in {"end", "lost"}
      <3>1. found' = {}
        BY <1>3, <2>2 DEF SearchBegins, Anew
      <3> QED BY <2>1, <3>1 DEF QuietOK
    <2>3. CASE result \notin {"end", "lost"}
      <3>1. UNCHANGED <<found, left>>
        BY <1>3, <2>3 DEF SearchBegins
      <3>2. ~left /\ found # {} /\ LastDiscrepancy > 0 =>
              ROM_NO \in bus /\ \E y \in bus : Ahead(y, LastDiscrepancy)
        <4>1. LastDiscrepancy > 0 => 0 <= LastDiscrepancy
          BY DEF TypeOK
        <4> QED BY <2>1, <4>1 DEF QuietOK, Answering
      <3>3. \A y : Ahead(y, LastDiscrepancy)' <=> Ahead(y, LastDiscrepancy)
        BY <2>1 DEF Ahead, Agree
      <3> QED BY <2>1, <3>1, <3>2, <3>3 DEF QuietOK, Answering
    <2> QED BY <2>2, <2>3
  <1>4. CASE SearchBit
    BY <1>4, QuietSearchBit
  <1>5. CASE SearchLost \/ SearchEnds
    BY <1>5 DEF SearchLost, SearchEnds, NotFound, QuietOK
  <1>6. CASE SearchFinds
    <2>1. id_bit_number = Bits + 1 /\ id_bit_number' = 0 /\ LastDiscrepancy' = last_zero
          /\ UNCHANGED <<bus, ROM_NO, last_zero, left>>
      BY <1>6 DEF SearchFinds
    <2>2. SUFFICES ASSUME ~left, last_zero > 0
                   PROVE  ROM_NO \in bus /\ \E y \in bus : Ahead(y, last_zero)'
      BY <2>1 DEF QuietOK, Answering, Ahead
    <2>3. id_bit_number # 0
      BY <2>1, BitsFacts
    <2>4. selected # {} /\ \E y \in bus : Ahead(y, last_zero)
      BY <2>2, <2>3 DEF QuietOK
    <2>5. PICK a \in selected : TRUE
      BY <2>4
    <2>6. a \in bus /\ a \in Device /\ Agree(a, Bits + 1)
      BY <2>1, <2>5 DEF WalkOK, TypeOK
    <2>7. a = ROM_NO
      BY <2>6, AgreeAll
    <2> QED BY <2>1, <2>4, <2>6, <2>7 DEF Ahead, Agree
  <1>8. ASSUME NEW a \in Device, Attach(a) PROVE QuietOK'
    <2>1. UNCHANGED <<ROM_NO, LastDiscrepancy, id_bit_number, last_zero, selected, found, stayed,
                      left>>
      BY <1>8 DEF Attach, search_, ghosts
    <2>2. bus \subseteq bus'
      BY <1>8 DEF Attach
    <2> QED BY <2>1, <2>2 DEF QuietOK, Answering, Ahead, Agree
  <1>9. ASSUME NEW a \in Device, Detach(a) PROVE QuietOK'
    BY <1>9 DEF Detach, QuietOK
  <1>10. CASE UNCHANGED vars
    BY <1>10 DEF vars, search_, ghosts, QuietOK, Answering, Ahead, Agree
  <1> QED BY <1>1, <1>2, <1>3, <1>4, <1>5, <1>6, <1>8, <1>9, <1>10 DEF Next

\* Where the way of the last time ends, both answers come and the 1 is taken.
LEMMA TurnTaken ==
  ASSUME ConstantsOK, TypeOK, SearchBit, id_bit_number = LastDiscrepancy, ROM_NO \in selected,
         NEW y \in selected, Ahead(y, LastDiscrepancy)
  PROVE  ROM_NO'[id_bit_number] = 1
  <1>1. Both
    BY DEF Both, Ahead
  <1> QED BY <1>1, BitStep

-----------------------------------------------------------------------------
(* What has been found *)

LEMMA BehindSearchBit ==
  ASSUME ConstantsOK, TypeOK, WalkOK, QuietOK, BehindOK, SearchBit PROVE BehindOK'
  <1>1. id_bit_number \in Bit /\ id_bit_number \in Nat /\ id_bit_number >= 1
        /\ id_bit_number' = id_bit_number + 1 /\ LastDiscrepancy \in Nat
    BY BitStep, BitsFacts DEF TypeOK
  <1>2. UNCHANGED <<LastDiscrepancy, found, left>>
    BY BitStep DEF ghosts
  <1>3. SUFFICES ASSUME ~left, NEW f \in found
                 PROVE  IF id_bit_number' <= LastDiscrepancy
                        THEN f = ROM_NO' \/ \E q \in Bit : Behind(f, q)'
                        ELSE \E q \in Bit : q <= LastDiscrepancy /\ Behind(f, q)'
    BY <1>1, <1>2 DEF BehindOK, Behind, Agree
  <1>4. ASSUME id_bit_number <= LastDiscrepancy
        PROVE  /\ ROM_NO \in selected /\ \E y \in selected : Ahead(y, LastDiscrepancy)
               /\ f = ROM_NO \/ \E q \in Bit : Behind(f, q)
    <2>1. LastDiscrepancy > 0
      BY <1>1, <1>4
    <2> QED BY <1>1, <1>3, <1>4, <2>1 DEF QuietOK, Answering, BehindOK
  <1>5. CASE id_bit_number < LastDiscrepancy
    <2>1. id_bit_number <= LastDiscrepancy /\ id_bit_number' <= LastDiscrepancy
      BY <1>1, <1>5
    <2>2. ROM_NO' = ROM_NO
      BY <1>4, <1>5, <2>1, WayKept
    <2> QED BY <1>4, <2>1, <2>2 DEF Behind, Agree
  <1>6. CASE id_bit_number = LastDiscrepancy
    <2>1. id_bit_number <= LastDiscrepancy /\ ~(id_bit_number' <= LastDiscrepancy)
      BY <1>1, <1>6
    <2>2. PICK y \in selected : Ahead(y, LastDiscrepancy)
      BY <1>4, <2>1
    <2>3. ROM_NO \in selected /\ ROM_NO[id_bit_number] = 0
      BY <1>4, <1>6, <2>1, <2>2 DEF Ahead
    <2>4. ROM_NO'[id_bit_number] = 1
      BY <1>6, <2>2, <2>3, TurnTaken
    <2>5. ASSUME Agree(f, id_bit_number), f[id_bit_number] = 0
          PROVE  \E q \in Bit : q <= LastDiscrepancy /\ Behind(f, q)'
      <3>1. \A b \in Bit : b < id_bit_number => f[b] = ROM_NO'[b]
        BY <1>1, <2>5, BitStep, BitsFacts DEF Agree
      <3>2. PICK n \in Bit : n = id_bit_number
        BY <1>1
      <3>3. n <= LastDiscrepancy /\ f[n] = 0 /\ ROM_NO'[n] = 1
        BY <1>1, <1>6, <2>4, <2>5, <3>2
      <3>4. \A b \in Bit : b < n => f[b] = ROM_NO'[b]
        BY <3>1, <3>2
      <3>5. Behind(f, n)'
        BY <3>3, <3>4 DEF Behind, Agree
      <3> QED BY <3>3, <3>5
    <2>6. CASE f = ROM_NO
      BY <2>3, <2>5, <2>6 DEF Agree
    <2>7. ASSUME NEW q \in Bit, Behind(f, q)
          PROVE  \E p \in Bit : p <= LastDiscrepancy /\ Behind(f, p)'
      <3>1. q \in Nat /\ (q < id_bit_number \/ q = id_bit_number \/ id_bit_number < q)
        BY <1>1, BitsFacts
      <3>2. CASE q < id_bit_number
        <4>1. q <= LastDiscrepancy
          BY <1>1, <1>6, <3>1, <3>2
        <4>2. \A b \in Bit : b < q \/ b = q => b # id_bit_number
          BY <1>1, <3>1, <3>2, BitsFacts
        <4> QED BY <2>7, <4>1, <4>2, BitStep DEF Behind, Agree
      <3>3. CASE q = id_bit_number
        BY <2>3, <2>7, <3>3 DEF Behind
      <3>4. CASE id_bit_number < q
        <4>1. f[id_bit_number] = 0
          BY <1>1, <2>3, <2>7, <3>4 DEF Behind, Agree
        <4>2. \A b \in Bit : b < id_bit_number => b < q
          BY <1>1, <3>1, <3>4, BitsFacts
        <4>3. Agree(f, id_bit_number)
          BY <2>7, <4>2 DEF Behind, Agree
        <4> QED BY <2>5, <4>1, <4>3
      <3> QED BY <3>1, <3>2, <3>3, <3>4
    <2> QED BY <1>4, <2>1, <2>6, <2>7
  <1>7. CASE id_bit_number > LastDiscrepancy
    <2>1. ~(id_bit_number <= LastDiscrepancy) /\ ~(id_bit_number' <= LastDiscrepancy)
          /\ id_bit_number # 0
      BY <1>1, <1>7
    <2>2. PICK q \in Bit : q <= LastDiscrepancy /\ Behind(f, q)
      BY <1>3, <2>1 DEF BehindOK
    <2>3. \A b \in Bit : b < q \/ b = q => b # id_bit_number
      BY <1>1, <1>7, <2>2, BitsFacts
    <2> QED BY <2>1, <2>2, <2>3, BitStep DEF Behind, Agree
  <1> QED BY <1>1, <1>5, <1>6, <1>7

LEMMA BehindStep ==
  ASSUME ConstantsOK, TypeOK, WalkOK, QuietOK, BehindOK, [Next]_vars PROVE BehindOK'
  <1>0. /\ ~(Bits + 1 <= LastDiscrepancy) /\ Bits + 1 # 0
        /\ LastDiscrepancy # 0 => 1 <= LastDiscrepancy
    BY BitsFacts DEF TypeOK
  <1>1. CASE reset_search
    BY <1>1 DEF reset_search, Anew, BehindOK
  <1>2. ASSUME NEW a \in Device, target_search(family(a)) PROVE BehindOK'
    BY <1>2 DEF target_search, Anew, BehindOK
  <1>3. CASE SearchBegins
    <2>1. CASE result \in {"end", "lost"}
      BY <1>3, <2>1 DEF SearchBegins, Anew, BehindOK
    <2>2. CASE result \notin {"end", "lost"}
      <3>1. id_bit_number = 0 /\ id_bit_number' = 1 /\ ~LastDeviceFlag
            /\ UNCHANGED <<ROM_NO, LastDiscrepancy, found, left>>
        BY <1>3, <2>2 DEF SearchBegins
      <3>2. found # {} => LastDiscrepancy # 0
        BY <2>2, <3>1 DEF WalkOK
      <3> QED BY <1>0, <3>1, <3>2 DEF BehindOK, Behind, Agree
    <2> QED BY <2>1, <2>2
  <1>4. CASE SearchBit
    BY <1>4, BehindSearchBit
  <1>5. CASE SearchLost
    <2>1. selected = {} /\ id_bit_number # 0 /\ UNCHANGED left
      BY <1>5, BitsFacts DEF SearchLost
    <2> QED BY <2>1 DEF QuietOK, BehindOK
  <1>6. CASE SearchFinds
    <2>1. id_bit_number = Bits + 1 /\ id_bit_number' = 0 /\ found' = found \cup {ROM_NO}
          /\ UNCHANGED <<ROM_NO, left>>
      BY <1>6 DEF SearchFinds
    <2> QED BY <1>0, <2>1 DEF BehindOK, Behind, Agree
  <1>7. CASE SearchEnds
    BY <1>7 DEF SearchEnds, NotFound, BehindOK, Behind, Agree
  <1>8. ASSUME NEW a \in Device, Attach(a) PROVE BehindOK'
    BY <1>8 DEF Attach, search_, ghosts, BehindOK, Behind, Agree
  <1>9. ASSUME NEW a \in Device, Detach(a) PROVE BehindOK'
    BY <1>9 DEF Detach, BehindOK
  <1>10. CASE UNCHANGED vars
    BY <1>10 DEF vars, search_, ghosts, BehindOK, Behind, Agree
  <1> QED BY <1>1, <1>2, <1>3, <1>4, <1>5, <1>6, <1>7, <1>8, <1>9, <1>10 DEF Next

-----------------------------------------------------------------------------
(* What has not been found *)

LEMMA MissingSearchBit ==
  ASSUME ConstantsOK, TypeOK, WalkOK, QuietOK, MissingOK, SearchBit PROVE MissingOK'
  <1>1. id_bit_number \in Bit /\ id_bit_number \in Nat /\ id_bit_number >= 1
        /\ id_bit_number' = id_bit_number + 1 /\ LastDiscrepancy \in Nat /\ last_zero \in Nat
        /\ id_bit_number # 0 /\ id_bit_number' # 0
    BY BitStep, BitsFacts DEF TypeOK
  <1>2. UNCHANGED <<LastDiscrepancy, result, found, stayed, target, left>>
    BY BitStep DEF ghosts
  <1>3. SUFFICES ASSUME ~left, target = NoFamily, NEW a \in stayed, a \notin found
                 PROVE  \/ \E q \in Bit : q <= last_zero' /\ Ahead(a, q)'
                        \/ /\ Agree(a, id_bit_number)'
                           /\ id_bit_number' <= LastDiscrepancy =>
                                \E q \in Bit : /\ q <= LastDiscrepancy /\ q >= id_bit_number'
                                               /\ Ahead(a, q)'
    BY <1>1, <1>2 DEF MissingOK, Ahead, Agree
  <1>4. /\ last_zero < id_bit_number
        /\ last_zero' = IF Both /\ ROM_NO'[id_bit_number] = 0 THEN id_bit_number ELSE last_zero
    BY <1>1, BitStep DEF WalkOK
  <1>5. CASE \E q \in Bit : q <= last_zero /\ Ahead(a, q)
    <2>1. PICK q \in Bit : q <= last_zero /\ Ahead(a, q)
      BY <1>5
    <2>2. q <= last_zero' /\ \A b \in Bit : b < q \/ b = q => b # id_bit_number
      BY <1>1, <1>4, <2>1, BitsFacts
    <2> QED BY <2>1, <2>2, BitStep DEF Ahead, Agree
  <1>6. CASE ~\E q \in Bit : q <= last_zero /\ Ahead(a, q)
    <2>1. /\ Agree(a, id_bit_number)
          /\ id_bit_number <= LastDiscrepancy =>
               \E q \in Bit : q <= LastDiscrepancy /\ q >= id_bit_number /\ Ahead(a, q)
      BY <1>1, <1>3, <1>6 DEF MissingOK
    <2>2. a \in selected /\ a[id_bit_number] \in {0, 1}
      BY <1>1, <1>3, <2>1 DEF QuietOK, TypeOK, Device, Address
    <2>3. a[id_bit_number] = ROM_NO'[id_bit_number] => Agree(a, id_bit_number)'
      BY <2>1, AgreeStep
    <2>4. ASSUME id_bit_number <= LastDiscrepancy
          PROVE  ROM_NO \in selected /\ \E y \in selected : Ahead(y, LastDiscrepancy)
      <3>1. LastDiscrepancy > 0
        BY <1>1, <2>4
      <3>2. found # {}
        BY <1>3, <3>1 DEF WalkOK
      <3> QED BY <1>1, <1>3, <2>4, <3>1, <3>2 DEF QuietOK, Answering
    <2>5. CASE id_bit_number < LastDiscrepancy
      <3>1. id_bit_number <= LastDiscrepancy
        BY <1>1, <2>5
      <3>2. ROM_NO \in selected /\ ROM_NO' = ROM_NO
        BY <2>4, <2>5, <3>1, WayKept
      <3>3. PICK q \in Bit : q <= LastDiscrepancy /\ q >= id_bit_number /\ Ahead(a, q)
        BY <2>1, <3>1
      <3>4. Ahead(a, q)'
        BY <3>2, <3>3 DEF Ahead, Agree
      <3>5. q \in Nat
        BY BitsFacts
      <3>6. CASE q = id_bit_number
        <4>1. Both /\ ROM_NO'[id_bit_number] = 0
          BY <2>2, <3>2, <3>3, <3>6 DEF Both, Ahead
        <4>2. q <= last_zero'
          BY <1>1, <1>4, <3>6, <4>1
        <4> QED BY <3>4, <4>2
      <3>7. CASE q # id_bit_number
        <4>1. id_bit_number < q /\ q >= id_bit_number'
          BY <1>1, <3>3, <3>5, <3>7
        <4>2. a[id_bit_number] = ROM_NO'[id_bit_number]
          BY <1>1, <3>2, <3>3, <4>1 DEF Ahead, Agree
        <4> QED BY <2>3, <3>3, <3>4, <4>1, <4>2
      <3> QED BY <3>6, <3>7
    <2>6. CASE id_bit_number = LastDiscrepancy
      <3>1. id_bit_number <= LastDiscrepancy /\ ~(id_bit_number' <= LastDiscrepancy)
        BY <1>1, <2>6
      <3>2. ROM_NO'[id_bit_number] = 1
        BY <2>4, <2>6, <3>1, TurnTaken
      <3>3. PICK q \in Bit : q <= LastDiscrepancy /\ q >= id_bit_number /\ Ahead(a, q)
        BY <2>1, <3>1
      <3>4. q = id_bit_number
        BY <1>1, <2>6, <3>3, BitsFacts
      <3>5. a[id_bit_number] = 1
        BY <3>3, <3>4 DEF Ahead
      <3> QED BY <2>3, <3>1, <3>2, <3>5
    <2>7. CASE id_bit_number > LastDiscrepancy
      <3>1. ~(id_bit_number' <= LastDiscrepancy)
        BY <1>1, <2>7
      <3>2. CASE a[id_bit_number] = ROM_NO'[id_bit_number]
        BY <2>3, <3>1, <3>2
      <3>3. CASE a[id_bit_number] # ROM_NO'[id_bit_number]
        <4>1. Both
          BY <2>2, <3>3, BitStep
        <4>2. ROM_NO'[id_bit_number] = 0
          BY <2>7, <4>1, BitStep
        <4>3. PICK n \in Bit : n = id_bit_number
          BY <1>1
        <4>4. a[n] = 1 /\ ROM_NO'[n] = 0 /\ n <= last_zero'
          BY <1>1, <1>4, <2>2, <3>3, <4>1, <4>2, <4>3
        <4>5. \A b \in Bit : b < n => a[b] = ROM_NO'[b]
          BY <1>1, <2>1, <4>3, BitStep, BitsFacts DEF Agree
        <4>6. Ahead(a, n)'
          BY <4>4, <4>5 DEF Ahead, Agree
        <4> QED BY <4>4, <4>6
      <3> QED BY <3>2, <3>3
    <2> QED BY <1>1, <2>5, <2>6, <2>7
  <1> QED BY <1>5, <1>6

LEMMA MissingStep ==
  ASSUME ConstantsOK, TypeOK, WalkOK, QuietOK, MissingOK, [Next]_vars PROVE MissingOK'
  <1>0. Bits + 1 # 0 /\ 1 # 0
    BY BitsFacts
  <1>1. CASE reset_search
    BY <1>1 DEF reset_search, Anew, MissingOK
  <1>2. ASSUME NEW a \in Device, target_search(family(a)) PROVE MissingOK'
    BY <1>2 DEF target_search, Device, MissingOK
  <1>3. CASE SearchBegins
    <2>1. id_bit_number = 0 /\ id_bit_number' = 1 /\ ~LastDeviceFlag
          /\ UNCHANGED <<ROM_NO, LastDiscrepancy>>
      BY <1>3 DEF SearchBegins
    <2>2. \A a : Agree(a, id_bit_number)'
      BY <2>1, BitsFacts DEF Agree
    <2>3. CASE result \in {"end", "lost"}
      <3>1. LastDiscrepancy' = 0
        BY <2>1, <2>3 DEF WalkOK
      <3> QED BY <1>0, <2>1, <2>2, <3>1 DEF MissingOK
    <2>4. CASE result \notin {"end", "lost"}
      <3>1. UNCHANGED <<found, stayed, target, left>>
        BY <1>3, <2>4 DEF SearchBegins
      <3>2. ~(1 <= 0) /\ \A q \in Bit : q >= 1
        BY BitsFacts
      <3>3. target = NoFamily /\ found = {} => LastDiscrepancy = 0
        BY DEF WalkOK
      <3> QED BY <1>0, <2>1, <2>2, <2>4, <3>1, <3>2, <3>3 DEF MissingOK, Ahead, Agree
    <2> QED BY <2>3, <2>4
  <1>4. CASE SearchBit
    BY <1>4, MissingSearchBit
  <1>5. CASE SearchLost
    BY <1>5 DEF SearchLost, NotFound, MissingOK
  <1>6. CASE SearchFinds
    <2>1. id_bit_number = Bits + 1 /\ id_bit_number' = 0 /\ found' = found \cup {ROM_NO}
          /\ result' = "found" /\ LastDiscrepancy' = last_zero
          /\ UNCHANGED <<ROM_NO, stayed, target, left>>
      BY <1>6 DEF SearchFinds
    <2>2. SUFFICES ASSUME ~left, target = NoFamily, NEW a \in stayed, a \notin found, a # ROM_NO
                   PROVE  \E q \in Bit : q <= last_zero /\ Ahead(a, q)
      BY <2>1 DEF MissingOK, Ahead, Agree
    <2>3. a \in Device
      BY DEF TypeOK
    <2>4. ~Agree(a, Bits + 1)
      BY <2>2, <2>3, AgreeAll
    <2> QED BY <1>0, <2>1, <2>2, <2>4 DEF MissingOK
  <1>7. CASE SearchEnds
    <2>1. id_bit_number = 0 /\ id_bit_number' = 0
          /\ result' = (IF LastDeviceFlag THEN "end" ELSE "lost")
          /\ UNCHANGED <<ROM_NO, found, stayed, target, left>>
      BY <1>7 DEF SearchEnds, NotFound
    <2>2. CASE LastDeviceFlag
      <3>1. LastDiscrepancy = 0 /\ found # {} /\ result # "lost"
        BY <2>1, <2>2 DEF WalkOK
      <3>2. \A q \in Bit : ~(q <= 0)
        BY BitsFacts
      <3> QED BY <2>1, <3>1, <3>2 DEF MissingOK
    <2>3. CASE ~LastDeviceFlag
      BY <2>1, <2>3 DEF MissingOK
    <2> QED BY <2>2, <2>3
  <1>8. ASSUME NEW a \in Device, Attach(a) PROVE MissingOK'
    BY <1>8 DEF Attach, search_, ghosts, MissingOK, Ahead, Agree
  <1>9. ASSUME NEW a \in Device, Detach(a) PROVE MissingOK'
    BY <1>9 DEF Detach, MissingOK
  <1>10. CASE UNCHANGED vars
    BY <1>10 DEF vars, search_, ghosts, MissingOK, Ahead, Agree
  <1> QED BY <1>1, <1>2, <1>3, <1>4, <1>5, <1>6, <1>7, <1>8, <1>9, <1>10 DEF Next

-----------------------------------------------------------------------------
(* The family asked for *)

LEMMA TargetSearchBit == ASSUME ConstantsOK, TypeOK, TargetOK, SearchBit PROVE TargetOK'
  <1>1. id_bit_number \in Bit /\ id_bit_number \in Nat /\ id_bit_number # 0
        /\ id_bit_number' = id_bit_number + 1 /\ id_bit_number' # 0
    BY BitStep, BitsFacts
  <1>2. UNCHANGED <<LastDiscrepancy, result, found, stayed, target>>
    BY BitStep DEF ghosts
  <1>3. SUFFICES ASSUME target # NoFamily, found = {}, target \in {family(a) : a \in stayed}
                 PROVE  /\ LastDiscrepancy = Bits
                        /\ \A b \in 1 .. FamilyBits : ROM_NO'[b] = target[b]
                        /\ id_bit_number' <= FamilyBits =>
                             \A a \in stayed : family(a) = target => a \in selected'
    BY <1>1, <1>2 DEF TargetOK
  <1>4. /\ LastDiscrepancy = Bits
        /\ \A b \in 1 .. FamilyBits : ROM_NO[b] = target[b]
        /\ id_bit_number <= FamilyBits => \A a \in stayed : family(a) = target => a \in selected
    BY <1>1, <1>3 DEF TargetOK
  <1>5. \A b \in 1 .. FamilyBits : b \in Bit
    BY BitsFacts
  <1>6. CASE id_bit_number <= FamilyBits
    <2>1. id_bit_number \in 1 .. FamilyBits /\ id_bit_number < LastDiscrepancy
      BY <1>1, <1>4, <1>6, BitsFacts
    <2>2. \A a \in stayed : family(a) = target => a[id_bit_number] = target[id_bit_number]
      BY <2>1 DEF family
    <2>3. PICK x \in stayed : family(x) = target
      BY <1>3
    <2>4. ROM_NO'[id_bit_number] = target[id_bit_number]
      <3>1. CASE Both
        BY <1>4, <2>1, <3>1, BitStep
      <3>2. CASE ~Both
        <4>1. x \in selected /\ x \in selected'
          BY <1>4, <1>6, <2>3, <3>2, BitStep
        <4> QED BY <2>2, <2>3, <4>1, BitStep
      <3> QED BY <3>1, <3>2
    <2> QED BY <1>4, <1>5, <1>6, <2>2, <2>4, BitStep
  <1>7. CASE ~(id_bit_number <= FamilyBits)
    <2>1. ~(id_bit_number' <= FamilyBits) /\ \A b \in 1 .. FamilyBits : b # id_bit_number
      BY <1>1, <1>7, BitsFacts
    <2> QED BY <1>4, <1>5, <2>1, BitStep
  <1> QED BY <1>6, <1>7

LEMMA TargetStep == ASSUME ConstantsOK, TypeOK, WalkOK, TargetOK, [Next]_vars PROVE TargetOK'
  <1>1. CASE reset_search
    BY <1>1 DEF reset_search, TargetOK
  <1>2. ASSUME NEW a \in Device, target_search(family(a)) PROVE TargetOK'
    <2>1. \A b \in 1 .. FamilyBits : b \in Bit /\ b <= FamilyBits
      BY BitsFacts
    <2> QED BY <1>2, <2>1 DEF target_search, TargetOK
  <1>3. CASE SearchBegins
    <2>1. CASE result \in {"end", "lost"}
      BY <1>3, <2>1 DEF SearchBegins, TargetOK
    <2>2. CASE result \notin {"end", "lost"}
      <3>1. result = "none" \/ found # {}
        BY <2>2 DEF TypeOK, WalkOK
      <3>2. stayed \subseteq bus
        BY DEF WalkOK
      <3> QED BY <1>3, <2>2, <3>1, <3>2 DEF SearchBegins, TargetOK
    <2> QED BY <2>1, <2>2
  <1>4. CASE SearchBit
    BY <1>4, TargetSearchBit
  <1>5. CASE SearchLost \/ SearchEnds
    BY <1>5 DEF SearchLost, SearchEnds, NotFound, TargetOK
  <1>6. CASE SearchFinds
    BY <1>6 DEF SearchFinds, TargetOK
  <1>8. ASSUME NEW a \in Device, Attach(a) PROVE TargetOK'
    BY <1>8 DEF Attach, search_, ghosts, TargetOK
  <1>9. ASSUME NEW a \in Device, Detach(a) PROVE TargetOK'
    BY <1>9 DEF Detach, TargetOK
  <1>10. CASE UNCHANGED vars
    BY <1>10 DEF vars, search_, ghosts, TargetOK
  <1> QED BY <1>1, <1>2, <1>3, <1>4, <1>5, <1>6, <1>8, <1>9, <1>10 DEF Next

-----------------------------------------------------------------------------
(* Theorems *)

LEMMA InitIInv == ASSUME ConstantsOK, Init PROVE IInv
  <1>1. QuietOK /\ BehindOK /\ MissingOK /\ TargetOK
    BY DEF Init, QuietOK, BehindOK, MissingOK, TargetOK
  <1> QED BY <1>1, TypeInit, WalkInit DEF IInv

LEMMA StepIInv == ASSUME ConstantsOK, IInv, [Next]_vars PROVE IInv'
  <1>1. TypeOK /\ WalkOK /\ QuietOK /\ BehindOK /\ MissingOK /\ TargetOK
    BY DEF IInv
  <1>2. TypeOK' /\ WalkOK' /\ QuietOK'
    BY <1>1, TypeStep, WalkStep, QuietStep
  <1>3. BehindOK' /\ MissingOK' /\ TargetOK'
    BY <1>1, BehindStep, MissingStep, TargetStep
  <1> QED BY <1>2, <1>3 DEF IInv

\* When the enumeration has ended, nothing that stayed lies ahead.
LEMMA AllFoundHolds == ASSUME IInv PROVE AllFound
  <1>1. SUFFICES ASSUME result = "end", target = NoFamily, ~left, id_bit_number = 0,
                        NEW a \in stayed, a \notin found
                 PROVE  FALSE
    BY DEF AllFound
  <1>2. WalkOK /\ MissingOK
    BY DEF IInv
  <1> QED BY <1>1, <1>2 DEF MissingOK

LEMMA Inductive == ASSUME ConstantsOK PROVE Spec => []IInv
  <1>1. Init => IInv
    BY InitIInv
  <1>2. IInv /\ [Next]_vars => IInv'
    BY StepIInv
  <1> QED BY <1>1, <1>2, PTL DEF Spec

LEMMA FoundOnceStep ==
  ASSUME ConstantsOK, IInv, SearchFinds, ~left PROVE ROM_NO \notin found
  <1>1. ~(id_bit_number <= LastDiscrepancy) /\ id_bit_number # 0
    BY BitsFacts DEF SearchFinds, IInv, TypeOK
  <1> QED BY <1>1 DEF IInv, BehindOK, Behind

LEMMA TargetFoundStep ==
  ASSUME ConstantsOK, IInv, SearchFinds, found = {}, target \in {family(a) : a \in stayed}
  PROVE  family(ROM_NO) = target
  <1>1. PICK a \in stayed : target = family(a)
    OBVIOUS
  <1>2. id_bit_number # 0
    BY BitsFacts DEF SearchFinds
  <1>3. target # NoFamily
    BY <1>1 DEF IInv, TypeOK, Device
  <1>4. \A b \in 1 .. FamilyBits : ROM_NO[b] = target[b]
    BY <1>2, <1>3 DEF IInv, TargetOK
  <1> QED BY <1>1, <1>4 DEF family

\* OneWire: the variables keep to their types.
THEOREM OneWireTypes == ASSUME ConstantsOK PROVE Spec => []TypeOK
  <1>1. IInv => TypeOK
    BY DEF IInv
  <1> QED BY <1>1, Inductive, PTL

\* search() and target_search(), whatever the addresses, whatever devices are
\* there or come: an enumeration during which none leaves ends with every
\* device found that was there, no device is found twice until one leaves, and
\* the family asked for is found while a device of it stays.
THEOREM SearchTheorem == ASSUME ConstantsOK PROVE Spec => SearchOK
  <1>1. IInv => AllFound
    BY AllFoundHolds
  <1>2. IInv /\ [Next]_vars => [SearchFinds => (~left => ROM_NO \notin found)]_vars
    BY FoundOnceStep
  <1>3. IInv /\ [Next]_vars =>
          [SearchFinds /\ found = {} /\ target \in {family(a) : a \in stayed}
             => family(ROM_NO) = target]_vars
    BY TargetFoundStep
  <1>4. Spec => []IInv
    BY Inductive
  <1>5. Spec => [][Next]_vars
    BY PTL DEF Spec
  <1> QED BY <1>1, <1>2, <1>3, <1>4, <1>5, PTL DEF SearchOK, FoundOnce, TargetFound
=============================================================================
