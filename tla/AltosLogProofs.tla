---------------------------- MODULE AltosLogProofs ----------------------------
(***************************************************************************)
(* The logs of a flight computer with any memory, sizes of logs and blocks *)
(* (AltosLog), also as the part of AltosTracker that is no tracker.        *)
(***************************************************************************)
EXTENDS AltosTracker, WellFoundedInduction, TLAPS

(* A slot of which the first block is erased is free to its end.           *)
FreeToEnd(size) ==
  \A slot \in SlotsOf(size) : ao_storage_is_erased(slot * size) =>
    \A b \in slot * size .. (slot + 1) * size - 1 : ao_storage_is_erased(b)

LayoutTypeOK ==
  /\ board \in Boards
  /\ flash = [p \in Positions |-> flash[p]]
  /\ erasing \in [at : Int, first : Nat]
  /\ saved \in Sizes \cup {Lost} /\ flight_log_max \in Sizes

(* Under one layout, every slot is free to its end or listed.              *)
Layouted ==
  /\ layouts = {} => \A p \in Positions : flash[p] = Erased
  /\ \A size \in layouts : layouts = {size} => FreeToEnd(size)

(* A boot that prepares for a flight has its console off.                  *)
Boots ==
  /\ idle => log \notin {"flight", "sensor", "landed"}
  /\ ~idle => console = "none" /\ ~Erasing
  /\ log \notin {"first", "data"}

(* What an erase has come past is erased.                                  *)
EraseEnd == IF console = "zap" THEN Blocks ELSE (target + 1) * flight_log_max

ErasesBack ==
  /\ console \in {"mark", "marked"} => target \in Slots
  /\ Erasing =>
       /\ \/ console = "zap" /\ erasing.first = 0
          \/ /\ console = "erase" /\ target \in Slots
             /\ erasing.first = target * flight_log_max
       /\ erasing.at < EraseEnd
       /\ \A b \in erasing.at + 1 .. EraseEnd - 1 : ao_storage_is_erased(b)

(* The log of a flight has written its slot up to where it is, which is    *)
(* its start before the first record, and what comes after is erased.      *)
Writing(slot) ==
  /\ log # "sensor" => ao_log_current_pos = ao_log_pos(slot)
  /\ ao_log_end_pos = ao_log_pos_block_end(slot)
  /\ ao_log_current_pos \in ao_log_pos(slot) .. ao_log_end_pos
  /\ \A p \in ao_log_pos(slot) .. ao_log_current_pos - 1 : flash[p] # Erased
  /\ OneLayout =>
       \A p \in ao_log_current_pos .. ao_log_end_pos - 1 : flash[p] = Erased

WritesOn ==
  ~idle /\ log \in {"wait", "flight", "sensor"} =>
    \/ ao_log_current_pos = 0 /\ ao_log_end_pos = 0
    \/ \E slot \in Slots : Writing(slot)

(* A log that is to be written has a number, and so has every log.         *)
Numbered ==
  /\ log \in {"place", "wait", "flight"} => ao_flight_number # 0
  /\ \A p \in Positions : flash[p].type = "flight" => flash[p].flight # 0

LogInv ==
  \/ board.tracker
  \/ /\ LayoutTypeOK /\ Layouted /\ Boots
     /\ ErasesBack /\ WritesOn /\ Numbered

-----------------------------------------------------------------------------
(* Arithmetic of slots and blocks.                                         *)
LEMMA Monotonic ==
  ASSUME NEW a \in Int, NEW b \in Int, NEW m \in Nat, a <= b
  PROVE  a * m <= b * m
OBVIOUS

LEMMA SmallerSlot ==
  ASSUME NEW s \in Int, NEW t \in Int, NEW m \in Nat, s * m < (t + 1) * m
  PROVE  s <= t
<1> SUFFICES ASSUME t + 1 <= s PROVE FALSE
  OBVIOUS
<1>1. (t + 1) * m <= s * m
  BY Monotonic
<1> QED
  BY <1>1

(* What is in the part of length m with number s is in no other.           *)
LEMMA PartsApart ==
  ASSUME NEW s \in Int, NEW t \in Int, NEW m \in Nat, NEW x \in Int,
         x \in s * m .. (s + 1) * m - 1, x \in t * m .. (t + 1) * m - 1
  PROVE  s = t
<1>1. s * m < (t + 1) * m /\ t * m < (s + 1) * m
  OBVIOUS
<1> QED
  BY <1>1, SmallerSlot

LEMMA Parts ==
  ASSUME NEW n \in Nat, NEW m \in Nat \ {0}, NEW s \in 0 .. n \div m - 1
  PROVE  (s + 1) * m <= n /\ 0 <= s * m
<1>1. (n \div m) * m <= n
  OBVIOUS
<1>2. (s + 1) * m <= (n \div m) * m
  BY Monotonic
<1> QED
  BY <1>1, <1>2

(* A position of slot s is in a block of slot s.                           *)
LEMMA BlockOfPosition ==
  ASSUME NEW s \in Int, NEW size \in Nat, NEW b \in Int, NEW p \in Int,
         p \in Block(b), p \in s * size * PerBlock .. (s + 1) * size * PerBlock - 1
  PROVE  b \in s * size .. (s + 1) * size - 1
<1> DEFINE low == s * size
           high == (s + 1) * size - 1
<1>1. low \in Int /\ high \in Int /\ PerBlock \in Nat
  BY StorageAssumption
<1> HIDE DEF low, high
<1>2. low * PerBlock < (b + 1) * PerBlock => low <= b
  BY <1>1, SmallerSlot
<1>3. b * PerBlock < (high + 1) * PerBlock => b <= high
  BY <1>1, SmallerSlot
<1>4. /\ b * PerBlock \in Int /\ (b + 1) * PerBlock \in Int
      /\ low * PerBlock \in Int /\ (high + 1) * PerBlock \in Int
  BY <1>1
<1>5. p \in b * PerBlock .. (b + 1) * PerBlock - 1
  BY DEF Block
<1>6. p \in low * PerBlock .. (high + 1) * PerBlock - 1
  BY DEF low, high
<1>7. low <= b /\ b <= high
  BY <1>2, <1>3, <1>4, <1>5, <1>6
<1> QED
  BY <1>1, <1>7 DEF low, high

(* The first position of a slot is in its first block.                     *)
LEMMA FirstPosition ==
  ASSUME NEW b \in Int
  PROVE  b * PerBlock \in Block(b) /\ (b + 1) * PerBlock = b * PerBlock + PerBlock
BY StorageAssumption DEF Block

-----------------------------------------------------------------------------
(* A slot of a memory is in it.                                            *)
LEMMA SlotInMemory ==
  ASSUME board \in Boards, NEW size \in Sizes, NEW slot \in SlotsOf(size)
  PROVE  /\ slot \in Nat /\ size \in Nat \ {0} /\ slot * size \in Nat
         /\ (slot + 1) * size \in Nat /\ (slot + 1) * size = slot * size + size
         /\ (slot + 1) * size <= Blocks
         /\ slot * size * PerBlock \in Nat
         /\ (slot + 1) * size * PerBlock \in Nat
         /\ slot * size * PerBlock < (slot + 1) * size * PerBlock
         /\ (slot + 1) * size * PerBlock <= Blocks * PerBlock
<1>1. Blocks \in Nat /\ size \in Nat \ {0} /\ PerBlock \in Nat \ {0}
  <2>1. PerBlock \in Nat \ {0} /\ board.blocks \in Nat \ {0}
    BY StorageAssumption
  <2>2. size \in Nat \ {0}
    BY ConfigAssumption
  <2> QED
    BY <2>1, <2>2 DEF Blocks
<1>2. slot \in 0 .. Blocks \div size - 1 /\ slot \in Nat
  BY <1>1 DEF SlotsOf
<1>3. (slot + 1) * size <= Blocks /\ 0 <= slot * size
  BY <1>1, <1>2, Parts
<1>4. /\ slot * size \in Nat /\ (slot + 1) * size \in Nat
      /\ (slot + 1) * size = slot * size + size
  BY <1>1, <1>2, <1>3
<1> DEFINE low == slot * size
           high == (slot + 1) * size
<1> HIDE DEF low, high
<1>5. low \in Nat /\ high \in Nat /\ high = low + size /\ high <= Blocks
  BY <1>3, <1>4 DEF low, high
<1>6. (low + 1) * PerBlock <= high * PerBlock
  BY <1>1, <1>5, Monotonic
<1>7. low * PerBlock \in Nat /\ low * PerBlock < (low + 1) * PerBlock
  BY <1>1, <1>5
<1>8. high * PerBlock <= Blocks * PerBlock
  BY <1>1, <1>5, Monotonic
<1>9. high * PerBlock \in Nat /\ Blocks * PerBlock \in Nat
      /\ (low + 1) * PerBlock \in Nat
  BY <1>1, <1>5
<1>10. low * PerBlock < high * PerBlock
  BY <1>6, <1>7, <1>9
<1> QED
  BY <1>1, <1>2, <1>3, <1>4, <1>7, <1>8, <1>9, <1>10 DEF low, high

(* The positions of a block of a slot are among those of the slot.         *)
LEMMA PositionsOfSlot ==
  ASSUME board \in Boards, NEW size \in Sizes, NEW slot \in SlotsOf(size),
         NEW b \in slot * size .. (slot + 1) * size - 1
  PROVE  /\ b \in 0 .. Blocks - 1
         /\ Block(b) \subseteq
              slot * size * PerBlock .. (slot + 1) * size * PerBlock - 1
         /\ Block(b) \subseteq Positions
<1> DEFINE low == slot * size
           high == (slot + 1) * size
<1>1. /\ low \in Nat /\ high \in Nat /\ high <= Blocks /\ Blocks \in Nat
      /\ PerBlock \in Nat \ {0} /\ low * PerBlock \in Nat
      /\ high * PerBlock \in Nat /\ high * PerBlock <= Blocks * PerBlock
      /\ Blocks * PerBlock \in Nat
  <2>1. PerBlock \in Nat \ {0} /\ board.blocks \in Nat \ {0}
    BY StorageAssumption
  <2> QED
    BY <2>1, SlotInMemory DEF Blocks
<1> HIDE DEF low, high
<1>2. b \in Int /\ low <= b /\ b + 1 <= high
  BY <1>1 DEF low, high
<1>3. low * PerBlock <= b * PerBlock /\ (b + 1) * PerBlock <= high * PerBlock
  BY <1>1, <1>2, Monotonic
<1>4. b * PerBlock \in Int /\ (b + 1) * PerBlock \in Int
  BY <1>1, <1>2
<1>5. Block(b) \subseteq low * PerBlock .. high * PerBlock - 1
  BY <1>1, <1>3, <1>4 DEF Block
<1>6. Block(b) \subseteq Positions
  BY <1>1, <1>3, <1>4 DEF Block, Positions
<1> QED
  BY <1>1, <1>2, <1>5, <1>6 DEF low, high

(* Each position of a slot is in a block of the slot.                      *)
LEMMA BlockWith ==
  ASSUME board \in Boards, NEW size \in Sizes, NEW slot \in SlotsOf(size),
         NEW p \in slot * size * PerBlock .. (slot + 1) * size * PerBlock - 1
  PROVE  \E b \in slot * size .. (slot + 1) * size - 1 : p \in Block(b)
<1>1. /\ PerBlock \in Nat \ {0} /\ slot \in Nat /\ size \in Nat
      /\ slot * size * PerBlock \in Nat
  BY StorageAssumption, SlotInMemory
<1>2. p \in Int
  BY <1>1
<1>3. PICK b \in Int : b * PerBlock <= p /\ p < (b + 1) * PerBlock
  <2>1. /\ p \div PerBlock \in Int /\ (p \div PerBlock) * PerBlock <= p
        /\ p < (p \div PerBlock + 1) * PerBlock
    BY <1>1, <1>2
  <2> QED
    BY <2>1
<1>4. p \in Block(b)
  BY <1>1, <1>2, <1>3 DEF Block
<1> QED
  BY <1>1, <1>2, <1>3, <1>4, BlockOfPosition

(* A write into a slot, of which the first position is written then, keeps *)
(* each slot free to its end or listed.                                    *)
LEMMA WriteInSlot ==
  ASSUME LayoutTypeOK, board' = board, NEW size, size = flight_log_max,
         FreeToEnd(size), NEW slot \in Slots,
         NEW c \in ao_log_pos(slot) .. ao_log_pos_block_end(slot) - 1,
         c = ao_log_pos(slot) \/ flash[ao_log_pos(slot)] # Erased,
         NEW x, x # Erased, flash' = [flash EXCEPT ![c] = x]
  PROVE  FreeToEnd(size)'
<1>1. board \in Boards /\ size \in Sizes /\ slot \in SlotsOf(size)
  BY DEF LayoutTypeOK, Slots
<1> SUFFICES ASSUME NEW t \in SlotsOf(size), ao_storage_is_erased(t * size)'
             PROVE  \A b \in t * size .. (t + 1) * size - 1 :
                      ao_storage_is_erased(b)'
  BY DEF FreeToEnd, SlotsOf, Blocks
<1>2. t \in Nat /\ slot \in Nat /\ size \in Nat \ {0}
  BY <1>1, SlotInMemory
<1>3. c \in slot * size * PerBlock .. (slot + 1) * size * PerBlock - 1 /\ c \in Int
  <2>1. slot * size * PerBlock \in Nat /\ (slot + 1) * size * PerBlock \in Nat
    BY <1>1, SlotInMemory
  <2> QED
    BY <2>1 DEF ao_log_pos, ao_log_pos_block_end
<1>4. CASE t = slot
  <2>1. slot * size \in slot * size .. (slot + 1) * size - 1 /\ slot * size \in Int
    BY <1>1, SlotInMemory
  <2>2. /\ slot * size * PerBlock \in Block(slot * size)
        /\ Block(slot * size) \subseteq Positions
    BY <1>1, <2>1, FirstPosition, PositionsOfSlot
  <2>3. flash'[slot * size * PerBlock] = Erased
    BY <1>4, <2>2 DEF ao_storage_is_erased, Block
  <2>4. slot * size * PerBlock \in DOMAIN flash
    BY <2>2 DEF LayoutTypeOK
  <2> QED
    BY <2>3, <2>4 DEF ao_log_pos
<1>5. CASE t # slot
  <2>1. ASSUME NEW b \in t * size .. (t + 1) * size - 1, NEW p \in Block(b)
        PROVE  p # c /\ p \in Positions /\ p \in DOMAIN flash
    <3>1. b \in Int /\ p \in Int
      BY <1>1, SlotInMemory, StorageAssumption DEF Block
    <3>2. p \in t * size * PerBlock .. (t + 1) * size * PerBlock - 1 /\ p \in Positions
      BY <1>1, <2>1, PositionsOfSlot
    <3>3. t * size * PerBlock = t * (size * PerBlock)
          /\ (t + 1) * size * PerBlock = (t + 1) * (size * PerBlock)
          /\ slot * size * PerBlock = slot * (size * PerBlock)
          /\ (slot + 1) * size * PerBlock = (slot + 1) * (size * PerBlock)
          /\ size * PerBlock \in Nat
      BY <1>2, StorageAssumption
    <3>4. p # c
      BY <1>2, <1>3, <1>5, <3>1, <3>2, <3>3, PartsApart
    <3> QED
      BY <3>2, <3>4 DEF LayoutTypeOK
  <2>2. t * size \in t * size .. (t + 1) * size - 1
    BY <1>1, SlotInMemory
  <2>3. ao_storage_is_erased(t * size)
    BY <2>1, <2>2 DEF ao_storage_is_erased, Block
  <2>4. \A b \in t * size .. (t + 1) * size - 1 : ao_storage_is_erased(b)
    BY <1>1, <2>3 DEF FreeToEnd
  <2> QED
    BY <2>1, <2>4 DEF ao_storage_is_erased, Block
<1> QED
  BY <1>4, <1>5

(* Whatever was written or erased under one layout, a slot whose first     *)
(* block is erased is free to its end.                                     *)
LEMMA OneFree ==
  ASSUME LayoutTypeOK, Layouted, layouts \subseteq {flight_log_max}
  PROVE  FreeToEnd(flight_log_max)
<1>1. CASE layouts = {}
  <2>1. ASSUME NEW slot \in SlotsOf(flight_log_max),
               NEW b \in slot * flight_log_max .. (slot + 1) * flight_log_max - 1
        PROVE  Block(b) \subseteq Positions
    BY PositionsOfSlot DEF LayoutTypeOK
  <2> QED
    BY <1>1, <2>1 DEF Layouted, FreeToEnd, ao_storage_is_erased
<1>2. CASE layouts = {flight_log_max}
  BY <1>2 DEF Layouted
<1> QED
  BY <1>1, <1>2

LEMMA BlockInside ==
  ASSUME board \in Boards, NEW b \in 0 .. Blocks - 1
  PROVE  Block(b) \subseteq Positions
<1>1. Blocks \in Nat /\ PerBlock \in Nat /\ b \in Nat /\ b + 1 <= Blocks
  BY StorageAssumption DEF Blocks
<1>2. /\ b * PerBlock \in Nat /\ (b + 1) * PerBlock \in Nat
      /\ Blocks * PerBlock \in Nat
  BY <1>1
<1>3. (b + 1) * PerBlock <= Blocks * PerBlock
  BY <1>1, Monotonic
<1> QED
  BY <1>2, <1>3 DEF Block, Positions

(* An erase stays in the memory.                                           *)
LEMMA ErasesInside ==
  ASSUME LayoutTypeOK, ErasesBack, Erasing
  PROVE  /\ erasing.at .. EraseEnd - 1 \subseteq 0 .. Blocks - 1
         /\ erasing.at \in 0 .. Blocks - 1
         /\ Block(erasing.at) \subseteq Positions
<1>1. /\ Blocks \in Nat /\ erasing.at \in Int /\ erasing.first \in Nat
      /\ erasing.at >= erasing.first /\ erasing.at < EraseEnd
  <2>1. Blocks \in Nat
    BY StorageAssumption DEF Blocks, LayoutTypeOK
  <2> QED
    BY <2>1 DEF LayoutTypeOK, Erasing, ErasesBack
<1>2. EraseEnd \in Int /\ EraseEnd <= Blocks
  <2>1. CASE console = "zap"
    BY <1>1, <2>1 DEF EraseEnd
  <2>2. CASE console = "erase"
    BY <2>2, SlotInMemory DEF EraseEnd, ErasesBack, Slots, LayoutTypeOK
  <2> QED
    BY <2>1, <2>2 DEF ErasesBack
<1>3. /\ erasing.at .. EraseEnd - 1 \subseteq 0 .. Blocks - 1
      /\ erasing.at \in 0 .. Blocks - 1
  BY <1>1, <1>2
<1> QED
  BY <1>3, BlockInside DEF LayoutTypeOK

(* What an erase does to the block it has come to, wholly or in part,      *)
(* keeps each slot free to its end or listed, because it works backwards.  *)
LEMMA EraseInSlot ==
  ASSUME LayoutTypeOK, ErasesBack, Erasing, board' = board,
         NEW size, size = flight_log_max, FreeToEnd(size),
         \A p \in Positions : \/ flash'[p] = flash[p]
                              \/ p \in Block(erasing.at) /\ flash[p] # Erased
  PROVE  FreeToEnd(size)'
<1>1. board \in Boards /\ size \in Sizes
  BY DEF LayoutTypeOK
<1> SUFFICES ASSUME NEW t \in SlotsOf(size), ao_storage_is_erased(t * size)',
                    NEW b \in t * size .. (t + 1) * size - 1,
                    NEW p \in Block(b)
             PROVE  flash'[p] = Erased
  BY DEF FreeToEnd, SlotsOf, Blocks, ao_storage_is_erased, Block
<1> DEFINE at == erasing.at
<1>2. /\ t * size \in t * size .. (t + 1) * size - 1 /\ t * size \in Nat
      /\ (t + 1) * size \in Nat /\ (t + 1) * size <= Blocks /\ t \in Nat
      /\ b \in Int /\ at \in Int /\ PerBlock \in Nat /\ Blocks \in Int
  BY <1>1, SlotInMemory, StorageAssumption DEF Blocks, LayoutTypeOK
<1>3. p \in Positions /\ Block(t * size) \subseteq Positions
  BY <1>1, <1>2, PositionsOfSlot
<1>4. flash[p] = Erased => flash'[p] = Erased
  BY <1>3
<1>5. CASE at = t * size
  <2>1. (t + 1) * size <= EraseEnd
    <3>1. CASE console = "zap"
      BY <1>2, <3>1 DEF EraseEnd
    <3>2. CASE console = "erase"
      <4>1. /\ target \in SlotsOf(size) /\ at >= target * size
            /\ at < (target + 1) * size
        BY <3>2 DEF ErasesBack, EraseEnd, Erasing, Slots
      <4>2. /\ target \in Nat /\ target * size \in Nat
            /\ (target + 1) * size \in Nat /\ size \in Nat
        BY <1>1, <4>1, SlotInMemory
      <4>3. target = t
        BY <1>2, <1>5, <4>1, <4>2, PartsApart
      <4> QED
        BY <1>2, <3>2, <4>3 DEF EraseEnd
    <3> QED
      BY <3>1, <3>2 DEF ErasesBack
  <2>2. EraseEnd \in Int
    <3>1. CASE console = "zap"
      BY <1>2, <3>1 DEF EraseEnd
    <3>2. CASE console = "erase"
      BY <1>1, <3>2, SlotInMemory DEF EraseEnd, ErasesBack, Slots
    <3> QED
      BY <3>1, <3>2 DEF ErasesBack
  <2>3. CASE b = at
    BY <1>5, <2>3 DEF ao_storage_is_erased, Block
  <2>4. CASE b # at
    <3>1. b \in at + 1 .. EraseEnd - 1
      BY <1>2, <1>5, <2>1, <2>2, <2>4
    <3>2. ao_storage_is_erased(b)
      BY <3>1 DEF ErasesBack
    <3> QED
      BY <1>4, <3>2 DEF ao_storage_is_erased
  <2> QED
    BY <2>3, <2>4
<1>6. CASE at # t * size
  <2>1. \A q \in Block(t * size) : q \notin Block(at)
    BY <1>2, <1>6, PartsApart DEF Block
  <2>2. ao_storage_is_erased(t * size)
    BY <1>3, <2>1 DEF ao_storage_is_erased, Block
  <2>3. ao_storage_is_erased(b)
    BY <1>1, <2>2 DEF FreeToEnd
  <2> QED
    BY <1>4, <2>3 DEF ao_storage_is_erased
<1> QED
  BY <1>5, <1>6

-----------------------------------------------------------------------------
(* What is noted of the layouts.                                           *)
LEMMA NoteKeeps ==
  ASSUME LayoutTypeOK, Layouted, NoteLayout, board' = board,
         NEW size, size = flight_log_max,
         flash' = flash \/ (FreeToEnd(size) => FreeToEnd(size)')
  PROVE  Layouted'
<1>1. Positions' = Positions
  BY DEF Positions, Blocks
<1>2. CASE \A q \in Positions : flash'[q] = Erased
  BY <1>1, <1>2 DEF Layouted, NoteLayout
<1>3. CASE /\ ~\A q \in Positions : flash'[q] = Erased
           /\ flash' # flash
  <2>1. layouts' = layouts \cup {size}
    BY <1>3 DEF NoteLayout
  <2>2. SUFFICES ASSUME NEW s \in layouts', layouts' = {s}
                 PROVE  FreeToEnd(s)'
    BY <2>1 DEF Layouted
  <2>3. s = size /\ layouts \subseteq {flight_log_max}
    BY <2>1, <2>2
  <2> QED
    BY <1>3, <2>3, OneFree
<1>4. CASE /\ ~\A q \in Positions : flash'[q] = Erased
           /\ flash' = flash
  <2>1. layouts' = layouts
    BY <1>4 DEF NoteLayout
  <2>2. \A s : FreeToEnd(s)' = FreeToEnd(s)
    BY <1>4 DEF FreeToEnd, SlotsOf, Blocks, ao_storage_is_erased, Block
  <2> QED
    BY <1>1, <1>4, <2>1, <2>2 DEF Layouted
<1> QED
  BY <1>2, <1>3, <1>4

(* While the size of the logs stays, the layouts become one only when      *)
(* everything is erased.                                                   *)
LEMMA NoteOne ==
  ASSUME NoteLayout, board' = board, flight_log_max' = flight_log_max,
         OneLayout'
  PROVE  OneLayout \/ \A q \in Positions : flash'[q] = Erased
BY DEF NoteLayout, OneLayout

LEMMA KeepsWritesOn ==
  ASSUME WritesOn, NoteLayout, flight_log_max' = flight_log_max,
         UNCHANGED <<board, flash, ao_log_current_pos, ao_log_end_pos>>,
         ~idle' /\ log' \in {"wait", "flight", "sensor"} =>
           /\ ~idle /\ log \in {"wait", "flight", "sensor"}
           /\ log = "sensor" => log' = "sensor",
         LayoutTypeOK
  PROVE  WritesOn'
<1> SUFFICES ASSUME ~idle', log' \in {"wait", "flight", "sensor"},
                    ~(ao_log_current_pos = 0 /\ ao_log_end_pos = 0)
             PROVE  \E slot \in Slots' : Writing(slot)'
  BY DEF WritesOn
<1>1. PICK slot \in Slots : Writing(slot)
  BY DEF WritesOn
<1>2. Slots' = Slots
  BY DEF Slots, SlotsOf, Blocks
<1>3. ASSUME OneLayout', NEW p \in ao_log_current_pos .. ao_log_end_pos - 1
      PROVE  flash[p] = Erased
  <2>1. CASE OneLayout
    BY <1>1, <2>1 DEF Writing
  <2>2. CASE \A q \in Positions : flash'[q] = Erased
    <3>1. board \in Boards /\ slot \in SlotsOf(flight_log_max) /\ flight_log_max \in Sizes
      BY DEF LayoutTypeOK, Slots
    <3>2. /\ ao_log_pos(slot) \in Nat /\ ao_log_end_pos \in Nat
          /\ ao_log_end_pos <= Blocks * PerBlock
      BY <1>1, <3>1, SlotInMemory DEF Writing, ao_log_pos, ao_log_pos_block_end
    <3>3. ao_log_current_pos \in Nat
      BY <1>1, <3>2 DEF Writing
    <3>4. Blocks * PerBlock \in Int
      BY <3>1, StorageAssumption DEF Blocks
    <3>5. p \in Positions
      BY <3>2, <3>3, <3>4 DEF Positions
    <3> QED
      BY <2>2, <3>5
  <2> QED
    BY <1>3, <2>1, <2>2, NoteOne
<1>4. Writing(slot)'
  BY <1>1, <1>3 DEF Writing, ao_log_pos, ao_log_pos_block_end
<1> QED
  BY <1>2, <1>4

LEMMA KeepsNumbered ==
  ASSUME Numbered, UNCHANGED <<board, flash>>,
         log' \in {"place", "wait", "flight"} => ao_flight_number' # 0
  PROVE  Numbered'
BY DEF Numbered, Positions, Blocks

(* Where the log of a flight writes.                                       *)
LEMMA WritingAt ==
  ASSUME LayoutTypeOK, WritesOn, Boots, log \in {"flight", "sensor"},
         ao_log_current_pos < ao_log_end_pos
  PROVE  \E slot \in Slots :
           /\ Writing(slot)
           /\ ao_log_pos(slot) \in Nat /\ ao_log_end_pos \in Nat
           /\ ao_log_current_pos \in Positions
           /\ ao_log_current_pos \in ao_log_pos(slot) .. ao_log_pos_block_end(slot) - 1
           /\ \/ ao_log_current_pos = ao_log_pos(slot)
              \/ flash[ao_log_pos(slot)] # Erased
<1>1. PICK slot \in Slots : Writing(slot)
  <2>1. ~idle
    BY DEF Boots
  <2>2. ~(ao_log_current_pos = 0 /\ ao_log_end_pos = 0)
    OBVIOUS
  <2> QED
    BY <2>1, <2>2 DEF WritesOn
<1>2. board \in Boards /\ slot \in SlotsOf(flight_log_max) /\ flight_log_max \in Sizes
  BY DEF LayoutTypeOK, Slots
<1>3. /\ ao_log_pos(slot) \in Nat /\ ao_log_end_pos \in Nat
      /\ ao_log_end_pos <= Blocks * PerBlock
  BY <1>1, <1>2, SlotInMemory DEF Writing, ao_log_pos, ao_log_pos_block_end
<1>4. Blocks * PerBlock \in Int
  BY <1>2, StorageAssumption DEF Blocks
<1>5. /\ ao_log_current_pos \in Nat /\ ao_log_pos(slot) <= ao_log_current_pos
      /\ ao_log_end_pos = ao_log_pos_block_end(slot)
  BY <1>1, <1>3 DEF Writing
<1>6. ao_log_current_pos = ao_log_pos(slot) \/ flash[ao_log_pos(slot)] # Erased
  BY <1>1, <1>3, <1>5 DEF Writing
<1> QED
  BY <1>1, <1>3, <1>4, <1>5, <1>6 DEF Positions

(* A write of the log of a flight, whole or torn.                          *)
LEMMA WriteKeepsLayouted ==
  ASSUME LayoutTypeOK, Layouted, WritesOn, Boots, log \in {"flight", "sensor"},
         ao_log_current_pos < ao_log_end_pos, board' = board, NoteLayout,
         NEW x, x # Erased, flash' = [flash EXCEPT ![ao_log_current_pos] = x]
  PROVE  Layouted'
<1>1. PICK slot \in Slots :
        /\ ao_log_current_pos \in ao_log_pos(slot) .. ao_log_pos_block_end(slot) - 1
        /\ \/ ao_log_current_pos = ao_log_pos(slot)
           \/ flash[ao_log_pos(slot)] # Erased
  BY WritingAt
<1>2. PICK size : size = flight_log_max
  OBVIOUS
<1>3. PICK c : c = ao_log_current_pos
  OBVIOUS
<1>4. FreeToEnd(size) => FreeToEnd(size)'
  BY <1>1, <1>2, <1>3, WriteInSlot
<1> QED
  BY <1>2, <1>4, NoteKeeps

LEMMA LogWrite ==
  ASSUME LayoutTypeOK, Layouted, WritesOn, Boots, Numbered,
         log \in {"flight", "sensor"}, log' = "sensor", NoteLayout,
         UNCHANGED <<board, erasing, saved, flight_log_max, idle>>,
         NEW record, record # Erased,
         record.type = "flight" => record.flight # 0, ao_log_write(record)
  PROVE  LayoutTypeOK' /\ Layouted' /\ WritesOn' /\ Numbered'
<1>1. Positions' = Positions /\ Slots' = Slots
  BY DEF Positions, Slots, SlotsOf, Blocks
<1>2. CASE ~(ao_log_running /\ ao_log_current_pos < ao_log_end_pos)
  <2>1. UNCHANGED <<flash, ao_log_current_pos, ao_log_end_pos>>
    BY <1>2 DEF ao_log_write
  <2>2. ~idle
    BY DEF Boots
  <2> QED
    BY <1>1, <2>1, <2>2, NoteKeeps, KeepsWritesOn, KeepsNumbered
    DEF LayoutTypeOK
<1>3. CASE ao_log_running /\ ao_log_current_pos < ao_log_end_pos
  <2> DEFINE c == ao_log_current_pos
             x == IF flash[c] = Erased THEN record ELSE Torn
  <2>1. /\ flash' = [flash EXCEPT ![c] = x]
        /\ ao_log_current_pos' = c + 1 /\ ao_log_end_pos' = ao_log_end_pos
    BY <1>3 DEF ao_log_write, ao_storage_write
  <2>2. x # Erased /\ (x.type = "flight" => x.flight # 0)
    BY DEF Erased, Torn
  <2> HIDE DEF x
  <2>3. Layouted'
    BY <1>3, <2>1, <2>2, WriteKeepsLayouted
  <2>4. PICK slot \in Slots :
          /\ Writing(slot)
          /\ ao_log_pos(slot) \in Nat /\ ao_log_end_pos \in Nat
          /\ c \in Positions
          /\ c \in ao_log_pos(slot) .. ao_log_pos_block_end(slot) - 1
    BY <1>3, WritingAt
  <2>5. flash = [p \in Positions |-> flash[p]]
    BY DEF LayoutTypeOK
  <2>6. /\ DOMAIN flash' = Positions /\ flash'[c] = x
        /\ \A p \in Positions : p # c => flash'[p] = flash[p]
    BY <2>1, <2>4, <2>5
  <2>7. flash' = [p \in Positions |-> flash'[p]]
    BY <2>1, <2>5, <2>6
  <2>8. LayoutTypeOK'
    BY <1>1, <2>7 DEF LayoutTypeOK
  <2>9. Numbered'
    BY <1>1, <2>2, <2>6 DEF Numbered
  <2>10. c \in Nat /\ c + 1 \in ao_log_pos(slot) .. ao_log_end_pos
    BY <2>4 DEF Writing
  <2>11. \A p \in ao_log_pos(slot) .. c : p \in Positions /\ flash'[p] # Erased
    <3>1. \A p \in ao_log_pos(slot) .. c : p \in Positions
      <4>1. Blocks * PerBlock \in Int
        BY StorageAssumption DEF Blocks, LayoutTypeOK
      <4> QED
        BY <2>4, <2>10, <4>1 DEF Positions
    <3>2. \A p \in ao_log_pos(slot) .. c : p = c \/ p \in ao_log_pos(slot) .. c - 1
      BY <2>4, <2>10
    <3> QED
      BY <2>2, <2>4, <2>6, <3>1, <3>2 DEF Writing
  <2>12. ASSUME OneLayout', NEW p \in c + 1 .. ao_log_end_pos - 1
         PROVE  flash'[p] = Erased
    <3>1. OneLayout
      BY <2>2, <2>4, <2>6, <2>12, NoteOne
    <3>2. p # c /\ p \in c .. ao_log_end_pos - 1
      BY <2>4, <2>10
    <3>3. p \in Positions
      <4>1. board \in Boards /\ slot \in SlotsOf(flight_log_max) /\ flight_log_max \in Sizes
        BY DEF LayoutTypeOK, Slots
      <4>2. ao_log_end_pos <= Blocks * PerBlock
        BY <2>4, <4>1, SlotInMemory DEF Writing, ao_log_pos_block_end
      <4>3. Blocks * PerBlock \in Int
        BY <4>1, StorageAssumption DEF Blocks
      <4> QED
        BY <2>4, <2>10, <4>2, <4>3 DEF Positions
    <3> QED
      BY <2>4, <2>6, <3>1, <3>2, <3>3 DEF Writing
  <2>13. Writing(slot)'
    <3>1. ao_log_pos(slot)' = ao_log_pos(slot)
          /\ ao_log_pos_block_end(slot)' = ao_log_pos_block_end(slot)
      BY DEF ao_log_pos, ao_log_pos_block_end
    <3>2. (c + 1) - 1 = c
      BY <2>10
    <3> QED
      BY <2>1, <2>4, <2>10, <2>11, <2>12, <3>1, <3>2 DEF Writing
  <2> QED
    BY <1>1, <2>3, <2>8, <2>9, <2>13 DEF WritesOn
<1> QED
  BY <1>2, <1>3

-----------------------------------------------------------------------------
(* One lemma for each group of actions; what holds between them:           *)
SlotsInv ==
  /\ LayoutTypeOK /\ Layouted /\ Boots
  /\ ErasesBack /\ WritesOn /\ Numbered

(* A slot that looks free has its first block erased.                      *)
LEMMA FreeIsErased ==
  ASSUME LayoutTypeOK, Numbered, NEW slot \in Free
  PROVE  ao_storage_is_erased(slot * flight_log_max)
<1>1. /\ slot \in SlotsOf(flight_log_max) /\ board \in Boards
      /\ flight_log_max \in Sizes
  BY DEF Free, Slots, LayoutTypeOK
<1>2. /\ slot * flight_log_max \in
           slot * flight_log_max .. (slot + 1) * flight_log_max - 1
      /\ slot * flight_log_max \in Int /\ -(slot + 1) # 0
  BY <1>1, SlotInMemory
<1>3. slot * flight_log_max * PerBlock \in Positions
  BY <1>1, <1>2, PositionsOfSlot, FirstPosition
<1> QED
  BY <1>2, <1>3 DEF Free, ao_log_flight, Numbered, ao_log_pos

LEMMA TaskKeeps ==
  ASSUME SlotsInv, ~board.tracker, LogTaskStep, NoteLayout
  PROVE  SlotsInv'
<1> USE DEF SlotsInv
<1>1. /\ UNCHANGED <<board, erasing, saved, flight_log_max, idle, console, target>>
      /\ log' = "place" => ao_flight_number' # 0
      /\ log' \notin {"marks", "place"} => ao_flight_number' = ao_flight_number
  BY DEF LogTaskStep, ScanFlights, ScanMarks, ScanPlace, ao_log_start, WriteFlight,
    WriteSensor, Landed, configVars, consoleVars, storageVars, FromMarks
<1>2. Positions' = Positions /\ Slots' = Slots /\ Blocks' = Blocks /\ Erasing' = Erasing
      /\ EraseEnd' = EraseEnd
  BY <1>1 DEF Positions, Slots, SlotsOf, Blocks, Erasing, EraseEnd
<1>3. CASE WriteFlight \/ WriteSensor
  <2>1. /\ log \in {"flight", "sensor"} /\ log' = "sensor"
        /\ \E record : /\ record # Erased /\ ao_log_write(record)
                       /\ record.type = "flight" => record.flight # 0
    <3>1. CASE WriteFlight
      BY <3>1 DEF WriteFlight, Flight, Erased, Numbered
    <3>2. CASE WriteSensor
      BY <3>2 DEF WriteSensor, Sensor, Erased
    <3> QED
      BY <1>3, <3>1, <3>2
  <2>2. LayoutTypeOK' /\ Layouted' /\ WritesOn' /\ Numbered'
    BY <1>1, <2>1, LogWrite
  <2>3. Boots' /\ ErasesBack'
    BY <1>1, <1>2, <2>1 DEF Boots, ErasesBack
  <2> QED
    BY <2>2, <2>3
<1>4. CASE ScanFlights \/ ScanMarks \/ ScanPlace \/ ao_log_start \/ Landed
  <2>1. /\ flash' = flash
        /\ \/ log' \in {"marks", "place", "landed"}
           \/ log = "place" /\ log' = "wait"
           \/ ~idle /\ log = "wait" /\ log' = "flight"
        /\ log' = "landed" => log = "sensor"
    BY <1>4 DEF ScanFlights, ScanMarks, ScanPlace, ao_log_start, Landed, storageVars
  <2>2. LayoutTypeOK' /\ Layouted' /\ Boots' /\ ErasesBack'
    BY <1>1, <1>2, <2>1, NoteKeeps
    DEF LayoutTypeOK, Boots, ErasesBack, ao_storage_is_erased, Block
  <2>3. Numbered'
    BY <1>1, <2>1, KeepsNumbered DEF Numbered
  <2>4. WritesOn'
    <3>1. CASE log' # "wait"
      <4>1. CASE log' = "flight"
        <5>1. UNCHANGED <<ao_log_current_pos, ao_log_end_pos>> /\ log = "wait"
          BY <1>4, <4>1 DEF ScanFlights, ScanMarks, ScanPlace, ao_log_start, Landed
        <5> QED
          BY <1>1, <2>1, <5>1, KeepsWritesOn
      <4>2. CASE log' # "flight"
        BY <2>1, <3>1, <4>2 DEF WritesOn
      <4> QED
        BY <4>1, <4>2
    <3>2. CASE log' = "wait"
      <4>1. ScanPlace
        BY <1>4, <3>2 DEF ScanFlights, ScanMarks, ScanPlace, ao_log_start, Landed
      <4>2. CASE ao_log_current_pos' = 0 /\ ao_log_end_pos' = 0
        BY <4>2 DEF WritesOn
      <4>3. ASSUME NEW slot \in Free,
                   ao_log_current_pos' = ao_log_pos(slot),
                   ao_log_end_pos' = ao_log_pos_block_end(slot)
            PROVE  Writing(slot)'
        <5>1. /\ slot \in SlotsOf(flight_log_max) /\ slot \in Slots
              /\ board \in Boards /\ flight_log_max \in Sizes
          BY DEF Free, Slots, LayoutTypeOK
        <5>2. /\ ao_log_pos(slot) \in Nat /\ ao_log_pos_block_end(slot) \in Nat
              /\ ao_log_pos(slot) < ao_log_pos_block_end(slot)
          BY <5>1, SlotInMemory DEF ao_log_pos, ao_log_pos_block_end
        <5>3. ao_storage_is_erased(slot * flight_log_max)
          BY FreeIsErased
        <5>4. ASSUME OneLayout', NEW p \in ao_log_pos(slot) .. ao_log_pos_block_end(slot) - 1
              PROVE  flash[p] = Erased
          <6>1. CASE OneLayout
            <7>1. FreeToEnd(flight_log_max)
              BY <6>1, OneFree DEF OneLayout
            <7>2. PICK b \in slot * flight_log_max .. (slot + 1) * flight_log_max - 1 :
                    p \in Block(b)
              BY <5>1, BlockWith DEF ao_log_pos, ao_log_pos_block_end
            <7> QED
              BY <5>1, <5>3, <7>1, <7>2 DEF FreeToEnd, ao_storage_is_erased
          <6>2. CASE \A q \in Positions : flash'[q] = Erased
            <7>1. Blocks * PerBlock \in Int
              BY <5>1, StorageAssumption DEF Blocks
            <7>2. p \in Positions
              BY <5>1, <5>2, <7>1, SlotInMemory
              DEF Positions, ao_log_pos, ao_log_pos_block_end
            <7> QED
              BY <2>1, <6>2, <7>2
          <6> QED
            BY <1>1, <5>4, <6>1, <6>2, NoteOne
        <5> QED
          BY <1>1, <2>1, <4>3, <5>2, <5>4
          DEF Writing, ao_log_pos, ao_log_pos_block_end
      <4> QED
        BY <1>2, <4>1, <4>2, <4>3 DEF ScanPlace, WritesOn, Free
    <3> QED
      BY <3>1, <3>2
  <2> QED
    BY <2>2, <2>3, <2>4
<1> QED
  BY <1>3, <1>4 DEF LogTaskStep

LEMMA ConsoleKeeps ==
  ASSUME SlotsInv, ~board.tracker, ConsoleStep, NoteLayout
  PROVE  SlotsInv'
<1> USE DEF SlotsInv
<1>1. /\ UNCHANGED <<board, log, idle, ao_log_current_pos, ao_log_end_pos,
                     ao_flight_number>>
      /\ EraseStep \/ flash' = flash
      /\ SetLogSize \/ flight_log_max' = flight_log_max
      /\ saved' \in {saved, Lost, flight_log_max}
  BY DEF ConsoleStep, Delete, DeleteMark, DeleteErase, EraseStep, EraseDone,
    ZapAll, Save, Saved, PutNext, SetLogSize, storageVars, taskVars, configVars,
    ao_log_erase_mark, ao_log_write_erase, PutStep, PutErase, PutConfig, PutMark,
    PutClear
<1>2. Positions' = Positions /\ Blocks' = Blocks
  BY <1>1 DEF Positions, Blocks
<1>3. flight_log_max' \in Sizes
  BY <1>1 DEF SetLogSize, LayoutTypeOK
<1>4. idle => WritesOn'
  BY <1>1 DEF WritesOn
<1>5. CASE EraseStep
  <2>1. idle /\ Erasing /\ UNCHANGED <<flight_log_max, saved, console, target>>
    BY <1>5 DEF EraseStep, EraseBlock, EraseFails, Boots, configVars, consoleVars
  <2>2. \/ flash' = flash
        \/ flash' = [p \in Positions |-> IF p \in Block(erasing.at) THEN Erased
                                         ELSE flash[p]]
    BY <1>5 DEF EraseStep, EraseBlock, EraseFails, ao_storage_device_erase
  <2>3. \A p \in Positions : \/ flash'[p] = flash[p]
                             \/ /\ p \in Block(erasing.at) /\ flash[p] # Erased
                                /\ flash'[p] = Erased
    BY <2>2
  <2>4. /\ \/ erasing' = NotErasing
           \/ erasing' = [at |-> erasing.at - 1, first |-> erasing.first]
        /\ erasing \in [at : Int, first : Nat] /\ erasing.at \in Int
    <3>1. erasing \in [at : Int, first : Nat]
      BY DEF LayoutTypeOK
    <3> QED
      BY <1>5, <3>1 DEF EraseStep, EraseBlock, EraseFails
  <2>5. LayoutTypeOK'
    <3>1. flash' = [p \in Positions |-> flash'[p]]
      BY <2>2 DEF LayoutTypeOK
    <3>2. erasing' \in [at : Int, first : Nat]
      BY <2>4 DEF NotErasing
    <3> QED
      BY <1>1, <1>2, <2>1, <3>1, <3>2 DEF LayoutTypeOK
  <2>6. Layouted'
    <3>1. PICK size : size = flight_log_max
      OBVIOUS
    <3>2. FreeToEnd(size) => FreeToEnd(size)'
      BY <1>1, <2>1, <2>3, <3>1, EraseInSlot
    <3> QED
      BY <1>1, <3>1, <3>2, NoteKeeps
  <2>7. Boots'
    BY <1>1, <2>1 DEF Boots
  <2>8. Numbered'
    BY <1>1, <1>2, <2>3 DEF Numbered, Erased
  <2>9. ErasesBack'
    <3>1. CASE erasing' = NotErasing
      BY <2>1, <3>1 DEF ErasesBack, Erasing, NotErasing, Boots
    <3>2. CASE /\ erasing' # NotErasing
               /\ erasing' = [at |-> erasing.at - 1, first |-> erasing.first]
      <4>1. /\ EraseEnd' = EraseEnd /\ Slots' = Slots
            /\ erasing'.at = erasing.at - 1 /\ erasing'.first = erasing.first
        BY <1>1, <2>1, <3>2 DEF EraseEnd, Slots, SlotsOf, Blocks
      <4>2. EraseEnd \in Int
        <5>1. board \in Boards /\ flight_log_max \in Sizes
          BY DEF LayoutTypeOK
        <5>2. CASE console = "zap"
          BY <5>1, <5>2, StorageAssumption DEF EraseEnd, Blocks
        <5>3. CASE console = "erase"
          BY <2>1, <5>1, <5>3, SlotInMemory DEF EraseEnd, ErasesBack, Slots
        <5> QED
          BY <2>1, <5>2, <5>3 DEF ErasesBack
      <4>3. erasing.at < EraseEnd
        BY <2>1 DEF ErasesBack
      <4>4. /\ erasing'.at < EraseEnd
            /\ \A b \in erasing'.at + 1 .. EraseEnd - 1 :
                 b = erasing.at \/ b \in erasing.at + 1 .. EraseEnd - 1
        BY <2>4, <4>1, <4>2, <4>3
      <4>5. \A p \in Block(erasing.at) : flash'[p] = Erased
        <5>1. EraseBlock
          BY <1>5, <3>2 DEF EraseStep, EraseFails
        <5>2. Block(erasing.at) \subseteq Positions
          BY <2>1, ErasesInside
        <5> QED
          BY <5>1, <5>2 DEF EraseBlock, ao_storage_is_erased, ao_storage_device_erase
      <4> QED
        <5>1. ASSUME NEW b \in erasing.at + 1 .. EraseEnd - 1
              PROVE  ao_storage_is_erased(b)'
          <6>1. ao_storage_is_erased(b)
            BY <2>1 DEF ErasesBack
          <6>2. b \in 0 .. Blocks - 1
            BY <2>1, <2>4, <4>2, ErasesInside
          <6>3. Block(b) \subseteq Positions
            BY <6>2, BlockInside DEF LayoutTypeOK
          <6> QED
            BY <2>3, <6>1, <6>3 DEF ao_storage_is_erased, Block
        <5>2. \A b : b = erasing.at => ao_storage_is_erased(b)'
          BY <4>1, <4>5 DEF ao_storage_is_erased, Block
        <5>3. \A b \in erasing'.at + 1 .. EraseEnd' - 1 : ao_storage_is_erased(b)'
          BY <4>1, <4>4, <5>1, <5>2
        <5>4. /\ UNCHANGED <<console, target, flight_log_max>>
              /\ \/ console = "zap" /\ erasing.first = 0
                 \/ /\ console = "erase" /\ target \in Slots
                    /\ erasing.first = target * flight_log_max
          BY <2>1 DEF ErasesBack
        <5> QED
          BY <4>1, <4>4, <5>3, <5>4 DEF ErasesBack
    <3> QED
      BY <2>4, <3>1, <3>2
  <2> QED
    BY <1>4, <2>1, <2>5, <2>6, <2>7, <2>8, <2>9
<1>6. CASE ~EraseStep
  <2>1. flash' = flash
    BY <1>1, <1>6
  <2>2. Numbered' /\ Layouted'
    BY <1>1, <2>1, NoteKeeps DEF Numbered, Positions, Blocks
  <2>3. WritesOn'
    <3>1. CASE SetLogSize
      BY <1>4, <3>1 DEF SetLogSize, Prompt
    <3>2. CASE ~SetLogSize
      BY <1>1, <2>1, <3>2, KeepsWritesOn
    <3> QED
      BY <3>1, <3>2
  <2>4. /\ Boots' /\ ErasesBack' /\ erasing' \in [at : Int, first : Nat]
    <3>1. CASE \/ Delete \/ DeleteMark \/ EraseDone \/ Save \/ Saved
               \/ PutNext \/ SetLogSize
      <4>1. erasing' = erasing /\ Erasing' = Erasing
        BY <3>1 DEF Delete, DeleteMark, EraseDone, Save, Saved, PutNext,
          SetLogSize, storageVars, Erasing
      <4>2. \/ console' = console /\ target' = target /\ flight_log_max' = flight_log_max
            \/ ~Erasing /\ idle /\ console' \notin {"mark", "marked"}
            \/ ~Erasing /\ idle /\ target' \in Slots'
        <5>1. CASE Delete
          BY <1>1, <5>1 DEF Delete, Prompt, ErasesBack, Slots, SlotsOf, Blocks, configVars
        <5>2. CASE DeleteMark
          BY <1>1, <5>2 DEF DeleteMark, ErasesBack, Slots, SlotsOf, Blocks, Boots,
            ao_log_erase_mark
        <5>3. CASE EraseDone \/ Save \/ SetLogSize
          BY <1>1, <5>3 DEF EraseDone, Save, SetLogSize, Prompt, ErasesBack,
            Boots, consoleVars
        <5>4. CASE Saved
          BY <1>1, <5>4 DEF Saved, ErasesBack, Boots
        <5>5. CASE PutNext
          BY <1>1, <5>5 DEF PutNext, PutStep, consoleVars
        <5> QED
          BY <3>1, <5>1, <5>2, <5>3, <5>4, <5>5
      <4>3. Boots'
        BY <1>1, <4>1, <4>2 DEF Boots
      <4>4. ErasesBack'
        <5>1. CASE console' = console /\ target' = target /\ flight_log_max' = flight_log_max
          <6>1. EraseEnd' = EraseEnd /\ Slots' = Slots
            BY <1>2, <5>1 DEF EraseEnd, Slots, SlotsOf
          <6> QED
            BY <2>1, <4>1, <5>1, <6>1
            DEF ErasesBack, ao_storage_is_erased, Block
        <5> QED
          BY <4>1, <4>2, <5>1 DEF ErasesBack
      <4> QED
        BY <4>1, <4>3, <4>4 DEF LayoutTypeOK
    <3>2. CASE DeleteErase
      <4>1. /\ idle /\ target \in Slots /\ UNCHANGED <<target, flight_log_max>>
            /\ console' = "erase"
            /\ erasing' = [at |-> target * flight_log_max + flight_log_max - 1,
                           first |-> target * flight_log_max]
        BY <3>2 DEF DeleteErase, Boots, ErasesBack, configVars, ao_storage_erase
      <4>2. /\ target * flight_log_max \in Nat /\ flight_log_max \in Nat
            /\ (target + 1) * flight_log_max = target * flight_log_max + flight_log_max
        BY <4>1, SlotInMemory DEF Slots, LayoutTypeOK
      <4>3. EraseEnd' = erasing'.at + 1 /\ Slots' = Slots /\ EraseEnd' \in Int
        BY <1>2, <4>1, <4>2 DEF EraseEnd, Slots, SlotsOf
      <4> QED
        BY <1>1, <4>1, <4>2, <4>3 DEF Boots, ErasesBack
    <3>3. CASE ZapAll
      <4>1. /\ idle /\ console' = "zap"
            /\ erasing' = [at |-> 0 + Blocks - 1, first |-> 0]
        BY <3>3 DEF ZapAll, Prompt, ao_storage_erase
      <4>2. Blocks \in Nat
        BY StorageAssumption DEF Blocks, LayoutTypeOK
      <4>3. EraseEnd' = erasing'.at + 1 /\ EraseEnd' \in Int
        BY <1>2, <4>1, <4>2 DEF EraseEnd
      <4> QED
        BY <1>1, <4>1, <4>2, <4>3 DEF Boots, ErasesBack
    <3> QED
      BY <1>6, <3>1, <3>2, <3>3 DEF ConsoleStep
  <2>5. LayoutTypeOK'
    BY <1>1, <1>2, <1>3, <2>1, <2>4 DEF LayoutTypeOK
  <2> QED
    BY <2>2, <2>3, <2>4, <2>5
<1> QED
  BY <1>5, <1>6

LEMMA PowerLeaves ==
  ASSUME LayoutTypeOK, PowerCycle
  PROVE  \A p \in Positions : flash'[p] \in {flash[p], Torn, Erased}
<1>1. CASE flash' \in HalfWritten
  BY <1>1 DEF HalfWritten, LayoutTypeOK
<1>2. CASE flash' \in HalfErased
  BY <1>2 DEF HalfErased
<1> QED
  BY <1>1, <1>2 DEF PowerCycle

(* What the power leaves of a write of a log or of an erase.               *)
LEMMA PowerKeeps ==
  ASSUME SlotsInv, ~board.tracker, PowerCycle, NoteLayout
  PROVE  SlotsInv'
<1> USE DEF SlotsInv
<1>1. /\ board' = board /\ saved' = saved /\ erasing' = NotErasing
      /\ log' = "scan" /\ console' = "none"
  BY DEF PowerCycle
<1>2. Positions' = Positions
  BY <1>1 DEF Positions, Blocks
<1>3. PICK size : size = flight_log_max
  OBVIOUS
<1>4. /\ flash' = [p \in Positions |-> flash'[p]]
      /\ \A p \in Positions : flash'[p] \in {flash[p], Torn, Erased}
      /\ Layouted'
  <2>1. CASE flash' = flash
    BY <1>1, <1>3, <2>1, NoteKeeps DEF LayoutTypeOK
  <2>2. CASE flash' \in HalfWritten
    <3>1. /\ log \in {"flight", "sensor"} /\ ao_log_current_pos < ao_log_end_pos
          /\ flash' = [flash EXCEPT ![ao_log_current_pos] = Torn]
      BY <2>2 DEF HalfWritten, Boots
    <3>2. Torn # Erased
      BY DEF Torn, Erased
    <3>3. Layouted'
      BY <1>1, <3>1, <3>2, WriteKeepsLayouted
    <3> QED
      BY <3>1, <3>3 DEF LayoutTypeOK
  <2>3. CASE Erasing /\ flash' \in HalfErased
    <3>1. PICK left \in [Block(erasing.at) -> {Erased, Torn}] :
            flash' = [p \in Positions |->
                        IF p \notin Block(erasing.at) \/ flash[p] = Erased
                        THEN flash[p] ELSE left[p]]
      BY <2>3 DEF HalfErased
    <3>2. \A p \in Positions :
            \/ flash'[p] = flash[p]
            \/ /\ p \in Block(erasing.at) /\ flash[p] # Erased
               /\ flash'[p] \in {Torn, Erased}
      BY <3>1
    <3>3. FreeToEnd(size) => FreeToEnd(size)'
      BY <1>1, <1>3, <2>3, <3>2, EraseInSlot
    <3> QED
      BY <1>1, <1>3, <3>1, <3>2, <3>3, NoteKeeps
  <2> QED
    BY <2>1, <2>2, <2>3 DEF PowerCycle
<1>5. LayoutTypeOK'
  <2>1. flight_log_max' \in Sizes
    BY ConfigAssumption DEF PowerCycle, ao_config_get, LayoutTypeOK
  <2> QED
    BY <1>1, <1>2, <1>4, <2>1 DEF LayoutTypeOK, NotErasing
<1>6. Boots' /\ ErasesBack'
  BY <1>1 DEF Boots, ErasesBack, Erasing, NotErasing
<1>7. WritesOn' /\ Numbered'
  BY <1>1, <1>2, <1>4 DEF WritesOn, Numbered, Torn, Erased
<1> QED
  BY <1>4, <1>5, <1>6, <1>7

LEMMA LogInitInv == Init => LogInv
<1> SUFFICES ASSUME Init, ~board.tracker PROVE SlotsInv
  BY DEF LogInv, SlotsInv
<1> USE DEF Init, LogInit, StorageInit, ConfigInit
<1>1. LayoutTypeOK
  BY ConfigAssumption DEF LayoutTypeOK, NotErasing
<1>2. Layouted /\ Boots /\ ErasesBack /\ WritesOn /\ Numbered
  BY DEF Layouted, Boots, ErasesBack, WritesOn, Numbered, Erasing, NotErasing, Erased
<1> QED
  BY <1>1, <1>2 DEF SlotsInv

(* A step is of the board that it is.                                      *)
LEMMA BoardKept == ASSUME [Next]_allVars PROVE board' = board
<1>1. CASE LogTaskStep
  BY <1>1 DEF LogTaskStep, ScanFlights, ScanMarks, ScanPlace, ao_log_start,
    WriteFlight, WriteSensor, Landed, storageVars
<1>2. CASE ConsoleStep
  BY <1>2 DEF ConsoleStep, Delete, DeleteMark, DeleteErase, EraseStep, EraseDone,
    ZapAll, Save, Saved, PutNext, SetLogSize, storageVars
<1>3. CASE TrackerTaskStep
  BY <1>3 DEF TrackerTaskStep, ScanFlights, TrackerScan, TrackerLoop,
    TrackerLock, TrackerFirst, TrackerData, storageVars
<1>4. CASE TrackerConsoleStep
  BY <1>4 DEF TrackerConsoleStep, Look, Looked, LookDelete,
    ao_tracker_erase_start, ao_tracker_erase_end, TrackerZapAll, ZapAll,
    DeleteMark, DeleteErase, EraseStep, Save, Saved, PutNext, EraseDone,
    storageVars
<1>5. CASE PowerCycle
  BY <1>5 DEF PowerCycle
<1>6. CASE UNCHANGED allVars
  BY <1>6 DEF allVars, logVars, storageVars
<1> QED
  BY <1>1, <1>2, <1>3, <1>4, <1>5, <1>6
  DEF Next, LogNext, TrackerNext, TrackerPowerCycle

LEMMA LogNextInv == LogInv /\ [Next]_allVars => LogInv'
<1> SUFFICES ASSUME LogInv, [Next]_allVars PROVE LogInv'
  OBVIOUS
<1>1. CASE board.tracker
  BY <1>1, BoardKept DEF LogInv
<1>2. CASE ~board.tracker
  <2>1. SlotsInv
    BY <1>2 DEF LogInv, SlotsInv
  <2>2. CASE LogNext
    BY <1>2, <2>1, <2>2, TaskKeeps, ConsoleKeeps, PowerKeeps
    DEF LogNext, LogInv, SlotsInv
  <2>3. CASE UNCHANGED allVars
    <3>1. UNCHANGED <<board, flash, erasing, saved, flight_log_max, layouts, idle,
                      log, console, target, ao_log_current_pos, ao_log_end_pos,
                      ao_flight_number>>
      BY <2>3 DEF allVars, logVars, storageVars, configVars, taskVars, consoleVars
    <3>2. LayoutTypeOK' /\ Boots' /\ Numbered'
      BY <2>1, <3>1 DEF SlotsInv, LayoutTypeOK, Boots, Numbered, Positions, Blocks,
        Erasing
    <3>3. Layouted' /\ ErasesBack' /\ WritesOn'
      BY <2>1, <3>1 DEF SlotsInv, Layouted, FreeToEnd, ErasesBack, WritesOn, Writing,
        Positions, Blocks, Erasing, EraseEnd, Slots, SlotsOf, ao_storage_is_erased,
        Block, ao_log_pos, ao_log_pos_block_end, OneLayout
    <3> QED
      BY <3>2, <3>3 DEF LogInv
  <2> QED
    BY <1>2, <2>2, <2>3 DEF Next
<1> QED
  BY <1>1, <1>2

(* What AltosLog has found of the memory holds of every log of a flight.   *)
THEOREM LogsInv == Spec => []LogInv
BY LogInitInv, LogNextInv, PTL DEF Spec

(* Whatever the power has left of a log or of its erasing, a slot that     *)
(* looks free can be written to its end (ao_log_scan, ao_storage_erase).   *)
THEOREM FreeSlotsAreFree == Spec => []PartialEraseListed
<1>1. LogInv => PartialEraseListed
  <2> SUFFICES ASSUME LogInv, OneLayout, NEW slot \in Free
               PROVE  \A b \in BlocksOf(slot) : ao_storage_is_erased(b)
    BY DEF PartialEraseListed
  <2>1. /\ LayoutTypeOK /\ Layouted /\ Numbered
        /\ board \in Boards /\ flight_log_max \in Sizes
        /\ slot \in SlotsOf(flight_log_max)
    BY DEF LogInv, OneLayout, LayoutTypeOK, Free, Slots
  <2>2. ao_storage_is_erased(slot * flight_log_max)
    BY <2>1, FreeIsErased
  <2>3. FreeToEnd(flight_log_max)
    BY <2>1, OneFree DEF OneLayout
  <2> QED
    BY <2>1, <2>2, <2>3 DEF FreeToEnd, BlocksOf
<1> QED
  BY <1>1, LogsInv, PTL

(* While all that is in the flash was written in slots of the size in use, *)
(* a record of a flight is lost only to an erase of the slot it is in, by  *)
(* no write of a log and no failure of the power (ao_log_write).  After a  *)
(* boot with another size it is not so, and the theorem says nothing.      *)
THEOREM LogsKept == Spec => RecordsKept
<1>1. ASSUME LogInv, [Next]_allVars, NEW p \in Positions, IsRecord(flash[p]),
             flash'[p] # flash[p], OneLayout
      PROVE  Erasing /\ p \in Block(erasing.at)
  <2>1. SlotsInv /\ LogNext
    <3>1. ~UNCHANGED allVars
      BY <1>1 DEF allVars, logVars, storageVars
    <3> QED
      BY <1>1, <3>1 DEF LogInv, SlotsInv, OneLayout, Next
  <2>2. \/ /\ log \in {"flight", "sensor"} /\ ao_log_current_pos < ao_log_end_pos
           /\ \E x : flash' = [flash EXCEPT ![ao_log_current_pos] = x]
        \/ EraseStep
        \/ Erasing /\ flash' \in HalfErased
    <3>1. flash' # flash
      BY <1>1
    <3>2. CASE LogTaskStep
      <4>1. CASE WriteFlight
        BY <3>1, <4>1 DEF WriteFlight, ao_log_write, ao_storage_write
      <4>2. CASE WriteSensor
        BY <3>1, <4>2 DEF WriteSensor, ao_log_write, ao_storage_write
      <4> QED
        BY <3>1, <3>2, <4>1, <4>2 DEF LogTaskStep, ScanFlights, ScanMarks, ScanPlace,
          ao_log_start, Landed, storageVars
    <3>3. CASE ConsoleStep
      BY <3>1, <3>3 DEF ConsoleStep, Delete, DeleteMark, DeleteErase, EraseDone,
        ZapAll, Save, Saved, PutNext, SetLogSize, storageVars
    <3>4. CASE PowerCycle
      BY <2>1, <3>1, <3>4 DEF PowerCycle, HalfWritten, SlotsInv, Boots
    <3> QED
      BY <2>1, <3>2, <3>3, <3>4 DEF LogNext
  <2>3. CASE /\ log \in {"flight", "sensor"} /\ ao_log_current_pos < ao_log_end_pos
             /\ \E x : flash' = [flash EXCEPT ![ao_log_current_pos] = x]
    <3>1. PICK slot \in Slots : /\ Writing(slot) /\ ao_log_end_pos \in Nat
                                /\ ao_log_pos(slot) \in Nat
      BY <2>1, <2>3, WritingAt DEF SlotsInv
    <3>2. flash[ao_log_current_pos] = Erased
      BY <1>1, <2>3, <3>1 DEF Writing
    <3>3. p = ao_log_current_pos
      BY <1>1, <2>3
    <3> QED
      BY <1>1, <3>2, <3>3 DEF IsRecord, Erased
  <2>4. CASE EraseStep
    BY <1>1, <2>4 DEF EraseStep, EraseBlock, EraseFails, ao_storage_device_erase
  <2>5. CASE Erasing /\ flash' \in HalfErased
    BY <1>1, <2>5 DEF HalfErased
  <2> QED
    BY <2>2, <2>3, <2>4, <2>5
<1>2. LogInv /\ [Next]_allVars =>
        [\A p \in Positions :
           IsRecord(flash[p]) /\ flash'[p] # flash[p] /\ OneLayout =>
             Erasing /\ p \in Block(erasing.at)]_logVars
  BY <1>1
<1> QED
  BY <1>2, LogsInv, PTL DEF Spec, RecordsKept

-----------------------------------------------------------------------------
(* The numbers of the logs.                                                *)
FlightAt(slot, size) ==
  LET first == flash[slot * size * PerBlock] IN
  IF first.type = "flight" THEN first.flight ELSE 0

NumberTypeOK ==
  /\ ao_flight_number \in Numbers
  /\ marks \in [Marks -> Numbers \cup {NoMark}]
  /\ \A p \in Positions :
       flash[p].type = "flight" => flash[p].flight \in 1 .. MaxNumber - 1

(* A number is above those of the logs that there are.                     *)
Fresh ==
  ~idle => \A slot \in Slots :
    /\ log = "marks" => FlightAt(slot, flight_log_max) <= ao_flight_number
    /\ log \in {"place", "wait", "flight"} =>
         FlightAt(slot, flight_log_max) < ao_flight_number

DistinctIn(size) ==
  \A s, t \in SlotsOf(size) : FlightAt(s, size) > 0 /\ s # t =>
    FlightAt(s, size) # FlightAt(t, size)

DistinctLayout == \A size \in layouts : layouts = {size} => DistinctIn(size)

NumbersOK ==
  /\ NumberTypeOK /\ Fresh /\ DistinctLayout
  /\ log \in {"marks", "flight"} => ao_flight_number < MaxNumber

NumbersInv == board.tracker \/ NumbersOK

LEMMA FlightAtType ==
  ASSUME LayoutTypeOK, NumberTypeOK, NEW size \in Sizes, NEW slot \in SlotsOf(size)
  PROVE  /\ slot * size * PerBlock \in Positions
         /\ slot * size * PerBlock \in Block(slot * size)
         /\ FlightAt(slot, size) \in 0 .. MaxNumber - 1
         /\ FlightAt(slot, size) > 0 =>
              /\ flash[slot * size * PerBlock].type = "flight"
              /\ flash[slot * size * PerBlock].flight = FlightAt(slot, size)
<1>1. /\ slot * size \in slot * size .. (slot + 1) * size - 1
      /\ slot * size \in Int
  BY SlotInMemory DEF LayoutTypeOK
<1>2. /\ slot * size * PerBlock \in Positions
      /\ slot * size * PerBlock \in Block(slot * size)
  BY <1>1, PositionsOfSlot, FirstPosition DEF LayoutTypeOK
<1>3. MaxNumber \in Nat \ {0}
  BY ConfigAssumption
<1> QED
  BY <1>2, <1>3 DEF FlightAt, NumberTypeOK

(* ao_log_flight tells the number of a log.                                *)
LEMMA FlightAtLog ==
  ASSUME LayoutTypeOK, NumberTypeOK, NEW slot \in Slots
  PROVE  /\ ao_log_flight(slot) \in Int
         /\ ao_log_flight(slot) > 0 =>
              ao_log_flight(slot) = FlightAt(slot, flight_log_max)
         /\ FlightAt(slot, flight_log_max) > 0 =>
              ao_log_flight(slot) = FlightAt(slot, flight_log_max)
<1>1. slot \in SlotsOf(flight_log_max) /\ flight_log_max \in Sizes /\ slot \in Nat
  BY SlotInMemory DEF Slots, LayoutTypeOK
<1>2. MaxNumber \in Nat
  BY ConfigAssumption
<1>3. CASE ao_storage_is_erased(slot * flight_log_max)
  <2>1. flash[slot * flight_log_max * PerBlock] = Erased
    BY <1>1, <1>3, FlightAtType DEF ao_storage_is_erased
  <2> QED
    BY <1>3, <2>1 DEF ao_log_flight, FlightAt, Erased
<1>4. CASE /\ ~ao_storage_is_erased(slot * flight_log_max)
           /\ flash[ao_log_pos(slot)].type = "flight"
  <2>1. ao_log_flight(slot) = FlightAt(slot, flight_log_max)
    BY <1>4 DEF ao_log_flight, FlightAt, ao_log_pos
  <2> QED
    BY <1>1, <1>2, <2>1, FlightAtType
<1>5. CASE /\ ~ao_storage_is_erased(slot * flight_log_max)
           /\ flash[ao_log_pos(slot)].type # "flight"
  <2>1. /\ ao_log_flight(slot) = -(slot + 1)
        /\ FlightAt(slot, flight_log_max) = 0
    BY <1>5 DEF ao_log_flight, FlightAt, ao_log_pos
  <2> QED
    BY <1>1, <2>1
<1> QED
  BY <1>3, <1>4, <1>5

LEMMA Least ==
  ASSUME NEW S \in SUBSET Nat, S # {}
  PROVE  \E x \in S : \A y \in S : x <= y
<1>1. PICK x \in S : \A y \in S : ~(<<y, x>> \in OpToRel(<, Nat))
  BY NatLessThanWellFounded, WFMin
<1>2. ASSUME NEW y \in S, y < x PROVE FALSE
  <2>1. <<y, x>> \in OpToRel(<, Nat)
    BY <1>2 DEF OpToRel
  <2> QED
    BY <1>1, <2>1
<1> QED
  BY <1>2

(* ao_log_max_flight is the highest number of a log, 0 if there is none.   *)
LEMMA MaxFlight ==
  ASSUME LayoutTypeOK, NumberTypeOK
  PROVE  /\ ao_log_max_flight \in 0 .. MaxNumber - 1
         /\ \A slot \in Slots : FlightAt(slot, flight_log_max) <= ao_log_max_flight
<1> DEFINE S == (Flights \cup {0}) \cap Numbers
           D == {MaxNumber - n : n \in S}
<1>1. MaxNumber \in Nat \ {0}
  BY ConfigAssumption
<1>2. Flights \subseteq Int /\ \A f \in Flights : f <= 0 \/ f \in 1 .. MaxNumber - 1
  <2>1. ASSUME NEW slot \in Slots
        PROVE  /\ ao_log_flight(slot) \in Int
               /\ ao_log_flight(slot) <= 0 \/ ao_log_flight(slot) \in 1 .. MaxNumber - 1
    <3>1. FlightAt(slot, flight_log_max) \in 0 .. MaxNumber - 1
      BY FlightAtType DEF Slots, LayoutTypeOK
    <3> QED
      BY <1>1, <3>1, FlightAtLog
  <2> QED
    BY <2>1 DEF Flights
<1>3. S \subseteq 0 .. MaxNumber - 1 /\ 0 \in S
  BY <1>1, <1>2 DEF Numbers
<1>4. D \in SUBSET Nat /\ D # {}
  BY <1>1, <1>3
<1>5. PICK d \in D : \A e \in D : d <= e
  BY <1>4, Least
<1>6. PICK n \in S : d = MaxNumber - n
  BY <1>5
<1>7. \A m \in S : m <= n
  <2> SUFFICES ASSUME NEW m \in S PROVE m <= n
    OBVIOUS
  <2>1. MaxNumber - n <= MaxNumber - m
    BY <1>5, <1>6
  <2> QED
    BY <1>1, <1>3, <2>1
<1>8. n \in Numbers /\ n \in Flights \cup {0} /\ \A f \in Flights : f <= n
  <2>1. ASSUME NEW f \in Flights PROVE f <= n
    <3>1. CASE f <= 0
      BY <1>2, <1>3, <1>6, <3>1
    <3>2. CASE f \in 1 .. MaxNumber - 1
      <4>1. f \in S
        BY <1>1, <3>2 DEF Numbers
      <4> QED
        BY <1>7, <4>1
    <3> QED
      BY <1>2, <3>1, <3>2
  <2> QED
    BY <1>6, <2>1
<1>9. /\ ao_log_max_flight \in S
       /\ \A f \in Flights : f <= ao_log_max_flight
  BY <1>8 DEF ao_log_max_flight
<1>10. ASSUME NEW slot \in Slots
       PROVE  FlightAt(slot, flight_log_max) <= ao_log_max_flight
  <2>1. FlightAt(slot, flight_log_max) \in 0 .. MaxNumber - 1
    BY FlightAtType DEF Slots, LayoutTypeOK
  <2>2. CASE FlightAt(slot, flight_log_max) > 0
    BY <1>9, <2>2, FlightAtLog DEF Flights
  <2>3. CASE FlightAt(slot, flight_log_max) = 0
    BY <1>1, <1>3, <1>9, <2>3
  <2> QED
    BY <1>1, <2>1, <2>2, <2>3
<1> QED
  BY <1>3, <1>9, <1>10

(* A mark makes a number no lower.                                         *)
LEMMA MarksRaise ==
  ASSUME NumberTypeOK, NEW n \in Numbers
  PROVE  FromMarks(n) \in Numbers \ {0} /\ FromMarks(n) >= n
<1>1. MaxNumber \in Nat \ {0} /\ NoMark \notin Nat
  BY ConfigAssumption
<1> DEFINE newer == {m \in {marks[i] : i \in {i \in Marked :
                              \A j \in Marked : j <= i}} : m > n}
           found == IF newer = {} THEN n ELSE CHOOSE m \in newer : TRUE
<1>2. \A m \in newer : m \in Numbers /\ m > n
  BY DEF Marked, NumberTypeOK
<1>3. found \in Numbers /\ found >= n
  BY <1>1, <1>2 DEF Numbers
<1>4. FromMarks(n) = IF found = 0 THEN 1 ELSE found
  BY DEF FromMarks
<1> HIDE DEF found
<1> QED
  BY <1>1, <1>3, <1>4 DEF Numbers

(* Under one layout the logs have numbers of their own, if there are any.  *)
LEMMA OneDistinct ==
  ASSUME LayoutTypeOK, Layouted, NumberTypeOK, DistinctLayout,
         layouts \subseteq {flight_log_max}
  PROVE  DistinctIn(flight_log_max)
<1>1. CASE layouts = {}
  <2>1. ASSUME NEW slot \in SlotsOf(flight_log_max)
        PROVE  FlightAt(slot, flight_log_max) = 0
    <3>1. slot * flight_log_max * PerBlock \in Positions
      BY FlightAtType DEF LayoutTypeOK
    <3> QED
      BY <1>1, <3>1 DEF Layouted, FlightAt, Erased
  <2> QED
    BY <2>1 DEF DistinctIn
<1>2. CASE layouts = {flight_log_max}
  BY <1>2 DEF DistinctLayout
<1> QED
  BY <1>1, <1>2

LEMMA NoteKeepsDistinct ==
  ASSUME LayoutTypeOK, Layouted, NumberTypeOK, DistinctLayout, NoteLayout,
         board' = board, NEW size, size = flight_log_max,
         flash' = flash \/ (DistinctIn(size) => DistinctIn(size)')
  PROVE  DistinctLayout'
<1>1. CASE \A q \in Positions : flash'[q] = Erased
  BY <1>1 DEF DistinctLayout, NoteLayout
<1>2. CASE /\ ~\A q \in Positions : flash'[q] = Erased
           /\ flash' # flash
  <2>1. layouts' = layouts \cup {size}
    BY <1>2 DEF NoteLayout
  <2>2. SUFFICES ASSUME NEW s \in layouts', layouts' = {s}
                 PROVE  DistinctIn(s)'
    BY DEF DistinctLayout
  <2>3. s = size /\ layouts \subseteq {flight_log_max}
    BY <2>1, <2>2
  <2> QED
    BY <1>2, <2>3, OneDistinct
<1>3. CASE /\ ~\A q \in Positions : flash'[q] = Erased
           /\ flash' = flash
  <2>1. layouts' = layouts
    BY <1>3 DEF NoteLayout
  <2>2. \A s : DistinctIn(s)' = DistinctIn(s)
    BY <1>3 DEF DistinctIn, SlotsOf, Blocks, FlightAt
  <2> QED
    BY <2>1, <2>2 DEF DistinctLayout
<1> QED
  BY <1>1, <1>2, <1>3

(* No log gets another number when no number is written.                   *)
LEMMA FewerDistinct ==
  ASSUME LayoutTypeOK, NumberTypeOK, board' = board, NEW size \in Sizes,
         DistinctIn(size),
         \A p \in Positions : flash'[p] = flash[p] \/ flash'[p].type # "flight"
  PROVE  DistinctIn(size)'
<1>1. SlotsOf(size)' = SlotsOf(size)
  BY DEF SlotsOf, Blocks
<1>2. ASSUME NEW slot \in SlotsOf(size)
      PROVE  FlightAt(slot, size)' \in {0, FlightAt(slot, size)}
  <2>1. slot * size * PerBlock \in Positions
    BY FlightAtType
  <2> QED
    BY <2>1 DEF FlightAt
<1>3. \A slot \in SlotsOf(size) : FlightAt(slot, size) \in Int
  BY FlightAtType, ConfigAssumption
<1> QED
  BY <1>1, <1>2, <1>3 DEF DistinctIn

(* The first record of a log, with a number above those of all logs.       *)
LEMMA NumberDistinct ==
  ASSUME LayoutTypeOK, NumberTypeOK, board' = board, NEW size, size = flight_log_max,
         DistinctIn(size), NEW slot \in Slots, NEW n \in Int,
         \A t \in Slots : FlightAt(t, flight_log_max) < n,
         flash' = [flash EXCEPT ![ao_log_pos(slot)] = Flight(n)]
  PROVE  DistinctIn(size)'
<1>1. /\ SlotsOf(size)' = SlotsOf(size) /\ Slots = SlotsOf(size) /\ size \in Sizes
      /\ slot \in SlotsOf(size) /\ board \in Boards
  BY DEF SlotsOf, Blocks, Slots, LayoutTypeOK
<1>2. ASSUME NEW t \in SlotsOf(size), t # slot
      PROVE  FlightAt(t, size)' = FlightAt(t, size)
  <2>1. /\ t \in Nat /\ slot \in Nat /\ size \in Nat \ {0} /\ PerBlock \in Nat \ {0}
        /\ t * size * PerBlock \in Nat /\ slot * size * PerBlock \in Nat
    BY <1>1, SlotInMemory, StorageAssumption
  <2>2. /\ t * size * PerBlock = t * (size * PerBlock)
        /\ slot * size * PerBlock = slot * (size * PerBlock)
        /\ size * PerBlock \in Nat \ {0}
    BY <2>1
  <2>3. /\ t * (size * PerBlock) < (t + 1) * (size * PerBlock)
        /\ slot * (size * PerBlock) < (slot + 1) * (size * PerBlock)
    BY <2>1, <2>2
  <2>4. t * size * PerBlock # slot * size * PerBlock
    <3> SUFFICES ASSUME t * size * PerBlock = slot * size * PerBlock PROVE FALSE
      OBVIOUS
    <3> DEFINE m == size * PerBlock
    <3>1. t * m = slot * m /\ t * m < (t + 1) * m /\ slot * m < (slot + 1) * m
      BY <2>2, <2>3
    <3>2. m \in Nat
      BY <2>2
    <3> HIDE DEF m
    <3>3. t <= slot /\ slot <= t
      BY <2>1, <3>1, <3>2, SmallerSlot
    <3> QED
      BY <1>2, <2>1, <3>3
  <2>5. t * size * PerBlock \in Positions
    BY <1>1, FlightAtType
  <2>6. flash'[t * size * PerBlock] = flash[t * size * PerBlock]
    BY <1>1, <2>4, <2>5 DEF ao_log_pos, LayoutTypeOK
  <2> QED
    BY <2>6 DEF FlightAt
<1>3. FlightAt(slot, size)' = n
  <2>1. slot * size * PerBlock \in Positions
    BY <1>1, FlightAtType
  <2>2. flash'[slot * size * PerBlock] = Flight(n)
    BY <1>1, <2>1 DEF ao_log_pos, LayoutTypeOK
  <2> QED
    BY <2>2 DEF FlightAt, Flight
<1>4. \A t \in SlotsOf(size) : FlightAt(t, size) \in Int /\ FlightAt(t, size) < n
  BY <1>1, FlightAtType, ConfigAssumption
<1> QED
  BY <1>1, <1>2, <1>3, <1>4 DEF DistinctIn

LEMMA TaskKeepsNumbers ==
  ASSUME SlotsInv, NumbersOK, LogTaskStep, NoteLayout
  PROVE  NumbersOK'
<1> USE DEF SlotsInv, NumbersOK
<1>1. /\ UNCHANGED <<board, marks, flight_log_max, idle>>
      /\ WriteFlight \/ WriteSensor \/ flash' = flash
  BY DEF LogTaskStep, ScanFlights, ScanMarks, ScanPlace, ao_log_start,
    WriteFlight, WriteSensor, Landed, configVars, storageVars
<1>2. Positions' = Positions /\ Slots' = Slots
  BY <1>1 DEF Positions, Slots, SlotsOf, Blocks
<1>3. PICK size : size = flight_log_max /\ size \in Sizes
  BY DEF LayoutTypeOK
<1>4. CASE WriteFlight
  <2>1. /\ log = "flight" /\ log' = "sensor" /\ ao_flight_number' = ao_flight_number
        /\ ao_flight_number \in 1 .. MaxNumber - 1
    BY <1>4, ConfigAssumption DEF WriteFlight, NumberTypeOK, Numbered, Numbers
  <2>2. CASE flash' = flash
    BY <1>1, <1>2, <1>3, <2>1, <2>2, NoteKeepsDistinct DEF NumberTypeOK, Fresh
  <2>3. CASE flash' # flash
    <3>1. ao_log_current_pos < ao_log_end_pos
      BY <1>4, <2>3 DEF WriteFlight, ao_log_write
    <3>2. PICK slot \in Slots : /\ ao_log_current_pos = ao_log_pos(slot)
                                /\ ao_log_current_pos \in Positions
      BY <2>1, <3>1, WritingAt DEF Writing
    <3>3. PICK n : n = ao_flight_number
      OBVIOUS
    <3>4. \/ flash' = [flash EXCEPT ![ao_log_pos(slot)] = Flight(n)]
          \/ flash' = [flash EXCEPT ![ao_log_pos(slot)] = Torn]
      BY <1>4, <2>3, <3>2, <3>3 DEF WriteFlight, ao_log_write, ao_storage_write
    <3>5. \A p \in Positions : flash'[p] \in {flash[p], Flight(n), Torn}
      BY <3>4 DEF LayoutTypeOK
    <3>6. NumberTypeOK'
      BY <1>1, <1>2, <2>1, <3>3, <3>5 DEF NumberTypeOK, Flight, Torn
    <3>7. Fresh'
      BY <2>1 DEF Fresh
    <3>8. DistinctIn(size) => DistinctIn(size)'
      <4>1. CASE flash' = [flash EXCEPT ![ao_log_pos(slot)] = Flight(n)]
        <5>1. \A t \in Slots : FlightAt(t, flight_log_max) < n
          BY <2>1, <3>3 DEF Fresh, Boots
        <5>2. n \in Int
          BY <2>1, <3>3, ConfigAssumption
        <5> QED
          BY <1>1, <1>3, <4>1, <5>1, <5>2, NumberDistinct
      <4>2. CASE flash' = [flash EXCEPT ![ao_log_pos(slot)] = Torn]
        <5>1. \A p \in Positions : flash'[p] = flash[p] \/ flash'[p].type # "flight"
          BY <4>2 DEF LayoutTypeOK, Torn
        <5> QED
          BY <1>1, <1>3, <5>1, FewerDistinct
      <4> QED
        BY <3>4, <4>1, <4>2
    <3> QED
      BY <1>1, <1>3, <2>1, <3>6, <3>7, <3>8, NoteKeepsDistinct
  <2> QED
    BY <2>2, <2>3
<1>5. CASE WriteSensor
  <2>1. /\ log = "sensor" /\ log' = "sensor" /\ ao_flight_number' = ao_flight_number
    BY <1>5 DEF WriteSensor
  <2>2. \A p \in Positions : flash'[p] = flash[p] \/ flash'[p].type # "flight"
    <3>1. \/ flash' = flash
          \/ flash' = [flash EXCEPT ![ao_log_current_pos] = Sensor]
          \/ flash' = [flash EXCEPT ![ao_log_current_pos] = Torn]
      BY <1>5 DEF WriteSensor, ao_log_write, ao_storage_write
    <3> QED
      BY <3>1 DEF LayoutTypeOK, Sensor, Torn
  <2>3. NumberTypeOK' /\ Fresh'
    BY <1>1, <1>2, <2>1, <2>2 DEF NumberTypeOK, Fresh
  <2> QED
    BY <1>1, <1>3, <2>1, <2>2, <2>3, FewerDistinct, NoteKeepsDistinct
<1>6. CASE ~WriteFlight /\ ~WriteSensor
  <2>1. flash' = flash
    BY <1>1, <1>6
  <2>2. DistinctLayout'
    BY <1>1, <1>3, <2>1, NoteKeepsDistinct
  <2>3. \A slot : FlightAt(slot, flight_log_max)' = FlightAt(slot, flight_log_max)
    BY <1>1, <2>1 DEF FlightAt
  <2>4. CASE ScanFlights
    <3>1. log' = "marks" /\ ao_flight_number' = ao_log_max_flight
      BY <2>4 DEF ScanFlights
    <3>2. /\ ao_flight_number' \in Numbers /\ ao_flight_number' < MaxNumber
          /\ \A slot \in Slots : FlightAt(slot, flight_log_max) <= ao_flight_number'
      BY <3>1, MaxFlight, ConfigAssumption DEF Numbers
    <3> QED
      BY <1>1, <1>2, <2>1, <2>2, <2>3, <3>1, <3>2 DEF NumberTypeOK, Fresh
  <2>5. CASE ScanMarks
    <3>1. log = "marks" /\ log' = "place" /\ ao_flight_number \in 0 .. MaxNumber - 1
      BY <2>5, ConfigAssumption DEF ScanMarks, NumberTypeOK, Numbers
    <3> DEFINE n == IF ao_flight_number = 0 THEN 0 ELSE ao_flight_number + 1
    <3>2. /\ ao_flight_number' = FromMarks(n) /\ n \in Numbers
          /\ ao_flight_number = 0 \/ n > ao_flight_number
      BY <2>5, <3>1, ConfigAssumption DEF ScanMarks, Numbers
    <3>3. ao_flight_number' \in Numbers \ {0} /\ ao_flight_number' > ao_flight_number
      <4>1. FromMarks(n) \in Numbers \ {0} /\ FromMarks(n) >= n
        BY <3>2, MarksRaise
      <4> QED
        BY <3>1, <3>2, <4>1, ConfigAssumption DEF Numbers
    <3>4. ASSUME ~idle, NEW slot \in Slots
          PROVE  FlightAt(slot, flight_log_max) < ao_flight_number'
      <4>1. FlightAt(slot, flight_log_max) <= ao_flight_number
        BY <3>1, <3>4 DEF Fresh
      <4>2. FlightAt(slot, flight_log_max) \in Int
        <5>1. slot \in SlotsOf(size) /\ MaxNumber \in Nat
          BY <1>3, ConfigAssumption DEF Slots
        <5>2. FlightAt(slot, size) \in 0 .. MaxNumber - 1
          BY <1>3, <5>1, FlightAtType
        <5> QED
          BY <1>3, <5>1, <5>2
      <4> QED
        BY <3>1, <3>3, <4>1, <4>2, ConfigAssumption DEF Numbers
    <3>5. NumberTypeOK'
      BY <1>1, <1>2, <2>1, <3>1, <3>3 DEF NumberTypeOK
    <3> QED
      BY <1>1, <1>2, <2>2, <2>3, <3>1, <3>4, <3>5 DEF Fresh
  <2>6. CASE ScanPlace \/ ao_log_start \/ Landed
    <3>1. /\ ao_flight_number' = ao_flight_number
          /\ \/ log = "place" /\ log' = "wait"
             \/ log = "wait" /\ log' = "flight" /\ ao_flight_number < MaxNumber
             \/ log' = "landed"
      BY <2>6 DEF ScanPlace, ao_log_start, Landed
    <3> QED
      BY <1>1, <1>2, <2>1, <2>2, <2>3, <3>1 DEF NumberTypeOK, Fresh
  <2> QED
    BY <1>6, <2>4, <2>5, <2>6 DEF LogTaskStep
<1> QED
  BY <1>4, <1>5, <1>6

LEMMA MarksTyped ==
  ASSUME NumberTypeOK, PutNext \/ DeleteMark
  PROVE  marks' \in [Marks -> Numbers \cup {NoMark}]
<1> USE DEF NumberTypeOK
<1>1. ASSUME NEW i \in Marks, ao_log_write_erase(i)
      PROVE  marks' \in [Marks -> Numbers \cup {NoMark}]
  BY <1>1 DEF ao_log_write_erase
<1>2. 0 \in Marks
  BY ConfigAssumption DEF Marks
<1>3. CASE PutNext
  BY <1>1, <1>2, <1>3 DEF PutNext, PutStep, PutErase, PutConfig, PutMark, PutClear,
    Marked
<1>4. CASE DeleteMark
  BY <1>1, <1>4 DEF DeleteMark, ao_log_erase_mark
<1> QED
  BY <1>3, <1>4

LEMMA ConsoleKeepsNumbers ==
  ASSUME SlotsInv, NumbersOK, ConsoleStep, NoteLayout
  PROVE  NumbersOK'
<1> USE DEF SlotsInv, NumbersOK
<1>1. /\ UNCHANGED <<board, log, idle, ao_flight_number>>
      /\ EraseStep \/ flash' = flash
      /\ \A p \in Positions : flash'[p] \in {flash[p], Erased}
  BY DEF ConsoleStep, Delete, DeleteMark, DeleteErase, EraseStep, EraseDone,
    ZapAll, Save, Saved, PutNext, SetLogSize, storageVars, taskVars,
    ao_log_erase_mark, PutStep, EraseBlock, EraseFails, ao_storage_device_erase
<1>2. Positions' = Positions
  BY <1>1 DEF Positions, Blocks
<1>3. PICK size : size = flight_log_max /\ size \in Sizes
  BY DEF LayoutTypeOK
<1>4. marks' \in [Marks -> Numbers \cup {NoMark}]
  <2>1. CASE ~PutNext /\ ~DeleteMark
    BY <2>1 DEF ConsoleStep, Delete, DeleteErase, EraseStep, EraseDone,
      ZapAll, Save, Saved, SetLogSize, configVars, NumberTypeOK
  <2> QED
    BY <2>1, MarksTyped
<1>5. NumberTypeOK'
  BY <1>1, <1>2, <1>4 DEF NumberTypeOK, Erased
<1>6. DistinctLayout'
  <2>1. \A p \in Positions : flash'[p] = flash[p] \/ flash'[p].type # "flight"
    BY <1>1 DEF Erased
  <2> QED
    BY <1>1, <1>3, <2>1, FewerDistinct, NoteKeepsDistinct
<1>7. Fresh'
  <2> SUFFICES ASSUME ~idle PROVE Fresh'
    BY <1>1 DEF Fresh
  <2>1. console = "none" /\ ~Erasing
    BY DEF Boots
  <2>2. flash' = flash /\ flight_log_max' = flight_log_max
    BY <1>1, <2>1 DEF ConsoleStep, Delete, DeleteMark, DeleteErase, EraseStep,
      EraseBlock, EraseFails, EraseDone, ZapAll, Save, Saved, PutNext, SetLogSize,
      Prompt, PutStep
  <2>3. /\ Slots' = Slots
        /\ \A slot : FlightAt(slot, flight_log_max)' = FlightAt(slot, flight_log_max)
    BY <1>1, <2>2 DEF Slots, SlotsOf, Blocks, FlightAt
  <2> QED
    BY <1>1, <2>3 DEF Fresh
<1> QED
  BY <1>1, <1>5, <1>6, <1>7

LEMMA PowerKeepsNumbers ==
  ASSUME SlotsInv, NumbersOK, PowerCycle, NoteLayout
  PROVE  NumbersOK'
<1> USE DEF SlotsInv, NumbersOK
<1>1. /\ board' = board /\ marks' = marks /\ log' = "scan" /\ ao_flight_number' = 0
      /\ Positions' = Positions
  BY DEF PowerCycle, Positions, Blocks
<1>2. PICK size : size = flight_log_max /\ size \in Sizes
  BY DEF LayoutTypeOK
<1>3. \A p \in Positions : flash'[p] \in {flash[p], Torn, Erased}
  BY PowerLeaves DEF LayoutTypeOK
<1>4. NumberTypeOK' /\ Fresh'
  BY <1>1, <1>3, ConfigAssumption DEF NumberTypeOK, Fresh, Numbers, Torn, Erased
<1>5. \A p \in Positions : flash'[p] = flash[p] \/ flash'[p].type # "flight"
  BY <1>3 DEF Torn, Erased
<1> QED
  BY <1>1, <1>2, <1>4, <1>5, FewerDistinct, NoteKeepsDistinct

LEMMA NumbersInitInv == Init => NumbersInv
<1> SUFFICES ASSUME Init, ~board.tracker PROVE NumbersOK
  BY DEF NumbersInv
<1> USE DEF Init, LogInit, StorageInit, ConfigInit
<1>1. NumberTypeOK
  BY ConfigAssumption DEF NumberTypeOK, Numbers, Marks, Erased
<1> QED
  BY <1>1 DEF NumbersOK, Fresh, DistinctLayout

LEMMA NumbersNextInv == LogInv /\ NumbersInv /\ [Next]_allVars => NumbersInv'
<1> SUFFICES ASSUME LogInv, NumbersInv, [Next]_allVars PROVE NumbersInv'
  OBVIOUS
<1>1. CASE board.tracker
  BY <1>1, BoardKept DEF NumbersInv
<1>2. CASE ~board.tracker
  <2>1. SlotsInv /\ NumbersOK
    BY <1>2 DEF LogInv, SlotsInv, NumbersInv
  <2>2. CASE LogNext
    BY <2>1, <2>2, TaskKeepsNumbers, ConsoleKeepsNumbers, PowerKeepsNumbers
    DEF LogNext, NumbersInv
  <2>3. CASE UNCHANGED allVars
    <3>1. UNCHANGED <<board, flash, flight_log_max, layouts, idle, log, marks,
                      ao_flight_number>>
      BY <2>3 DEF allVars, logVars, storageVars, configVars, taskVars
    <3>2. NumberTypeOK'
      BY <2>1, <3>1 DEF NumbersOK, NumberTypeOK, Positions, Blocks
    <3>3. Fresh'
      BY <2>1, <3>1 DEF NumbersOK, Fresh, FlightAt, Slots, SlotsOf, Blocks
    <3>4. DistinctLayout'
      BY <2>1, <3>1 DEF NumbersOK, DistinctLayout, DistinctIn, FlightAt, SlotsOf, Blocks
    <3> QED
      BY <2>1, <3>1, <3>2, <3>3, <3>4 DEF NumbersInv, NumbersOK
  <2> QED
    BY <1>2, <2>2, <2>3 DEF Next
<1> QED
  BY <1>1, <1>2

(* No two logs of one layout have the same flight number: a boot looks at  *)
(* all logs and marks for its number (ao_log_scan), and writes one log.    *)
THEOREM NumbersDiffer == Spec => []FlightsDistinct
<1>1. LogInv /\ NumbersInv => FlightsDistinct
  <2> SUFFICES ASSUME LogInv, NumbersInv, OneLayout, NEW s \in Slots, NEW t \in Slots,
                      ao_log_flight(s) > 0, s # t
               PROVE  ao_log_flight(s) # ao_log_flight(t)
    BY DEF FlightsDistinct
  <2>1. SlotsInv /\ NumbersOK
    BY DEF LogInv, SlotsInv, NumbersInv, OneLayout
  <2>2. DistinctIn(flight_log_max)
    BY <2>1, OneDistinct DEF SlotsInv, NumbersOK, OneLayout
  <2>3. /\ FlightAt(s, flight_log_max) = ao_log_flight(s)
        /\ ao_log_flight(t) > 0 =>
             ao_log_flight(t) = FlightAt(t, flight_log_max)
    BY <2>1, FlightAtLog DEF SlotsInv, NumbersOK
  <2> QED
    BY <2>2, <2>3 DEF DistinctIn, Slots
<1> QED
  BY <1>1, LogsInv, NumbersInitInv, NumbersNextInv, PTL DEF Spec
-----------------------------------------------------------------------------
(* The bisection of ao_log_scan on a tracker.  What follows holds of every *)
(* set of written positions, also of one with holes, as an erase that the  *)
(* power cuts short leaves it.                                             *)
EndOf(written, last) ==
  LET turns[n \in 0 .. last] ==
        IF n = 0 THEN [full |-> 0, empty |-> last]
        ELSE Halved(turns[n - 1], written)
      full == turns[last].full
  IN IF full \in written THEN full + 1 ELSE full

LEMMA FindEndIs == ASSUME NEW W PROVE FindEnd(W) = EndOf(W, LastPos)
BY DEF FindEnd, EndOf

(* The body of the recursion of EndOf, and its solutions up to n.          *)
Turn(turns, W, last, n) ==
  IF n = 0 THEN [full |-> 0, empty |-> last] ELSE Halved(turns[n - 1], W)

Turns(turns, W, last, n) == turns = [i \in 0 .. n |-> Turn(turns, W, last, i)]

(* Induction over the naturals for a set.                                  *)
LEMMA NatSet ==
  ASSUME NEW P \in SUBSET Nat, 0 \in P, \A n \in P : n + 1 \in P
  PROVE  P = Nat
<1> SUFFICES ASSUME Nat \ P # {} PROVE FALSE
  OBVIOUS
<1>1. PICK x \in Nat \ P : \A y \in Nat \ P : x <= y
  BY Least
<1>2. x - 1 \in Nat /\ x = (x - 1) + 1
  BY <1>1
<1>3. x - 1 \in P
  BY <1>1, <1>2
<1> QED
  BY <1>1, <1>2, <1>3

LEMMA TurnsExist ==
  ASSUME NEW W, NEW last, NEW n \in Nat
  PROVE  \E turns : Turns(turns, W, last, n)
<1> DEFINE P == {k \in Nat : \E turns : Turns(turns, W, last, k)}
<1>1. 0 \in P
  <2> DEFINE f == [i \in 0 .. 0 |-> [full |-> 0, empty |-> last]]
  <2>1. f = [i \in 0 .. 0 |-> Turn(f, W, last, i)]
    BY DEF Turn
  <2>2. Turns(f, W, last, 0)
    BY <2>1 DEF Turns
  <2> QED
    BY <2>2
<1>2. ASSUME NEW k \in P PROVE k + 1 \in P
  <2>1. PICK f : Turns(f, W, last, k)
    BY <1>2
  <2> DEFINE g == [i \in 0 .. k+1 |-> IF i = k+1 THEN Turn(f, W, last, i) ELSE f[i]]
  <2>2. ASSUME NEW i \in 0 .. k+1 PROVE g[i] = Turn(g, W, last, i)
    <3>1. i # 0 => i - 1 \in 0 .. k /\ g[i-1] = f[i-1]
      OBVIOUS
    <3>2. Turn(g, W, last, i) = Turn(f, W, last, i)
      BY <3>1 DEF Turn
    <3>3. CASE i = k+1
      BY <3>2, <3>3
    <3>4. CASE i # k+1
      <4>1. i \in 0 .. k
        BY <3>4
      <4>2. f[i] = Turn(f, W, last, i)
        BY <2>1, <4>1 DEF Turns
      <4> QED
        BY <4>1, <4>2, <3>2, <3>4
    <3> QED
      BY <3>3, <3>4
  <2> HIDE DEF g
  <2>3. g = [i \in 0 .. k+1 |-> g[i]]
    BY DEF g
  <2>4. g = [i \in 0 .. k+1 |-> Turn(g, W, last, i)]
    BY <2>2, <2>3
  <2>5. Turns(g, W, last, k+1)
    BY <2>4 DEF Turns
  <2> QED
    BY <2>5
<1>3. P = Nat
  <2> HIDE DEF P
  <2>1. P \in SUBSET Nat
    BY DEF P
  <2> QED
    BY <1>1, <1>2, <2>1, NatSet
<1> QED
  BY <1>3

LEMMA EndIs ==
  ASSUME NEW W, NEW last \in Nat
  PROVE  \E turns :
           /\ Turns(turns, W, last, last)
           /\ EndOf(W, last) = IF turns[last].full \in W THEN turns[last].full + 1
                               ELSE turns[last].full
<1> DEFINE turns == CHOOSE f : f = [i \in 0 .. last |->
                      IF i = 0 THEN [full |-> 0, empty |-> last]
                      ELSE Halved(f[i - 1], W)]
<1>1. EndOf(W, last) = IF turns[last].full \in W THEN turns[last].full + 1
                       ELSE turns[last].full
  BY DEF EndOf
<1>2. \E f : f = [i \in 0 .. last |-> IF i = 0 THEN [full |-> 0, empty |-> last]
                                      ELSE Halved(f[i - 1], W)]
  <2>1. PICK f : Turns(f, W, last, last)
    BY TurnsExist
  <2> QED
    BY <2>1 DEF Turns, Turn
<1>3. turns = [i \in 0 .. last |-> IF i = 0 THEN [full |-> 0, empty |-> last]
                                   ELSE Halved(turns[i - 1], W)]
  BY <1>2
<1> HIDE DEF turns
<1>4. Turns(turns, W, last, last)
  BY <1>3 DEF Turns, Turn
<1> QED
  BY <1>1, <1>4

(* What an interval of the bisection is after n turns: its length goes     *)
(* down to 1, its start is written, its end is not.                        *)
Interval == [full : Nat, empty : Nat]

Bisects(i, W, last, n) ==
  /\ i \in Interval /\ i.full <= i.empty /\ i.empty <= last
  /\ i.full \in W \/ i.full = 0
  /\ i.full \in W => i.full < i.empty \/ last = 0
  /\ i.empty \notin W \/ i.empty = last
  /\ i.empty - i.full <= 1 \/ i.empty - i.full <= last - n

LEMMA Middle ==
  ASSUME NEW a \in Nat, NEW b \in Nat, a <= b
  PROVE  /\ (a + b) \div 2 \in Nat /\ a <= (a + b) \div 2 /\ (a + b) \div 2 <= b
         /\ a < b => (a + b) \div 2 < b
         /\ a + 1 < b => a < (a + b) \div 2
OBVIOUS

LEMMA HalvedIs ==
  ASSUME NEW i \in Interval, NEW W, NEW c, c = (i.full + i.empty) \div 2
  PROVE  /\ c \in W => Halved(i, W) = [full |-> c, empty |-> i.empty]
         /\ c \notin W => Halved(i, W) = [full |-> i.full, empty |-> c]
BY DEF Halved, Interval

LEMMA HalvedBisects ==
  ASSUME NEW W, NEW last \in Nat, NEW n \in Nat, NEW i, Bisects(i, W, last, n)
  PROVE  Bisects(Halved(i, W), W, last, n + 1)
<1>1. i \in Interval /\ i.full \in Nat /\ i.empty \in Nat /\ i.full <= i.empty
  BY DEF Bisects, Interval
<1>2. PICK c : c = (i.full + i.empty) \div 2
  OBVIOUS
<1>3. /\ c \in Nat /\ i.full <= c /\ c <= i.empty
      /\ i.full < i.empty => c < i.empty
      /\ i.full + 1 < i.empty => i.full < c
  BY <1>1, <1>2, Middle
<1>4. CASE c \in W
  <2>1. PICK j : j = Halved(i, W) /\ j = [full |-> c, empty |-> i.empty]
    BY <1>1, <1>2, <1>4, HalvedIs
  <2>2. j \in Interval /\ j.full = c /\ j.empty = i.empty
    BY <1>1, <1>3, <2>1 DEF Interval
  <2> QED
    BY <1>1, <1>3, <1>4, <2>1, <2>2 DEF Bisects
<1>5. CASE c \notin W
  <2>1. PICK j : j = Halved(i, W) /\ j = [full |-> i.full, empty |-> c]
    BY <1>1, <1>2, <1>5, HalvedIs
  <2>2. j \in Interval /\ j.full = i.full /\ j.empty = c
    BY <1>1, <1>3, <2>1 DEF Interval
  <2> QED
    BY <1>1, <1>3, <1>5, <2>1, <2>2 DEF Bisects
<1> QED
  BY <1>4, <1>5

LEMMA TurnsBisect ==
  ASSUME NEW W, NEW last \in Nat, NEW f, Turns(f, W, last, last)
  PROVE  \A n \in 0 .. last : Bisects(f[n], W, last, n)
<1> DEFINE P == {n \in Nat : n <= last => Bisects(f[n], W, last, n)}
<1>1. 0 \in P
  <2>1. f[0] = [full |-> 0, empty |-> last]
    BY DEF Turns, Turn
  <2> QED
    BY <2>1 DEF Bisects, Interval
<1>2. ASSUME NEW n \in P PROVE n + 1 \in P
  <2> SUFFICES ASSUME n + 1 <= last PROVE Bisects(f[n + 1], W, last, n + 1)
    OBVIOUS
  <2>1. n \in Nat /\ Bisects(f[n], W, last, n)
    BY <1>2
  <2>2. f[n + 1] = Halved(f[n], W)
    BY <2>1 DEF Turns, Turn
  <2> QED
    BY <2>1, <2>2, HalvedBisects
<1>3. P = Nat
  <2> HIDE DEF P
  <2>1. P \in SUBSET Nat
    BY DEF P
  <2> QED
    BY <1>1, <1>2, <2>1, NatSet
<1> QED
  BY <1>3

(* The bisections of a set and of a larger one are the same until a        *)
(* position of the larger set only takes the second beyond the first.      *)
Same(i, j, U, V) ==
  \/ i = j
  \/ /\ i.empty <= j.full /\ j.full \in V
     /\ \E x \in V \ U : x <= j.full

LEMMA HalvedSame ==
  ASSUME NEW U \in SUBSET Nat, NEW V \in SUBSET Nat, U \subseteq V,
         NEW last \in Nat, NEW n \in Nat, NEW i, NEW j,
         Bisects(i, U, last, n), Bisects(j, V, last, n), Same(i, j, U, V)
  PROVE  Same(Halved(i, U), Halved(j, V), U, V)
<1>1. /\ i \in Interval /\ i.full \in Nat /\ i.empty \in Nat /\ i.full <= i.empty
      /\ j \in Interval /\ j.full \in Nat /\ j.empty \in Nat /\ j.full <= j.empty
  BY DEF Bisects, Interval
<1>2. PICK c, d : c = (i.full + i.empty) \div 2 /\ d = (j.full + j.empty) \div 2
  OBVIOUS
<1>3. /\ c \in Nat /\ i.full <= c /\ c <= i.empty
      /\ d \in Nat /\ j.full <= d /\ d <= j.empty
  BY <1>1, <1>2, Middle
<1>4. PICK a, b : a = Halved(i, U) /\ b = Halved(j, V)
  OBVIOUS
<1>5. /\ c \in U => a = [full |-> c, empty |-> i.empty]
      /\ c \notin U => a = [full |-> i.full, empty |-> c]
      /\ d \in V => b = [full |-> d, empty |-> j.empty]
      /\ d \notin V => b = [full |-> j.full, empty |-> d]
  BY <1>1, <1>2, <1>4, HalvedIs
<1>6. /\ a.full \in Nat /\ a.empty \in Nat /\ b.full \in Nat /\ b.empty \in Nat
      /\ c \in U => a.full = c /\ a.empty = i.empty
      /\ c \notin U => a.full = i.full /\ a.empty = c
      /\ d \in V => b.full = d /\ b.empty = j.empty
      /\ d \notin V => b.full = j.full /\ b.empty = d
  BY <1>1, <1>3, <1>5
<1>7. CASE i = j
  <2>1. c = d
    BY <1>2, <1>7
  <2>2. CASE c \in U \/ c \notin V
    BY <1>5, <1>7, <2>1, <2>2, <1>4 DEF Same
  <2>3. CASE c \in V \ U
    <3>1. a.empty = c /\ b.full = c
      BY <1>6, <2>1, <2>3
    <3> QED
      BY <1>3, <1>4, <2>3, <3>1 DEF Same
  <2> QED
    BY <2>2, <2>3
<1>8. CASE i # j
  <2>1. PICK x \in V \ U : x <= j.full
    BY <1>8 DEF Same
  <2>2. i.empty <= j.full /\ j.full \in V /\ x \in Nat
    BY <1>8 DEF Same
  <2>3. a.empty <= i.empty /\ j.full <= b.full /\ b.full \in V
    BY <1>1, <1>3, <1>6, <2>2
  <2>4. a.empty <= b.full /\ x <= b.full
    BY <1>1, <1>6, <2>1, <2>2, <2>3
  <2> QED
    BY <1>4, <2>1, <2>3, <2>4 DEF Same
<1> QED
  BY <1>7, <1>8

LEMMA TurnsSame ==
  ASSUME NEW U \in SUBSET Nat, NEW V \in SUBSET Nat, U \subseteq V,
         NEW last \in Nat, NEW f, NEW g,
         Turns(f, U, last, last), Turns(g, V, last, last)
  PROVE  Same(f[last], g[last], U, V)
<1> DEFINE P == {n \in Nat : n <= last => Same(f[n], g[n], U, V)}
<1>1. 0 \in P
  <2>1. f[0] = g[0]
    BY DEF Turns, Turn
  <2> QED
    BY <2>1 DEF Same
<1>2. ASSUME NEW n \in P PROVE n + 1 \in P
  <2> SUFFICES ASSUME n + 1 <= last PROVE Same(f[n + 1], g[n + 1], U, V)
    OBVIOUS
  <2>1. n \in Nat /\ n \in 0 .. last /\ Same(f[n], g[n], U, V)
    BY <1>2
  <2>2. f[n + 1] = Halved(f[n], U) /\ g[n + 1] = Halved(g[n], V)
    BY <2>1 DEF Turns, Turn
  <2>3. Bisects(f[n], U, last, n) /\ Bisects(g[n], V, last, n)
    BY <2>1, TurnsBisect
  <2> QED
    BY <2>1, <2>2, <2>3, HalvedSame
<1>3. P = Nat
  <2> HIDE DEF P
  <2>1. P \in SUBSET Nat
    BY DEF P
  <2> QED
    BY <1>1, <1>2, <2>1, NatSet
<1> QED
  BY <1>3

(* The end that is found, of a set and of a larger one.                    *)
LEMMA EndsSame ==
  ASSUME NEW U \in SUBSET Nat, NEW V \in SUBSET Nat, U \subseteq V, NEW last \in Nat
  PROVE  \E i, j \in Interval :
           /\ Bisects(i, U, last, last) /\ Bisects(j, V, last, last)
           /\ Same(i, j, U, V)
           /\ EndOf(U, last) = IF i.full \in U THEN i.full + 1 ELSE i.full
           /\ EndOf(V, last) = IF j.full \in V THEN j.full + 1 ELSE j.full
<1>1. PICK f : /\ Turns(f, U, last, last)
               /\ EndOf(U, last) = IF f[last].full \in U THEN f[last].full + 1
                                   ELSE f[last].full
  BY EndIs
<1>2. PICK g : /\ Turns(g, V, last, last)
               /\ EndOf(V, last) = IF g[last].full \in V THEN g[last].full + 1
                                   ELSE g[last].full
  BY EndIs
<1>3. Bisects(f[last], U, last, last) /\ Bisects(g[last], V, last, last)
  BY <1>1, <1>2, TurnsBisect
<1>4. Same(f[last], g[last], U, V)
  BY <1>1, <1>2, TurnsSame
<1> QED
  BY <1>1, <1>2, <1>3, <1>4 DEF Bisects

LEMMA EndRange ==
  ASSUME NEW W \in SUBSET Nat, NEW last \in Nat
  PROVE  /\ EndOf(W, last) \in Nat /\ EndOf(W, last) <= last + 1
         /\ 0 < last => EndOf(W, last) <= last
         /\ 0 \in W => 1 <= EndOf(W, last)
<1>1. PICK i \in Interval :
        /\ Bisects(i, W, last, last)
        /\ EndOf(W, last) = IF i.full \in W THEN i.full + 1 ELSE i.full
  BY EndsSame
<1>2. i.full \in Nat /\ i.empty \in Nat /\ i.full <= i.empty /\ i.empty <= last
  BY <1>1 DEF Bisects, Interval
<1> QED
  BY <1>1, <1>2 DEF Bisects

(* More that is written moves the end up, and the more so if it is the     *)
(* place of the end itself.                                                *)
LEMMA EndMoves ==
  ASSUME NEW U \in SUBSET Nat, NEW V \in SUBSET Nat, U \subseteq V, NEW last \in Nat
  PROVE  /\ EndOf(U, last) <= EndOf(V, last)
         /\ EndOf(U, last) \in V /\ EndOf(U, last) < last =>
              EndOf(U, last) < EndOf(V, last)
<1>1. PICK i, j \in Interval :
        /\ Bisects(i, U, last, last) /\ Bisects(j, V, last, last)
        /\ Same(i, j, U, V)
        /\ EndOf(U, last) = IF i.full \in U THEN i.full + 1 ELSE i.full
        /\ EndOf(V, last) = IF j.full \in V THEN j.full + 1 ELSE j.full
  BY EndsSame
<1>2. /\ i.full \in Nat /\ i.empty \in Nat /\ i.full <= i.empty /\ i.empty <= last
      /\ i.empty - i.full <= 1
      /\ i.empty \notin U \/ i.empty = last
      /\ j.full \in Nat /\ j.empty \in Nat /\ j.full <= j.empty /\ j.empty <= last
      /\ j.empty \notin V \/ j.empty = last
  BY <1>1 DEF Bisects, Interval
<1>3. CASE i = j
  BY <1>1, <1>2, <1>3
<1>4. CASE i # j
  <2>1. i.empty <= j.full /\ j.full \in V
    BY <1>1, <1>4 DEF Same
  <2> QED
    BY <1>1, <1>2, <2>1
<1> QED
  BY <1>3, <1>4

(* What comes after the end does not matter for it.                        *)
LEMMA EndCut ==
  ASSUME NEW W \in SUBSET Nat, NEW last \in Nat, NEW m \in Nat, EndOf(W, last) <= m
  PROVE  EndOf(W \cap (0 .. m - 1), last) = EndOf(W, last)
<1> DEFINE U == W \cap (0 .. m - 1)
<1>1. PICK i, j \in Interval :
        /\ Bisects(i, U, last, last) /\ Bisects(j, W, last, last)
        /\ Same(i, j, U, W)
        /\ EndOf(U, last) = IF i.full \in U THEN i.full + 1 ELSE i.full
        /\ EndOf(W, last) = IF j.full \in W THEN j.full + 1 ELSE j.full
  BY EndsSame
<1>2. i.full \in Nat /\ j.full \in Nat
  BY DEF Interval
<1>3. i = j
  <2> SUFFICES ASSUME i # j PROVE FALSE
    OBVIOUS
  <2>1. j.full \in W
    BY <1>1 DEF Same
  <2>2. PICK x \in W \ U : x <= j.full
    BY <1>1 DEF Same
  <2>3. x \in Nat /\ m <= x
    BY <2>2
  <2> QED
    BY <1>1, <1>2, <2>1, <2>2, <2>3
<1> QED
  BY <1>1, <1>2, <1>3

-----------------------------------------------------------------------------
(* The log of a tracker.  Its memory is one slot.                          *)
Headed == flash[0].type = "flight"

NoRecords == \A p \in Positions : ~IsRecord(flash[p])

Below(m) == Written \cap (0 .. m - 1)

(* However much of the log an erase leaves, its end is found beyond every  *)
(* record, the one of the last position aside.                             *)
Findable ==
  \A m \in 0 .. LastPos + 1 : \A p \in Positions \ {LastPos} :
    p < m /\ IsRecord(flash[p]) => p < EndOf(Below(m), LastPos)

(* So it is if a record is written at c, and at c or after it before that. *)
Reach(c) == c < LastPos => \A m \in c .. LastPos + 1 : c <= EndOf(Below(m), LastPos)

RecordsTo(c) == \A p \in Positions \ {LastPos} : IsRecord(flash[p]) => p < c

FlashOK == (Headed \/ NoRecords) /\ Findable

LEMMA FlashSame ==
  ASSUME board' = board, flash' = flash
  PROVE  /\ Blocks' = Blocks /\ Positions' = Positions /\ LastPos' = LastPos
         /\ Written' = Written /\ Headed' = Headed /\ NoRecords' = NoRecords
         /\ Findable' = Findable /\ FlashOK' = FlashOK
         /\ \A c : Reach(c)' = Reach(c) /\ RecordsTo(c)' = RecordsTo(c)
<1>1. /\ Blocks' = Blocks /\ Positions' = Positions /\ LastPos' = LastPos
      /\ Written' = Written /\ Headed' = Headed /\ NoRecords' = NoRecords
      /\ \A m : Below(m)' = Below(m)
  BY DEF Blocks, Positions, LastPos, Written, Headed, NoRecords, Below
<1>2. Findable' = Findable
  BY <1>1 DEF Findable
<1>3. \A c : Reach(c)' = Reach(c) /\ RecordsTo(c)' = RecordsTo(c)
  BY <1>1 DEF Reach, RecordsTo
<1> QED
  BY <1>1, <1>2, <1>3 DEF FlashOK

TrackLayout ==
  /\ LayoutTypeOK
  /\ flight_log_max = Blocks /\ saved \in {Lost, Blocks}
  /\ target = 0

LEMMA Memory ==
  ASSUME board.tracker, LayoutTypeOK
  PROVE  /\ Blocks \in Nat \ {0} /\ Blocks \in Sizes /\ board.log = Blocks
         /\ PerBlock \in Nat \ {0} /\ LastPos \in Nat
         /\ LastPos + 1 = Blocks * PerBlock /\ Positions = 0 .. LastPos
         /\ Written \in SUBSET Nat /\ \A m : Below(m) \in SUBSET Nat
<1>1. /\ Blocks \in Nat \ {0} /\ board.log = Blocks /\ Blocks \in Sizes
      /\ PerBlock \in Nat \ {0}
  BY StorageAssumption, ConfigAssumption DEF LayoutTypeOK, Blocks
<1>2. PICK n : n = Blocks * PerBlock /\ n \in Nat \ {0}
  BY <1>1
<1>3. LastPos = n - 1 /\ Positions = 0 .. n - 1
  BY <1>2 DEF LastPos, Positions
<1>4. LastPos \in Nat /\ Positions = 0 .. LastPos /\ LastPos + 1 = n
  BY <1>2, <1>3
<1>5. Written \in SUBSET Nat
  BY <1>4 DEF Written
<1>6. \A m : Below(m) \in SUBSET Nat
  BY <1>5 DEF Below
<1> QED
  BY <1>1, <1>2, <1>4, <1>5, <1>6

LEMMA OneSlot ==
  ASSUME board.tracker, TrackLayout
  PROVE  /\ Slots = {0} /\ ao_log_pos(0) = 0
         /\ ao_log_pos_block_end(0) = LastPos + 1
<1>1. /\ Blocks \in Nat \ {0} /\ PerBlock \in Nat \ {0} /\ flight_log_max = Blocks
      /\ LastPos + 1 = Blocks * PerBlock
  BY Memory DEF TrackLayout
<1>2. Blocks \div Blocks = 1
  BY <1>1
<1>3. Slots = 0 .. 0
  BY <1>1, <1>2 DEF Slots, SlotsOf
<1>4. 0 * flight_log_max = 0 /\ 0 * PerBlock = 0 /\ (0 + 1) * flight_log_max = Blocks
  BY <1>1
<1> QED
  BY <1>1, <1>3, <1>4 DEF ao_log_pos, ao_log_pos_block_end

(* A block, and what comes before and after it.                            *)
LEMMA BlockAt ==
  ASSUME board.tracker, LayoutTypeOK, NEW b \in 0 .. Blocks - 1
  PROVE  /\ b * PerBlock \in 0 .. LastPos + 1 /\ (b + 1) * PerBlock \in 0 .. LastPos + 1
         /\ b - 1 + 1 = b
         /\ Block(b) = b * PerBlock .. (b + 1) * PerBlock - 1
<1>1. /\ Blocks \in Nat \ {0} /\ PerBlock \in Nat \ {0}
      /\ LastPos + 1 = Blocks * PerBlock
  BY Memory
<1>2. b * PerBlock \in Nat /\ (b + 1) * PerBlock \in Nat /\ Blocks * PerBlock \in Nat
  BY <1>1
<1>3. b * PerBlock <= Blocks * PerBlock /\ (b + 1) * PerBlock <= Blocks * PerBlock
  BY <1>1, Monotonic
<1> QED
  BY <1>1, <1>2, <1>3 DEF Block

(* A record more, at the place of the log.                                 *)
LEMMA RecordMore ==
  ASSUME board.tracker, LayoutTypeOK, board' = board, FlashOK,
         NEW c \in Positions, NEW x, x # Erased,
         flash' = [flash EXCEPT ![c] = x], Reach(c), RecordsTo(c)
  PROVE  Findable' /\ Reach(c + 1)' /\ RecordsTo(c + 1)'
<1>1. /\ LastPos \in Nat /\ Positions = 0 .. LastPos /\ c \in Nat /\ c <= LastPos
      /\ \A m : Below(m) \in SUBSET Nat
      /\ LastPos' = LastPos /\ Positions' = Positions
  BY Memory DEF LastPos, Positions, Blocks
<1>2. \A p \in Positions : flash'[p] = IF p = c THEN x ELSE flash[p]
  BY DEF LayoutTypeOK
<1>3. ASSUME NEW m \in 0 .. LastPos + 1
      PROVE  /\ Below(m)' = Below(m) \cup (IF c < m THEN {c} ELSE {})
             /\ Below(m) \subseteq Below(m)' /\ Below(m)' \in SUBSET Nat
  BY <1>1, <1>2 DEF Below, Written
<1>4. ASSUME NEW m \in 0 .. LastPos + 1
      PROVE  /\ EndOf(Below(m), LastPos) \in Nat /\ EndOf(Below(m)', LastPos) \in Nat
             /\ EndOf(Below(m), LastPos) <= EndOf(Below(m)', LastPos)
  BY <1>1, <1>3, EndMoves, EndRange
<1>5. ASSUME NEW m \in c + 1 .. LastPos + 1, c < LastPos
      PROVE  c < EndOf(Below(m)', LastPos)
  <2>1. m \in 0 .. LastPos + 1 /\ m \in c .. LastPos + 1 /\ c < m
    BY <1>1, <1>5
  <2>2. c <= EndOf(Below(m), LastPos) /\ c \in Below(m)'
    BY <1>3, <1>5, <2>1 DEF Reach
  <2>3. CASE c = EndOf(Below(m), LastPos)
    BY <1>1, <1>3, <1>5, <2>1, <2>2, <2>3, EndMoves
  <2>4. CASE c # EndOf(Below(m), LastPos)
    BY <1>1, <1>4, <2>1, <2>2, <2>4
  <2> QED
    BY <2>3, <2>4
<1>6. Findable'
  <2> SUFFICES ASSUME NEW m \in 0 .. LastPos + 1, NEW p \in Positions \ {LastPos},
                      p < m, IsRecord(flash'[p])
               PROVE  p < EndOf(Below(m)', LastPos)
    BY <1>1 DEF Findable
  <2>1. CASE p = c
    BY <1>1, <1>5, <2>1
  <2>2. CASE p # c
    <3>1. p < EndOf(Below(m), LastPos)
      BY <1>2, <2>2 DEF FlashOK, Findable
    <3> QED
      BY <1>1, <1>4, <3>1
  <2> QED
    BY <2>1, <2>2
<1>7. Reach(c + 1)'
  <2> SUFFICES ASSUME c + 1 < LastPos, NEW m \in c + 1 .. LastPos + 1
               PROVE  c + 1 <= EndOf(Below(m)', LastPos)
    BY <1>1 DEF Reach
  <2>1. c < EndOf(Below(m)', LastPos)
    BY <1>1, <1>5
  <2> QED
    BY <1>1, <1>4, <2>1
<1>8. RecordsTo(c + 1)'
  BY <1>1, <1>2 DEF RecordsTo
<1> QED
  BY <1>6, <1>7, <1>8

(* The records from a position on are lost, but for bits of them perhaps.  *)
LEMMA RecordsLess ==
  ASSUME board.tracker, LayoutTypeOK, board' = board, FlashOK, NEW k \in 0 .. LastPos + 1,
         \A p \in Positions : IF p < k THEN flash'[p] = flash[p]
                              ELSE ~IsRecord(flash'[p])
  PROVE  FlashOK'
<1>1. /\ LastPos \in Nat /\ Positions = 0 .. LastPos /\ k \in Nat /\ k <= LastPos + 1
      /\ LastPos' = LastPos /\ Positions' = Positions
      /\ \A m : Below(m) \in SUBSET Nat
  BY Memory DEF LastPos, Positions, Blocks
<1>2. Headed' \/ NoRecords'
  <2>1. CASE k = 0
    BY <1>1, <2>1 DEF NoRecords
  <2>2. CASE k # 0
    <3>1. flash'[0] = flash[0]
      BY <1>1, <2>2
    <3> QED
      BY <1>1, <3>1 DEF FlashOK, Headed, NoRecords
  <2> QED
    BY <2>1, <2>2
<1>3. Findable'
  <2> SUFFICES ASSUME NEW m \in 0 .. LastPos + 1, NEW p \in Positions \ {LastPos},
                      p < m, IsRecord(flash'[p])
               PROVE  p < EndOf(Below(m)', LastPos)
    BY <1>1 DEF Findable
  <2>1. p < k /\ IsRecord(flash[p])
    BY <1>1
  <2>2. PICK q \in 0 .. LastPos + 1 : q <= m /\ q <= k /\ p < q
    BY <1>1, <2>1
  <2>3. p < EndOf(Below(q), LastPos)
    BY <2>1, <2>2 DEF FlashOK, Findable
  <2>4. Below(q)' = Below(q) /\ Below(q)' \subseteq Below(m)' /\ Below(m)' \in SUBSET Nat
    BY <1>1, <2>2 DEF Below, Written
  <2>5. /\ EndOf(Below(q), LastPos) \in Nat /\ EndOf(Below(m)', LastPos) \in Nat
        /\ EndOf(Below(q), LastPos) <= EndOf(Below(m)', LastPos)
    BY <1>1, <2>4, EndMoves, EndRange
  <2> QED
    BY <1>1, <2>3, <2>5
<1> QED
  BY <1>2, <1>3 DEF FlashOK

(* The end that a scan finds is one where the log can go on.               *)
LEMMA EndFits ==
  ASSUME board.tracker, LayoutTypeOK, FlashOK, Headed
  PROVE  /\ FindEnd(Written) \in 1 .. LastPos + 1
         /\ Reach(FindEnd(Written)) /\ RecordsTo(FindEnd(Written))
<1>1. /\ LastPos \in Nat /\ Positions = 0 .. LastPos /\ Written \in SUBSET Nat
      /\ FindEnd(Written) = EndOf(Written, LastPos)
  BY Memory, FindEndIs
<1>2. PICK c : c = EndOf(Written, LastPos) /\ c \in Nat /\ c <= LastPos + 1
  BY <1>1, EndRange
<1>3. 0 \in Written
  BY <1>1 DEF Headed, Written, Erased
<1>4. Below(LastPos + 1) = Written
  BY <1>1 DEF Below, Written
<1>5. 1 <= c
  BY <1>1, <1>2, <1>3, EndRange
<1>6. Reach(c)
  <2> SUFFICES ASSUME NEW m \in c .. LastPos + 1 PROVE c <= EndOf(Below(m), LastPos)
    BY DEF Reach
  <2>1. EndOf(Below(m), LastPos) = c
    BY <1>1, <1>2, EndCut DEF Below
  <2> QED
    BY <1>2, <2>1
<1>7. RecordsTo(c)
  BY <1>1, <1>2, <1>4 DEF FlashOK, Findable, RecordsTo
<1> QED
  BY <1>1, <1>2, <1>5, <1>6, <1>7

(* The number of the log, 0 if it has none.                                *)
Number == IF Headed THEN flash[0].flight ELSE 0

LEMMA OneNumber ==
  ASSUME board.tracker, TrackLayout, NumberTypeOK
  PROVE  /\ ao_log_max_flight = Number /\ Number \in 0 .. MaxNumber - 1
         /\ Number # 0 <=> Headed
<1>1. /\ Slots = {0} /\ ao_log_pos(0) = 0 /\ LayoutTypeOK
      /\ Positions = 0 .. LastPos /\ LastPos \in Nat /\ MaxNumber \in Nat
  BY OneSlot, Memory, ConfigAssumption DEF TrackLayout
<1>2. Number \in 0 .. MaxNumber - 1 /\ (Number # 0 <=> Headed)
  BY <1>1, ConfigAssumption DEF Number, Headed, NumberTypeOK
<1>3. FlightAt(0, flight_log_max) = Number
  BY <1>1 DEF FlightAt, Number, Headed, ao_log_pos
<1>4. PICK f : f = ao_log_flight(0)
  OBVIOUS
<1>5. f \in Int /\ (f > 0 => f = Number) /\ (Number > 0 => f = Number)
  BY <1>1, <1>3, <1>4, FlightAtLog
<1>6. Flights = {f}
  BY <1>1, <1>4 DEF Flights
<1>7. /\ Number \in Numbers /\ Number \in Flights \cup {0}
      /\ \A g \in Flights : g <= Number
  BY <1>1, <1>2, <1>5, <1>6 DEF Numbers
<1>8. \A n \in Numbers :
        n \in Flights \cup {0} /\ (\A g \in Flights : g <= n) => n = Number
  BY <1>1, <1>2, <1>5, <1>6 DEF Numbers
<1>9. ao_log_max_flight = Number
  BY <1>7, <1>8 DEF ao_log_max_flight
<1> QED
  BY <1>2, <1>9

(* What always holds of a tracker.                                         *)
TrackNumbers ==
  /\ NumberTypeOK
  /\ log \in {"scan", "marks", "loop", "lock", "first", "data"}
  /\ log \in {"loop", "lock", "first", "data"} => ao_flight_number # 0
  /\ log = "first" => ao_flight_number < MaxNumber

TrackPlace ==
  /\ ao_log_current_pos \in 0 .. LastPos + 1
  /\ ao_log_end_pos \in 0 .. LastPos + 1

TrackErase ==
  /\ console \in {"none", "look", "start", "save", "mark", "marked", "erase", "zap"}
  /\ Erasing => /\ erasing.first = 0 /\ erasing.at \in 0 .. Blocks - 1
                /\ console \in {"erase", "zap"}

(* tracker_mutex is held by the tracker as it writes, and by an erase that *)
(* it is told of.                                                          *)
TrackerMutex ==
  /\ log \in {"first", "data"} => tracker_mutex = "tracker"
  /\ console = "start" => erasing_current
  /\ console \in {"mark", "marked", "erase"} /\ erasing_current =>
       tracker_mutex = "console"

TrackTypes ==
  TrackLayout /\ TrackNumbers /\ TrackPlace /\ TrackErase /\ TrackerMutex

(* What a step of a tracker does to the flash.                             *)
WriteStep ==
  /\ TrackerFirst \/ TrackerData
  /\ log \in {"first", "data"}
  /\ ao_log_running /\ ao_log_current_pos < ao_log_end_pos
  /\ \E x \in {Flight(ao_flight_number), Sensor, flash[0]} :
       ao_storage_write(ao_log_current_pos, x)
  /\ ao_log_current_pos' = ao_log_current_pos + 1

LEMMA FlashSteps ==
  ASSUME TrackerNext
  PROVE  flash' = flash \/ WriteStep \/ EraseStep \/ TrackerPowerCycle
<1>1. ASSUME NEW record \in {Flight(ao_flight_number), Sensor, flash[0]},
             ao_log_write(record)
      PROVE  \/ flash' = flash /\ ao_log_current_pos' = ao_log_current_pos
             \/ /\ ao_log_running /\ ao_log_current_pos < ao_log_end_pos
                /\ ao_storage_write(ao_log_current_pos, record)
                /\ ao_log_current_pos' = ao_log_current_pos + 1
  BY <1>1 DEF ao_log_write
<1>2. CASE TrackerFirst
  <2>1. PICK record \in {Flight(ao_flight_number), flash[0]} : ao_log_write(record)
    BY <1>2 DEF TrackerFirst, ao_log_data
  <2>2. log = "first"
    BY <1>2 DEF TrackerFirst
  <2> QED
    BY <1>1, <1>2, <2>1, <2>2 DEF WriteStep
<1>3. CASE TrackerData
  <2>1. PICK record \in {Sensor, flash[0]} : ao_log_write(record)
    BY <1>3 DEF TrackerData, ao_log_data
  <2>2. log = "data"
    BY <1>3 DEF TrackerData
  <2> QED
    BY <1>1, <1>3, <2>1, <2>2 DEF WriteStep
<1>4. CASE ScanFlights \/ TrackerScan \/ TrackerLoop \/ TrackerLock
  BY <1>4 DEF ScanFlights, TrackerScan, TrackerLoop, TrackerLock, storageVars
<1>5. CASE TrackerConsoleStep
  BY <1>5 DEF TrackerConsoleStep, Look, Looked, LookDelete, ao_tracker_erase_start,
    ao_tracker_erase_end, TrackerZapAll, ZapAll, DeleteMark, DeleteErase, Save,
    Saved, PutNext, EraseDone, storageVars
<1> QED
  BY <1>2, <1>3, <1>4, <1>5 DEF TrackerNext, TrackerTaskStep

LEMMA TrackLayoutKept ==
  ASSUME board.tracker, TrackTypes, TrackerNext, board' = board
  PROVE  TrackLayout' /\ TrackErase'
<1>1. /\ TrackLayout /\ LayoutTypeOK /\ TrackErase
      /\ Blocks \in Nat \ {0} /\ Blocks \in Sizes /\ board.log = Blocks
      /\ Blocks' = Blocks /\ Positions' = Positions
  BY Memory DEF TrackTypes, TrackLayout, Blocks, Positions
<1>2. flash' = [p \in Positions |-> flash'[p]]
  <2>1. CASE flash' = flash
    BY <1>1, <2>1 DEF LayoutTypeOK
  <2>2. CASE WriteStep
    BY <1>1, <2>2 DEF WriteStep, ao_storage_write, LayoutTypeOK
  <2>3. CASE EraseStep
    BY <1>1, <2>3 DEF EraseStep, EraseBlock, EraseFails, ao_storage_device_erase,
      LayoutTypeOK
  <2>4. CASE TrackerPowerCycle
    <3>1. flash' \in {flash} \cup HalfWritten \cup (IF Erasing THEN HalfErased ELSE {})
      BY <2>4 DEF TrackerPowerCycle, PowerCycle
    <3> QED
      BY <1>1, <3>1 DEF HalfWritten, HalfErased, LayoutTypeOK
  <2> QED
    BY <2>1, <2>2, <2>3, <2>4, FlashSteps
<1>3. erasing' \in [at : Int, first : Nat] /\ TrackErase'
  <2>1. CASE TrackerTaskStep
    <3>1. UNCHANGED <<erasing, console>>
      BY <2>1 DEF TrackerTaskStep, ScanFlights, TrackerScan, TrackerLoop, TrackerLock,
        TrackerFirst, TrackerData, storageVars, consoleVars
    <3> QED
      BY <1>1, <3>1 DEF LayoutTypeOK, TrackErase, Erasing
  <2>2. CASE DeleteErase
    <3>1. target * flight_log_max = 0 /\ flight_log_max = Blocks
      BY <1>1 DEF TrackLayout
    <3>2. erasing' = [at |-> Blocks - 1, first |-> 0] /\ console' = "erase"
      BY <1>1, <2>2, <3>1 DEF DeleteErase, ao_storage_erase
    <3> QED
      BY <1>1, <3>2 DEF TrackErase, Erasing
  <2>3. CASE TrackerZapAll
    <3>1. erasing' = [at |-> Blocks - 1, first |-> 0] /\ console' = "zap"
      BY <1>1, <2>3 DEF TrackerZapAll, ZapAll, ao_storage_erase
    <3> QED
      BY <1>1, <3>1 DEF TrackErase, Erasing
  <2>4. CASE EraseStep
    <3>1. console' = console /\ Erasing /\ erasing.first = 0 /\ erasing.at \in 0 .. Blocks - 1
      BY <1>1, <2>4 DEF EraseStep, EraseBlock, EraseFails, TrackErase, consoleVars
    <3>2. \/ erasing' = NotErasing
          \/ erasing.at # 0 /\ erasing' = [erasing EXCEPT !.at = erasing.at - 1]
      BY <2>4, <3>1 DEF EraseStep, EraseBlock, EraseFails
    <3> QED
      BY <1>1, <3>1, <3>2 DEF TrackErase, Erasing, NotErasing, LayoutTypeOK
  <2>5. CASE TrackerPowerCycle
    <3>1. erasing' = NotErasing /\ console' = "none"
      BY <2>5 DEF TrackerPowerCycle, PowerCycle
    <3> QED
      BY <3>1 DEF TrackErase, Erasing, NotErasing
  <2>6. CASE /\ TrackerConsoleStep
             /\ ~DeleteErase /\ ~TrackerZapAll /\ ~EraseStep
    <3>1. /\ erasing' = erasing
          /\ \/ console' = console
             \/ /\ console' \in {"none", "look", "start", "save", "mark", "marked"}
                /\ console \notin {"erase", "zap"} \/ ~Erasing
      BY <2>6 DEF TrackerConsoleStep, Look, Looked, LookDelete, ao_tracker_erase_start,
        ao_tracker_erase_end, DeleteMark, Save, Saved, PutNext, EraseDone,
        storageVars, consoleVars, Prompt
    <3> QED
      BY <1>1, <3>1 DEF TrackErase, Erasing, LayoutTypeOK
  <2> QED
    BY <2>1, <2>2, <2>3, <2>4, <2>5, <2>6 DEF TrackerNext
<1>4. flight_log_max' = Blocks /\ saved' \in {Lost, Blocks} /\ target' = 0
  <2> USE DEF TrackLayout
  <2>1. CASE TrackerTaskStep
    BY <1>1, <2>1 DEF TrackerTaskStep, ScanFlights, TrackerScan, TrackerLoop,
      TrackerLock, TrackerFirst, TrackerData, configVars, consoleVars
  <2>2. CASE PutNext
    BY <1>1, <2>2 DEF PutNext, PutStep, PutErase, PutConfig, PutMark, PutClear,
      consoleVars
  <2>3. CASE DeleteMark
    BY <1>1, <2>3 DEF DeleteMark, ao_log_erase_mark
  <2>4. CASE TrackerConsoleStep /\ ~PutNext /\ ~DeleteMark
    BY <1>1, <2>4 DEF TrackerConsoleStep, Look, Looked, LookDelete,
      ao_tracker_erase_start, ao_tracker_erase_end, TrackerZapAll, ZapAll,
      DeleteErase, EraseStep, Save, Saved, EraseDone, configVars, consoleVars
  <2>5. CASE TrackerPowerCycle
    BY <1>1, <2>5 DEF TrackerPowerCycle, PowerCycle, ao_config_get
  <2> QED
    BY <2>1, <2>2, <2>3, <2>4, <2>5 DEF TrackerNext
<1> QED
  BY <1>1, <1>2, <1>3, <1>4 DEF TrackLayout, LayoutTypeOK

(* What a scan finds (ao_log_scan with FLIGHT_LOG_APPEND).                 *)
LEMMA ScanFinds ==
  ASSUME board.tracker, TrackLayout, NumberTypeOK,
         NEW number \in 0 .. MaxNumber, ScanAppend(number)
  PROVE  /\ ao_flight_number' \in Numbers \ {0}
         /\ ao_log_current_pos' \in 0 .. LastPos + 1 /\ ao_log_end_pos' = LastPos + 1
         /\ number = 0 => ao_log_current_pos' = 0 /\ ~log_started'
         /\ number # 0 => ao_log_current_pos' = FindEnd(Written) /\ log_started'
<1>1. /\ ao_log_pos(0) = 0 /\ ao_log_pos_block_end(0) = LastPos + 1
      /\ LastPos \in Nat /\ Written \in SUBSET Nat /\ FindEnd(Written) = EndOf(Written, LastPos)
  BY OneSlot, Memory, FindEndIs DEF TrackLayout
<1>2. EndOf(Written, LastPos) \in 0 .. LastPos + 1
  BY <1>1, EndRange
<1>3. FromMarks(0) \in Numbers \ {0}
  BY MarksRaise, ConfigAssumption DEF Numbers
<1>4. MaxNumber \in Nat
  BY ConfigAssumption
<1>5. CASE number = 0
  <2>1. ~log_started'
    BY <1>5, Zenon DEF ScanAppend
  <2>2. /\ ao_flight_number' = FromMarks(0) /\ ao_log_current_pos' = ao_log_pos(0)
        /\ ao_log_end_pos' = ao_log_pos_block_end(0)
    BY <1>5 DEF ScanAppend
  <2> QED
    BY <1>1, <1>3, <1>5, <2>1, <2>2
<1>6. CASE number # 0
  BY <1>1, <1>2, <1>4, <1>6 DEF ScanAppend, Numbers
<1> QED
  BY <1>5, <1>6

LEMMA TrackNumbersKept ==
  ASSUME board.tracker, TrackTypes, TrackerNext, board' = board
  PROVE  TrackNumbers' /\ TrackPlace'
<1>1. /\ TrackLayout /\ LayoutTypeOK /\ NumberTypeOK /\ TrackNumbers /\ TrackPlace
      /\ TrackErase /\ TrackerMutex
      /\ LastPos \in Nat /\ LastPos' = LastPos /\ Positions' = Positions /\ Positions = 0 .. LastPos
      /\ MaxNumber \in Nat \ {0}
  BY Memory, ConfigAssumption
  DEF TrackTypes, TrackLayout, TrackNumbers, Blocks, Positions, LastPos
<1>2. CASE ScanFlights /\ UNCHANGED trackerVars
  <2>1. ao_flight_number' \in 0 .. MaxNumber - 1
    BY <1>1, <1>2, MaxFlight DEF ScanFlights
  <2> QED
    BY <1>1, <1>2, <2>1 DEF ScanFlights, storageVars, configVars, TrackNumbers,
      NumberTypeOK, TrackPlace, Numbers
<1>3. CASE TrackerScan
  <2>1. ao_flight_number \in 0 .. MaxNumber
    BY <1>1 DEF NumberTypeOK, Numbers
  <2>2. ScanAppend(ao_flight_number)
    BY <1>3 DEF TrackerScan
  <2>3. /\ ao_flight_number' \in Numbers \ {0}
        /\ ao_log_current_pos' \in 0 .. LastPos + 1 /\ ao_log_end_pos' = LastPos + 1
    BY <1>1, <2>1, <2>2, ScanFinds
  <2> QED
    BY <1>1, <1>3, <2>3 DEF TrackerScan, storageVars, configVars, TrackNumbers,
      NumberTypeOK, TrackPlace
<1>4. CASE TrackerLoop \/ TrackerLock
  BY <1>1, <1>4 DEF TrackerLoop, TrackerLock, storageVars, configVars, trackerVars,
    TrackNumbers, NumberTypeOK, TrackPlace, Numbers
<1>5. CASE TrackerFirst \/ TrackerData
  <2>1. /\ UNCHANGED <<marks, ao_flight_number, ao_log_end_pos>>
        /\ log \in {"first", "data"}
        /\ log' \in {"data", "loop"}
        /\ ao_log_current_pos' \in 0 .. LastPos + 1
    <3>1. ASSUME NEW x, ao_log_write(x)
          PROVE  /\ ao_log_end_pos' = ao_log_end_pos
                 /\ ao_log_current_pos' \in 0 .. LastPos + 1
      BY <1>1, <3>1 DEF ao_log_write, TrackPlace
    <3>2. CASE TrackerFirst
      BY <3>1, <3>2 DEF TrackerFirst, configVars
    <3>3. CASE TrackerData
      BY <3>1, <3>3 DEF TrackerData, configVars
    <3> QED
      BY <1>5, <3>2, <3>3
  <2>2. ASSUME NEW p \in Positions, flash'[p].type = "flight"
        PROVE  flash'[p].flight \in 1 .. MaxNumber - 1
    <3>1. CASE flash' = flash
      BY <1>1, <2>2, <3>1 DEF NumberTypeOK
    <3>2. CASE TrackerFirst /\ flash' # flash
      <4>1. ao_flight_number \in 1 .. MaxNumber - 1
        BY <1>1, <3>2 DEF TrackerFirst, TrackNumbers, NumberTypeOK, Numbers
      <4>2. \E x \in {Flight(ao_flight_number), flash[0], Torn} :
              flash' = [flash EXCEPT ![ao_log_current_pos] = x]
        BY <3>2 DEF TrackerFirst, ao_log_data, ao_log_write, ao_storage_write
      <4>3. flash'[p] \in {Flight(ao_flight_number), flash[0], Torn, flash[p]}
        BY <1>1, <4>2 DEF LayoutTypeOK
      <4> QED
        BY <1>1, <2>2, <4>1, <4>3 DEF NumberTypeOK, Flight, Torn
    <3>3. CASE TrackerData /\ flash' # flash
      <4>1. \E x \in {Sensor, flash[0], Torn} :
              flash' = [flash EXCEPT ![ao_log_current_pos] = x]
        BY <3>3 DEF TrackerData, ao_log_data, ao_log_write, ao_storage_write
      <4>2. flash'[p] \in {Sensor, flash[0], Torn, flash[p]}
        BY <1>1, <4>1 DEF LayoutTypeOK
      <4> QED
        BY <1>1, <2>2, <4>2 DEF NumberTypeOK, Sensor, Torn
    <3> QED
      BY <1>5, <3>1, <3>2, <3>3
  <2>3. NumberTypeOK'
    BY <1>1, <2>1, <2>2 DEF NumberTypeOK
  <2> QED
    BY <1>1, <2>1, <2>3 DEF TrackNumbers, TrackPlace
<1>6. CASE ao_tracker_erase_start
  <2>1. /\ flash' = flash /\ marks' = marks /\ log' = log /\ log # "first"
        /\ ao_flight_number' = ao_flight_number + 1 /\ ao_flight_number < MaxNumber
        /\ UNCHANGED <<ao_log_current_pos, ao_log_end_pos>>
    BY <1>1, <1>6 DEF ao_tracker_erase_start, storageVars, configVars, TrackerMutex
  <2>2. ao_flight_number' \in Numbers \ {0}
    BY <1>1, <2>1 DEF NumberTypeOK, Numbers
  <2> QED
    BY <1>1, <2>1, <2>2 DEF NumberTypeOK, TrackNumbers, TrackPlace
<1>7. CASE ao_tracker_erase_end
  <2>1. ScanAppend(ao_log_max_flight) /\ ao_log_max_flight \in 0 .. MaxNumber
    BY <1>1, <1>7, MaxFlight DEF ao_tracker_erase_end
  <2>2. /\ ao_flight_number' \in Numbers \ {0}
        /\ ao_log_current_pos' \in 0 .. LastPos + 1 /\ ao_log_end_pos' = LastPos + 1
    BY <1>1, <2>1, ScanFinds
  <2>3. flash' = flash /\ marks' = marks /\ log' = log /\ log # "first"
    BY <1>1, <1>7 DEF ao_tracker_erase_end, storageVars, configVars, TrackerMutex
  <2> QED
    BY <1>1, <2>2, <2>3 DEF NumberTypeOK, TrackNumbers, TrackPlace
<1>8. CASE EraseStep \/ DeleteMark \/ PutNext
  <2>1. /\ UNCHANGED <<log, ao_flight_number, ao_log_current_pos, ao_log_end_pos>>
        /\ \A p \in Positions : flash'[p] \in {flash[p], Erased}
        /\ EraseStep => marks' = marks
    BY <1>8 DEF EraseStep, EraseBlock, EraseFails, ao_storage_device_erase, taskVars,
      DeleteMark, ao_log_erase_mark, PutNext, PutStep, storageVars, configVars
  <2>2. marks' \in [Marks -> Numbers \cup {NoMark}]
    BY <1>1, <1>8, <2>1, MarksTyped DEF NumberTypeOK
  <2> QED
    BY <1>1, <2>1, <2>2 DEF NumberTypeOK, TrackNumbers, TrackPlace, Erased
<1>9. CASE /\ TrackerConsoleStep
           /\ ~ao_tracker_erase_start /\ ~ao_tracker_erase_end
           /\ ~EraseStep /\ ~DeleteMark /\ ~PutNext
  <2>1. UNCHANGED <<flash, marks, log, ao_flight_number, ao_log_current_pos,
                    ao_log_end_pos>>
    BY <1>9 DEF TrackerConsoleStep, Look, Looked, LookDelete, TrackerZapAll, ZapAll,
      DeleteErase, Save, Saved, EraseDone, storageVars, configVars, taskVars
  <2> QED
    BY <1>1, <2>1 DEF NumberTypeOK, TrackNumbers, TrackPlace
<1>10. CASE TrackerPowerCycle
  <2>1. /\ marks' = marks /\ log' = "scan" /\ ao_flight_number' = 0
        /\ ao_log_current_pos' = 0 /\ ao_log_end_pos' = 0
        /\ PowerCycle
    BY <1>10 DEF TrackerPowerCycle, PowerCycle
  <2>2. \A p \in Positions : flash'[p] \in {flash[p], Torn, Erased}
    BY <1>1, <2>1, PowerLeaves
  <2> QED
    BY <1>1, <2>1, <2>2 DEF NumberTypeOK, TrackNumbers, TrackPlace, Torn, Erased, Numbers
<1> QED
  BY <1>2, <1>3, <1>4, <1>5, <1>6, <1>7, <1>8, <1>9, <1>10
  DEF TrackerNext, TrackerTaskStep

LEMMA TrackerMutexKept ==
  ASSUME TrackTypes, TrackerNext
  PROVE  TrackerMutex'
<1>1. TrackerMutex /\ TrackErase /\ log \in {"scan", "marks", "loop", "lock", "first", "data"}
  BY DEF TrackTypes, TrackNumbers
<1>2. CASE TrackerTaskStep
  BY <1>1, <1>2 DEF TrackerTaskStep, ScanFlights, TrackerScan, TrackerLoop, TrackerLock,
    TrackerFirst, TrackerData, consoleVars, trackerVars, TrackerMutex
<1>3. CASE TrackerConsoleStep
  BY <1>1, <1>3 DEF TrackerConsoleStep, Look, Looked, LookDelete,
    ao_tracker_erase_start, ao_tracker_erase_end, TrackerZapAll, ZapAll, DeleteMark,
    DeleteErase, EraseStep, Save, Saved, PutNext, EraseDone, consoleVars,
    taskVars,
    trackerVars, TrackerMutex, Prompt
<1>4. CASE TrackerPowerCycle
  BY <1>4 DEF TrackerPowerCycle, PowerCycle, TrackerMutex
<1> QED
  BY <1>2, <1>3, <1>4 DEF TrackerNext

(* What holds until the first record may be lost.                          *)
EraseBehind ==
  Erasing => \A p \in Positions : p >= (erasing.at + 1) * PerBlock => flash[p] = Erased

Consoles ==
  /\ console \in {"look", "start", "mark", "marked", "erase"} => ~TooEarly
  /\ console # "zap"
  /\ console \in {"mark", "marked", "erase"} => erasing_current

Placed ==
  /\ ao_log_end_pos = LastPos + 1
  /\ log_started => Headed /\ ao_log_current_pos >= 1
  /\ ~log_started => NoRecords /\ ao_log_current_pos = 0
  /\ Reach(ao_log_current_pos) /\ RecordsTo(ao_log_current_pos)

Logging ==
  ~TooEarly /\ console \notin {"mark", "marked", "erase"} =>
    /\ Placed
    /\ log = "first" => ~log_started
    /\ log = "data" => log_started

Scanned == log = "marks" => ao_flight_number = Number

Kept == FlashOK /\ EraseBehind /\ Consoles /\ Logging /\ Scanned

TrackerInv == board.tracker => TrackTypes /\ (beheaded \/ Kept)

(* A record that the tracker writes goes to the place of the log.          *)
LEMMA WritesAtPlace ==
  ASSUME board.tracker, TrackTypes, Kept, log \in {"first", "data"}
  PROVE  Placed /\ ~Erasing /\ (log = "data" <=> log_started)
<1>1. TrackerMutex /\ Consoles /\ Logging /\ TrackErase
  BY DEF TrackTypes, Kept
<1>2. console \notin {"mark", "marked", "erase", "zap"}
  BY <1>1 DEF TrackerMutex, Consoles
<1> QED
  BY <1>1, <1>2 DEF Logging, TooEarly, TrackErase

LEMMA WritePlaces ==
  ASSUME board.tracker, TrackTypes, Kept, log \in {"first", "data"}, board' = board,
         NEW c, c = ao_log_current_pos, c < ao_log_end_pos,
         NEW x, x # Erased, flash' = [flash EXCEPT ![c] = x],
         log = "first" => flash'[0].type = "flight"
  PROVE  /\ Headed' /\ FlashOK' /\ c \in Positions
         /\ Reach(c + 1)' /\ RecordsTo(c + 1)'
<1>1. /\ Placed /\ (log = "data" <=> log_started) /\ FlashOK /\ LayoutTypeOK
      /\ LastPos \in Nat /\ Positions = 0 .. LastPos
  BY WritesAtPlace, Memory DEF Kept, TrackTypes, TrackLayout
<1>2. c \in Positions
  BY <1>1 DEF Placed, TrackTypes, TrackPlace
<1>3. Findable' /\ Reach(c + 1)' /\ RecordsTo(c + 1)'
  BY <1>1, <1>2, RecordMore DEF Placed
<1>4. Headed'
  <2>1. CASE log = "first"
    BY <2>1 DEF Headed
  <2>2. CASE log = "data"
    <3>1. Headed /\ c >= 1
      BY <1>1, <2>2 DEF Placed
    <3>2. flash'[0] = flash[0]
      BY <1>1, <1>2, <3>1 DEF LayoutTypeOK
    <3> QED
      BY <3>1, <3>2 DEF Headed
  <2> QED
    BY <2>1, <2>2
<1> QED
  BY <1>2, <1>3, <1>4 DEF FlashOK

LEMMA WriteKeeps ==
  ASSUME board.tracker, TrackTypes, Kept, board' = board,
         TrackerFirst \/ TrackerData, ~beheaded'
  PROVE  Kept'
<1>1. /\ Placed /\ ~Erasing /\ (log = "data" <=> log_started)
      /\ FlashOK /\ Consoles /\ Logging /\ log \in {"first", "data"}
      /\ TrackPlace /\ LastPos \in Nat /\ LastPos' = LastPos /\ Positions = 0 .. LastPos
      /\ LayoutTypeOK
  BY WritesAtPlace, Memory
  DEF TrackerFirst, TrackerData, Kept, TrackTypes, TrackLayout, LastPos, Blocks
<1>2. /\ UNCHANGED <<erasing, console, erasing_current, ao_log_end_pos>>
      /\ log' \in {"data", "loop"} /\ log_started' = TRUE
      /\ log = "first" => flash'[0].type = "flight" /\ log_started' = TRUE
      /\ log = "data" => log_started' = log_started /\ log' = "loop"
  <2>1. \A x : ao_log_write(x) => ao_log_end_pos' = ao_log_end_pos
    BY DEF ao_log_write
  <2>2. CASE TrackerFirst
    <3>1. flash'[0].type = "flight"
      <4>1. beheaded' = (beheaded \/ ~(flash'[0] = Flight(ao_flight_number)))
        BY <2>2, Zenon DEF TrackerFirst
      <4>2. flash'[0] = Flight(ao_flight_number)
        BY <4>1, Zenon
      <4> QED
        BY <4>2 DEF Flight
    <3> QED
      BY <2>1, <2>2, <3>1 DEF TrackerFirst, consoleVars
  <2>3. CASE TrackerData
    BY <1>1, <2>1, <2>3 DEF TrackerData, consoleVars
  <2> QED
    BY <2>2, <2>3
<1>3. EraseBehind' /\ Consoles' /\ Scanned'
  BY <1>1, <1>2 DEF EraseBehind, Erasing, Consoles, TooEarly, Scanned
<1>4. CASE /\ ao_log_current_pos < ao_log_end_pos
           /\ ao_log_current_pos' = ao_log_current_pos + 1
           /\ \E x : x # Erased /\ flash' = [flash EXCEPT ![ao_log_current_pos] = x]
  <2>1. PICK c : c = ao_log_current_pos
    OBVIOUS
  <2>2. /\ Headed' /\ FlashOK' /\ c \in Positions
        /\ Reach(c + 1)' /\ RecordsTo(c + 1)'
    BY <1>1, <1>2, <1>4, <2>1, WritePlaces
  <2>3. Placed'
    <3>1. ao_log_current_pos' = c + 1 /\ c + 1 >= 1
      BY <1>1, <1>4, <2>1, <2>2
    <3>2. Reach(ao_log_current_pos)' /\ RecordsTo(ao_log_current_pos)'
      BY <2>2, <3>1 DEF Reach, RecordsTo
    <3> QED
      BY <1>1, <1>2, <2>2, <3>1, <3>2 DEF Placed
  <2> QED
    BY <1>2, <1>3, <2>2, <2>3 DEF Kept, Logging
<1>5. CASE flash' = flash /\ ao_log_current_pos' = ao_log_current_pos
  <2>1. log = "data"
    <3> SUFFICES ASSUME log = "first" PROVE FALSE
      BY <1>1
    <3>1. IsRecord(flash[0]) /\ 0 \in Positions
      BY <1>1, <1>2, <1>5 DEF IsRecord
    <3> QED
      BY <1>1, <3>1 DEF Placed, NoRecords
  <2>2. FlashOK' /\ Placed'
    BY <1>1, <1>2, <1>5, <2>1, FlashSame DEF Placed
  <2> QED
    BY <1>2, <1>3, <2>2, <2>1 DEF Kept, Logging
<1>6. CASE TrackerFirst
  <2>1. PICK x : /\ x \in {Flight(ao_flight_number), flash[0]} /\ ao_log_write(x)
                 /\ flash'[0] = Flight(ao_flight_number)
    BY <1>1, <1>6 DEF TrackerFirst, ao_log_data
  <2>2. ~log_started /\ ao_log_current_pos = 0 /\ ~IsRecord(flash[0])
    BY <1>1, <1>6 DEF TrackerFirst, Placed, NoRecords
  <2>3. flash' # flash
    BY <2>1, <2>2 DEF IsRecord, Flight
  <2>4. /\ ao_log_current_pos < ao_log_end_pos
        /\ ao_log_current_pos' = ao_log_current_pos + 1
        /\ flash' = [flash EXCEPT ![0] = IF flash[0] = Erased THEN x ELSE Torn]
    BY <2>1, <2>2, <2>3 DEF ao_log_write, ao_storage_write
  <2>5. flash'[0] = IF flash[0] = Erased THEN x ELSE Torn
    BY <1>1, <2>4 DEF LayoutTypeOK
  <2>6. (IF flash[0] = Erased THEN x ELSE Torn) # Erased
    BY <2>1, <2>5 DEF Flight, Erased
  <2> QED
    BY <1>4, <2>2, <2>4, <2>6
<1>7. CASE TrackerData
  <2>1. PICK x : x \in {Sensor, flash[0]} /\ ao_log_write(x)
    BY <1>7 DEF TrackerData, ao_log_data
  <2>2. Headed
    BY <1>1, <1>7 DEF TrackerData, Placed
  <2>3. x # Erased /\ Torn # Erased
    BY <2>1, <2>2 DEF Headed, Sensor, Erased, Torn
  <2>4. CASE ao_log_running /\ ao_log_current_pos < ao_log_end_pos
    BY <1>4, <2>1, <2>3, <2>4 DEF ao_log_write, ao_storage_write
  <2>5. CASE ~(ao_log_running /\ ao_log_current_pos < ao_log_end_pos)
    BY <1>5, <2>1, <2>5 DEF ao_log_write
  <2> QED
    BY <2>4, <2>5
<1> QED
  BY <1>6, <1>7

(* The scan, of a boot or after an erase, leaves the log where it can go   *)
(* on.                                                                     *)
LEMMA ScanPlaces ==
  ASSUME board.tracker, TrackTypes, FlashOK, UNCHANGED <<board, flash>>,
         ScanAppend(Number)
  PROVE  Placed'
<1>1. /\ TrackLayout /\ LayoutTypeOK /\ NumberTypeOK /\ LastPos \in Nat
      /\ MaxNumber \in Nat /\ Number \in 0 .. MaxNumber - 1 /\ (Number # 0 <=> Headed)
  BY Memory, OneNumber, ConfigAssumption DEF TrackTypes, TrackLayout, TrackNumbers
<1>2. /\ LastPos' = LastPos /\ Headed' = Headed /\ NoRecords' = NoRecords
      /\ \A c : Reach(c)' = Reach(c) /\ RecordsTo(c)' = RecordsTo(c)
  BY FlashSame
<1>3. /\ ao_log_end_pos' = LastPos + 1
      /\ Number = 0 => ao_log_current_pos' = 0 /\ ~log_started'
      /\ Number # 0 => ao_log_current_pos' = FindEnd(Written) /\ log_started'
  BY <1>1, ScanFinds
<1>4. PICK c : c = ao_log_current_pos'
  OBVIOUS
<1>5. CASE Number = 0
  <2>1. c = 0 /\ NoRecords /\ ~log_started'
    BY <1>1, <1>3, <1>4, <1>5 DEF FlashOK
  <2>2. RecordsTo(0)
    BY <2>1 DEF RecordsTo, NoRecords
  <2>3. Reach(0)
    <3>1. \A m : EndOf(Below(m), LastPos) \in Nat
      BY <1>1, Memory, EndRange
    <3> QED
      BY <3>1 DEF Reach
  <2> QED
    BY <1>2, <1>3, <1>4, <2>1, <2>2, <2>3 DEF Placed
<1>6. CASE Number # 0
  <2>1. c = FindEnd(Written) /\ Headed /\ log_started'
    BY <1>1, <1>3, <1>4, <1>6
  <2>2. c \in 1 .. LastPos + 1 /\ Reach(c) /\ RecordsTo(c)
    BY <1>1, <2>1, EndFits
  <2> QED
    BY <1>1, <1>2, <1>3, <1>4, <2>1, <2>2 DEF Placed
<1> QED
  BY <1>5, <1>6

LEMMA PlacedSame ==
  ASSUME UNCHANGED <<board, flash, ao_log_current_pos, ao_log_end_pos, log_started>>
  PROVE  Placed' = Placed
BY FlashSame DEF Placed

LEMMA TrackerTaskKeeps ==
  ASSUME board.tracker, TrackTypes, Kept, board' = board,
         TrackerTaskStep, ~beheaded'
  PROVE  Kept'
<1>1. CASE TrackerFirst \/ TrackerData
  BY <1>1, WriteKeeps
<1>2. CASE ~TrackerFirst /\ ~TrackerData
  <2>1. UNCHANGED <<flash, erasing, console, erasing_current>>
    BY <1>2 DEF TrackerTaskStep, ScanFlights, TrackerScan, TrackerLoop, TrackerLock,
      storageVars, consoleVars, trackerVars
  <2>2. /\ FlashOK /\ FlashOK' /\ Number' = Number
        /\ Positions' = Positions /\ EraseBehind'
    BY <2>1, FlashSame DEF Kept, Number, EraseBehind, Erasing
  <2>3. CASE ScanFlights /\ UNCHANGED trackerVars
    <3>1. ao_flight_number' = Number /\ log = "scan" /\ log' = "marks"
      BY <2>3, OneNumber DEF ScanFlights, TrackTypes, TrackNumbers
    <3> QED
      BY <2>1, <2>2, <3>1 DEF Kept, Consoles, Logging, TooEarly, Scanned
  <2>4. CASE TrackerScan
    <3>1. /\ log = "marks" /\ log' = "loop" /\ ao_flight_number = Number
          /\ ScanAppend(ao_flight_number)
      BY <2>4 DEF TrackerScan, Kept, Scanned
    <3>2. Placed'
      BY <2>1, <2>2, <3>1, ScanPlaces
    <3> QED
      BY <2>1, <2>2, <3>1, <3>2 DEF Kept, Consoles, Logging, TooEarly, Scanned
  <2>5. CASE TrackerLoop \/ TrackerLock
    <3>1. /\ UNCHANGED <<ao_log_current_pos, ao_log_end_pos, log_started>>
          /\ log \in {"loop", "lock"}
          /\ \/ log' \in {"loop", "lock"}
             \/ log' = "data" /\ log_started
             \/ log' = "first" /\ ~log_started
      BY <2>5 DEF TrackerLoop, TrackerLock, trackerVars
    <3>2. Placed' = Placed
      BY <2>1, <3>1, PlacedSame
    <3> QED
      BY <2>1, <2>2, <3>1, <3>2 DEF Kept, Consoles, Logging, TooEarly, Scanned
  <2> QED
    BY <1>2, <2>3, <2>4, <2>5 DEF TrackerTaskStep
<1> QED
  BY <1>1, <1>2

LEMMA TrackerEraseKeeps ==
  ASSUME board.tracker, TrackTypes, Kept, board' = board, EraseStep
  PROVE  FlashOK' /\ EraseBehind' /\ console = "erase"
<1>1. /\ FlashOK /\ LayoutTypeOK /\ TrackErase /\ EraseBehind /\ Consoles
      /\ Erasing /\ erasing.first = 0 /\ console = "erase"
      /\ Positions = 0 .. LastPos /\ LastPos \in Nat /\ PerBlock \in Nat \ {0}
      /\ Positions' = Positions
  BY Memory DEF Kept, TrackTypes, TrackLayout, TrackErase, Consoles, EraseStep,
    EraseBlock, EraseFails, Positions, Blocks
<1>2. PICK b \in 0 .. Blocks - 1 : b = erasing.at
  BY <1>1 DEF TrackErase
<1>3. /\ b * PerBlock \in 0 .. LastPos + 1 /\ (b + 1) * PerBlock \in 0 .. LastPos + 1
      /\ Block(b) = b * PerBlock .. (b + 1) * PerBlock - 1
      /\ b - 1 + 1 = b
  BY <1>1, BlockAt
<1>4. CASE EraseFails
  <2>1. flash' = flash /\ erasing' = NotErasing
    BY <1>4 DEF EraseFails
  <2> QED
    BY <1>1, <2>1, FlashSame DEF EraseBehind, Erasing, NotErasing
<1>5. CASE EraseBlock
  <2>1. \A p \in Positions :
          flash'[p] = IF p \in Block(b) THEN Erased ELSE flash[p]
    BY <1>2, <1>5 DEF EraseBlock, ao_storage_is_erased, ao_storage_device_erase
  <2>2. \A p \in Positions : IF p < b * PerBlock THEN flash'[p] = flash[p]
                             ELSE flash'[p] = Erased
    BY <1>1, <1>2, <1>3, <2>1 DEF EraseBehind
  <2>3. FlashOK'
    <3>1. PICK k \in 0 .. LastPos + 1 : k = b * PerBlock
      BY <1>3
    <3>2. \A p \in Positions : IF p < k THEN flash'[p] = flash[p]
                               ELSE ~IsRecord(flash'[p])
      BY <2>2, <3>1 DEF IsRecord, Erased
    <3> QED
      BY <1>1, <3>2, RecordsLess
  <2>4. \/ erasing' = NotErasing
        \/ erasing' = [erasing EXCEPT !.at = b - 1]
    BY <1>2, <1>5 DEF EraseBlock
  <2>5. Erasing' => erasing.at' = b - 1
    BY <1>1, <1>2, <2>4 DEF Erasing, NotErasing, LayoutTypeOK
  <2>6. EraseBehind'
    BY <1>1, <1>3, <2>2, <2>5 DEF EraseBehind
  <2> QED
    BY <1>1, <2>3, <2>6
<1> QED
  BY <1>4, <1>5 DEF EraseStep

LEMMA TrackerConsoleKeeps ==
  ASSUME board.tracker, TrackTypes, Kept, board' = board,
         TrackerConsoleStep, ~beheaded'
  PROVE  Kept'
<1>1. /\ TrackErase /\ TrackerMutex /\ FlashOK /\ EraseBehind /\ Consoles /\ Logging
      /\ Scanned /\ Positions' = Positions /\ TrackLayout
  BY DEF Kept, TrackTypes, Positions, Blocks
<1>2. ~TrackerZapAll
  BY DEF TrackerZapAll
<1>3. CASE ao_tracker_erase_end
  <2>1. /\ UNCHANGED <<flash, erasing, log, erasing_current>>
        /\ console = "erase" /\ console' = "none" /\ erasing_current
        /\ ~Erasing /\ ScanAppend(ao_log_max_flight)
    BY <1>3 DEF ao_tracker_erase_end, storageVars
  <2>2. ScanAppend(Number)
    BY <2>1, OneNumber DEF TrackTypes, TrackNumbers
  <2>3. FlashOK' /\ Placed'
    BY <1>1, <2>1, <2>2, ScanPlaces, FlashSame
  <2>4. log \notin {"marks", "first", "data"}
    BY <1>1, <2>1 DEF Consoles, TooEarly, TrackerMutex
  <2> QED
    BY <2>1, <2>3, <2>4
    DEF Kept, EraseBehind, Erasing, Consoles, Logging, TooEarly, Scanned
<1>4. CASE EraseStep /\ UNCHANGED trackerVars
  <2>1. FlashOK' /\ EraseBehind' /\ console = "erase"
    BY <1>4, TrackerEraseKeeps
  <2>2. UNCHANGED <<log, console, erasing_current>> /\ log # "marks"
    BY <1>1, <1>4, <2>1 DEF EraseStep, taskVars, consoleVars, trackerVars, Consoles,
      TooEarly
  <2> QED
    BY <1>1, <2>1, <2>2 DEF Kept, Consoles, Logging, TooEarly, Scanned
<1>5. CASE DeleteErase /\ UNCHANGED trackerVars
  <2>1. /\ flash' = flash /\ log' = log /\ erasing_current' = erasing_current
        /\ console = "marked" /\ console' = "erase" /\ log # "marks"
    BY <1>1, <1>5 DEF DeleteErase, taskVars, trackerVars, Consoles, TooEarly
  <2>2. erasing'.at = flight_log_max - 1 /\ flight_log_max = Blocks
    <3>1. /\ Blocks \in Nat /\ flight_log_max = Blocks /\ target = 0
          /\ target * flight_log_max = 0
      BY <1>1, Memory DEF TrackLayout
    <3> QED
      BY <1>5, <3>1 DEF DeleteErase, ao_storage_erase
  <2>3. EraseBehind'
    <3>1. /\ Blocks \in Nat \ {0} /\ Positions = 0 .. LastPos /\ LastPos \in Nat
          /\ LastPos + 1 = Blocks * PerBlock
      BY <1>1, Memory DEF TrackLayout
    <3>2. PerBlock' = PerBlock /\ erasing'.at + 1 = Blocks
      BY <2>2, <3>1
    <3>3. (erasing'.at + 1) * PerBlock = LastPos + 1
      BY <3>1, <3>2
    <3> QED
      BY <1>1, <3>1, <3>2, <3>3 DEF EraseBehind
  <2> QED
    BY <1>1, <2>1, <2>3, FlashSame DEF Kept, Consoles, Logging, TooEarly, Scanned
<1>6. CASE ao_tracker_erase_start
  <2>1. /\ UNCHANGED <<flash, erasing, log, erasing_current>>
        /\ console = "start" /\ console' = "mark" /\ erasing_current /\ log # "marks"
    BY <1>1, <1>6 DEF ao_tracker_erase_start, storageVars, TrackerMutex, Consoles,
      TooEarly
  <2> QED
    BY <1>1, <2>1, FlashSame
    DEF Kept, EraseBehind, Erasing, Consoles, Logging, TooEarly, Scanned
<1>7. CASE \/ Look \/ Looked \/ LookDelete
           \/ (DeleteMark \/ Save \/ Saved \/ PutNext) /\ UNCHANGED trackerVars
  <2>1. /\ UNCHANGED <<flash, erasing, log, ao_flight_number, ao_log_current_pos,
                       ao_log_end_pos, log_started>>
    BY <1>7 DEF Look, Looked, LookDelete, DeleteMark, Save, Saved, PutNext,
      PutStep, ao_log_erase_mark, storageVars, taskVars, trackerVars
  <2>2. /\ FlashOK' /\ EraseBehind' /\ Placed' = Placed /\ Scanned'
    BY <1>1, <2>1, FlashSame, PlacedSame
    DEF EraseBehind, Erasing, Scanned, Number
  <2>3. \/ console' = console /\ erasing_current' = erasing_current
        \/ console = "none" /\ console' = "look" /\ ~TooEarly
        \/ console = "look" /\ console' = "none"
        \/ console = "look" /\ console' = "start"
        \/ console = "mark" /\ console' = "marked" /\ erasing_current' = erasing_current
        \/ console = "none" /\ console' = "save"
        \/ console = "save" /\ console' = "none"
    <3>1. CASE Look
      <4>1. beheaded' = (beheaded \/ TooEarly)
        BY <3>1 DEF Look
      <4>2. ~TooEarly
        BY <4>1, Zenon
      <4> QED
        BY <3>1, <4>2 DEF Look, Prompt
    <3>2. CASE LookDelete
      <4>1. beheaded' = (beheaded \/ ~erasing_current')
        BY <3>2 DEF LookDelete
      <4>2. erasing_current'
        BY <4>1, Zenon
      <4> QED
        BY <3>2, <4>2 DEF LookDelete
    <3> QED
      BY <1>7, <3>1, <3>2 DEF Looked, DeleteMark, Save, Saved, PutNext, Prompt,
        consoleVars, trackerVars
  <2>4. Consoles'
    BY <1>1, <2>1, <2>3 DEF Consoles, TooEarly
  <2>5. Logging'
    BY <1>1, <2>1, <2>2, <2>3 DEF Logging, TooEarly
  <2> QED
    BY <2>2, <2>4, <2>5 DEF Kept
<1>8. ~(EraseDone /\ ~(console = "erase" /\ erasing_current))
  BY <1>1 DEF EraseDone, Consoles
<1> QED
  BY <1>2, <1>3, <1>4, <1>5, <1>6, <1>7, <1>8 DEF TrackerConsoleStep

LEMMA TrackerPowerKeeps ==
  ASSUME board.tracker, TrackTypes, board' = board, TrackerPowerCycle,
         ~beheaded', beheaded \/ Kept
  PROVE  Kept'
<1>1. /\ PowerCycle /\ erasing' = NotErasing /\ console' = "none" /\ log' = "scan"
      /\ flash' \in {flash} \cup HalfWritten \cup (IF Erasing THEN HalfErased ELSE {})
  BY DEF TrackerPowerCycle, PowerCycle
<1>2. /\ ~beheaded \/ \A p \in Positions : flash'[p] = Erased
      /\ log # "first" \/ flash' = flash
  <2>1. beheaded' = \/ beheaded /\ \E p \in Positions : flash'[p] # Erased
                    \/ log = "first" /\ flash' # flash
    BY DEF TrackerPowerCycle
  <2> QED
    BY <2>1, Zenon
<1>3. /\ LayoutTypeOK /\ LastPos \in Nat /\ Positions = 0 .. LastPos
      /\ Positions' = Positions /\ LastPos' = LastPos
  BY Memory DEF TrackTypes, TrackLayout, Positions, LastPos, Blocks
<1>4. FlashOK' => Kept'
  BY <1>1 DEF Kept, EraseBehind, Erasing, NotErasing, Consoles, Logging, TooEarly, Scanned
<1>5. CASE \A p \in Positions : flash'[p] = Erased
  BY <1>3, <1>4, <1>5 DEF FlashOK, NoRecords, Findable, IsRecord, Erased
<1>6. CASE Kept /\ flash' = flash
  BY <1>4, <1>6, FlashSame DEF Kept
<1>7. CASE Kept /\ flash' # flash /\ flash' \in HalfWritten
  <2>1. /\ log \in {"first", "data"} /\ ao_log_current_pos < ao_log_end_pos
        /\ flash' = [flash EXCEPT ![ao_log_current_pos] = Torn]
    BY <1>7 DEF HalfWritten, TrackTypes, TrackNumbers
  <2>2. log = "data" /\ Torn # Erased
    BY <1>2, <1>7, <2>1 DEF Torn, Erased
  <2> QED
    BY <1>4, <1>7, <2>1, <2>2, WritePlaces
<1>8. CASE Kept /\ Erasing /\ flash' \in HalfErased
  <2>1. PICK b \in 0 .. Blocks - 1 : b = erasing.at
    BY <1>8 DEF TrackTypes, TrackErase
  <2>2. PICK k \in 0 .. LastPos + 1, l \in 0 .. LastPos + 1 :
          /\ k = b * PerBlock /\ l = (b + 1) * PerBlock
          /\ Block(b) = k .. l - 1
    BY <1>3, BlockAt
  <2>3. \A p \in Positions : p >= l => flash[p] = Erased
    BY <1>8, <2>1, <2>2 DEF Kept, EraseBehind
  <2>4. \A p \in Positions : IF p \in k .. l - 1 THEN flash'[p] \in {Erased, Torn}
                             ELSE flash'[p] = flash[p]
    BY <1>8, <2>1, <2>2 DEF HalfErased
  <2>5. \A p \in Positions : IF p < k THEN flash'[p] = flash[p]
                             ELSE flash'[p] \in {Erased, Torn}
    BY <1>3, <2>3, <2>4
  <2>6. \A p \in Positions : IF p < k THEN flash'[p] = flash[p]
                             ELSE ~IsRecord(flash'[p])
    BY <2>5 DEF IsRecord, Erased, Torn
  <2> QED
    BY <1>3, <1>4, <1>8, <2>6, RecordsLess DEF Kept
<1> QED
  BY <1>1, <1>2, <1>5, <1>6, <1>7, <1>8

LEMMA TrackerInitInv == Init => TrackerInv
<1> SUFFICES ASSUME Init, board.tracker PROVE TrackTypes /\ Kept
  BY DEF TrackerInv
<1> USE DEF Init, LogInit, StorageInit, ConfigInit, TrackerInit
<1>1. /\ board \in Boards /\ Blocks \in Sizes /\ board.log = Blocks
      /\ MaxNumber \in Nat \ {0}
  BY StorageAssumption, ConfigAssumption DEF Blocks
<1>2. LayoutTypeOK
  BY <1>1 DEF LayoutTypeOK, NotErasing
<1>3. LastPos \in Nat /\ Positions = 0 .. LastPos
  BY <1>2, Memory
<1>4. TrackLayout /\ TrackErase /\ TrackerMutex /\ TrackPlace
  BY <1>1, <1>2, <1>3 DEF TrackLayout, TrackErase, Erasing, NotErasing, TrackerMutex,
    TrackPlace
<1>5. TrackNumbers
  BY <1>1 DEF TrackNumbers, NumberTypeOK, Numbers, Marks, Erased
<1>6. FlashOK
  BY <1>3 DEF FlashOK, NoRecords, Findable, IsRecord, Erased
<1>7. EraseBehind /\ Consoles /\ Logging /\ Scanned
  BY DEF EraseBehind, Erasing, NotErasing, Consoles, Logging, TooEarly, Scanned
<1> QED
  BY <1>4, <1>5, <1>6, <1>7 DEF TrackTypes, Kept

LEMMA TrackerNextInv == TrackerInv /\ [Next]_allVars => TrackerInv'
<1> SUFFICES ASSUME TrackerInv, [Next]_allVars, board.tracker
             PROVE  TrackTypes' /\ (beheaded' \/ Kept')
  BY BoardKept DEF TrackerInv
<1>1. board' = board /\ TrackTypes /\ (beheaded \/ Kept)
  BY BoardKept DEF TrackerInv
<1>2. CASE TrackerNext
  <2>1. TrackTypes'
    BY <1>1, <1>2, TrackLayoutKept, TrackNumbersKept, TrackerMutexKept DEF TrackTypes
  <2>2. ASSUME ~beheaded' PROVE Kept'
    <3>1. CASE TrackerPowerCycle
      BY <1>1, <2>2, <3>1, TrackerPowerKeeps
    <3>2. CASE TrackerTaskStep \/ TrackerConsoleStep
      <4>1. ~beheaded
        <5>1. beheaded => beheaded'
          BY <3>2, Zenon DEF TrackerTaskStep, TrackerConsoleStep, TrackerScan,
            TrackerLoop, TrackerLock, TrackerFirst, TrackerData, Look, Looked,
            LookDelete, ao_tracker_erase_start, ao_tracker_erase_end, TrackerZapAll,
            trackerVars
        <5> QED
          BY <2>2, <5>1
      <4> QED
        BY <1>1, <2>2, <3>2, <4>1, TrackerTaskKeeps, TrackerConsoleKeeps
    <3> QED
      BY <1>2, <3>1, <3>2 DEF TrackerNext
  <2> QED
    BY <2>1, <2>2
<1>3. CASE UNCHANGED allVars
  <2>1. UNCHANGED <<board, flash, erasing, saved, marks, flight_log_max,
                    ao_flight_number, log, ao_log_running, ao_log_current_pos,
                    ao_log_end_pos, console, target, log_started, tracker_mutex,
                    erasing_current, beheaded>>
    BY <1>3 DEF allVars, logVars, storageVars, configVars, taskVars, consoleVars,
      trackerVars
  <2>2. /\ Blocks' = Blocks /\ Positions' = Positions /\ LastPos' = LastPos
        /\ FlashOK' = FlashOK /\ Placed' = Placed
    BY <2>1, FlashSame, PlacedSame
  <2>3. TrackTypes'
    BY <1>1, <2>1, <2>2 DEF TrackTypes, TrackLayout, LayoutTypeOK, TrackNumbers,
      NumberTypeOK, TrackPlace, TrackErase, Erasing, TrackerMutex
  <2>4. Kept => Kept'
    BY <2>1, <2>2 DEF Kept, EraseBehind, Erasing, Consoles, Logging, TooEarly,
      Scanned, Number, Headed
  <2> QED
    BY <1>1, <2>1, <2>3, <2>4
<1> QED
  BY <1>1, <1>2, <1>3 DEF Next

(* The invariant of a tracker's log: what a boot finds by bisection is     *)
(* beyond all records, the tasks hold the mutexes where the code does, and *)
(* an erase has only erased behind the log. It holds as long as no log has *)
(* lost its first record.                                                  *)
THEOREM TrackersInv == Spec => []TrackerInv
BY TrackerInitInv, TrackerNextInv, PTL DEF Spec

(* The log of a tracker starts with the number of its flight, or is free,  *)
(* however often the power fails: the tracker writes it first into a log   *)
(* without records, and an erase takes it last.                            *)
THEOREM TrackStartsWithFlight == Spec => []FlightFirst
<1>1. TrackerInv => FlightFirst
  BY DEF TrackerInv, Kept, FlashOK, Headed, NoRecords, FlightFirst
<1> QED
  BY <1>1, TrackersInv, PTL

(* No step but an erase takes a record of a track, but for the last        *)
(* position and until the first record may be lost: the end of the log     *)
(* that a boot finds by bisection is beyond all other records, also in a   *)
(* log with a hole that an erase left (ao_log_scan).                       *)
THEOREM TracksKept == Spec => TrackKept
<1>1. ASSUME TrackerInv, [Next]_allVars, NEW p \in Positions \ {LastPos}, board.tracker,
             ~beheaded, IsRecord(flash[p]), flash'[p] # flash[p]
      PROVE  Erasing /\ p \in Block(erasing.at)
  <2>1. TrackTypes /\ Kept /\ LayoutTypeOK
    BY <1>1 DEF TrackerInv, TrackTypes, TrackLayout
  <2>2. TrackerNext
    BY <1>1 DEF Next, allVars, logVars, storageVars
  <2>3. ASSUME log \in {"first", "data"}, NEW x,
               flash' = [flash EXCEPT ![ao_log_current_pos] = x]
        PROVE  FALSE
    <3>1. p < ao_log_current_pos /\ Positions = 0 .. LastPos /\ LastPos \in Nat
      BY <1>1, <2>1, <2>3, WritesAtPlace, Memory DEF Placed, RecordsTo
    <3>2. p # ao_log_current_pos
      BY <2>1, <3>1 DEF TrackTypes, TrackPlace
    <3> QED
      BY <1>1, <2>1, <2>3, <3>2 DEF LayoutTypeOK
  <2>4. CASE WriteStep
    <3>1. \E x : flash' = [flash EXCEPT ![ao_log_current_pos] = x]
      BY <2>4 DEF WriteStep, ao_storage_write
    <3> QED
      BY <2>3, <2>4, <3>1 DEF WriteStep
  <2>5. CASE EraseStep
    BY <1>1, <2>5 DEF EraseStep, EraseBlock, EraseFails, ao_storage_device_erase
  <2>6. CASE TrackerPowerCycle
    <3>1. flash' \in {flash} \cup HalfWritten \cup (IF Erasing THEN HalfErased ELSE {})
      BY <2>6 DEF TrackerPowerCycle, PowerCycle
    <3>2. CASE flash' \in HalfWritten
      BY <2>1, <2>3, <3>2 DEF HalfWritten, TrackTypes, TrackNumbers
    <3>3. CASE Erasing /\ flash' \in HalfErased
      BY <1>1, <3>3 DEF HalfErased
    <3> QED
      BY <1>1, <3>1, <3>2, <3>3
  <2> QED
    BY <1>1, <2>2, <2>4, <2>5, <2>6, FlashSteps
<1>2. TrackerInv /\ [Next]_allVars =>
        [\A p \in Positions \ {LastPos} :
           board.tracker /\ ~beheaded /\ IsRecord(flash[p])
             /\ flash'[p] # flash[p] =>
           Erasing /\ p \in Block(erasing.at)]_allVars
  BY <1>1
<1> QED
  BY <1>2, TrackersInv, PTL DEF Spec, TrackKept

-----------------------------------------------------------------------------
(* The numbers of the flights grow.  The marks are used in their order, and *)
(* a scan goes by the last one.                                            *)
MarksFill ==
  \A i, j \in Marks : i < j /\ marks[j] # NoMark => marks[i] # NoMark

(* n is the number of a log after a scan that finds no other log.          *)
MarkIs(n) ==
  IF Marked = {} THEN n = 1
  ELSE \E i \in Marked : (\A j \in Marked : j <= i) /\ n = marks[i] /\ n # 0

LEMMA LastMark ==
  ASSUME NumberTypeOK, NEW i \in Marked, \A j \in Marked : j <= i, NEW n \in Numbers
  PROVE  FromMarks(n) = IF marks[i] > n THEN marks[i] ELSE IF n = 0 THEN 1 ELSE n
<1>1. MaxNumber \in Nat /\ NoMark \notin Nat /\ marks[i] \in Numbers /\ i \in Marks
      /\ \A j \in Marks : j \in Int
  BY ConfigAssumption DEF NumberTypeOK, Marked, Marks, Numbers
<1>2. {marks[k] : k \in {k \in Marked : \A j \in Marked : j <= k}} = {marks[i]}
  <2>1. \A k \in Marked : (\A j \in Marked : j <= k) => k = i
    BY <1>1 DEF Marked
  <2> QED
    BY <2>1
<1>3. CASE marks[i] > n
  <2>1. {m \in {marks[i]} : m > n} = {marks[i]}
    BY <1>3
  <2> QED
    BY <1>1, <1>2, <1>3, <2>1 DEF FromMarks, Numbers
<1>4. CASE ~(marks[i] > n)
  <2>1. {m \in {marks[i]} : m > n} = {}
    BY <1>4
  <2> QED
    BY <1>1, <1>2, <1>4, <2>1 DEF FromMarks
<1> QED
  BY <1>3, <1>4

LEMMA NoMarks ==
  ASSUME Marked = {}, NEW n
  PROVE  FromMarks(n) = IF n = 0 THEN 1 ELSE n
<1>1. {m \in {marks[k] : k \in {k \in Marked : \A j \in Marked : j <= k}} : m > n} = {}
  OBVIOUS
<1> QED
  BY <1>1 DEF FromMarks

LEMMA MarkFromMarks ==
  ASSUME NumberTypeOK, NEW n \in Numbers, MarkIs(n)
  PROVE  FromMarks(0) = n
<1>1. MaxNumber \in Nat /\ 0 \in Numbers
  BY ConfigAssumption DEF Numbers
<1>2. CASE Marked = {}
  BY <1>2, NoMarks DEF MarkIs
<1>3. CASE Marked # {}
  <2>1. PICK i \in Marked : (\A j \in Marked : j <= i) /\ n = marks[i] /\ n # 0
    BY <1>3 DEF MarkIs
  <2>2. FromMarks(0) = IF marks[i] > 0 THEN marks[i] ELSE IF 0 = 0 THEN 1 ELSE 0
    BY <1>1, <2>1, LastMark
  <2> QED
    BY <1>1, <2>1, <2>2 DEF Numbers
<1> QED
  BY <1>2, <1>3

(* ao_log_erase_mark finds the number, or makes it the last mark, or has   *)
(* the configuration saved.                                                *)
LEMMA MarkMade ==
  ASSUME NumberTypeOK, MarksFill, ao_log_erase_mark
  PROVE  /\ MarksFill'
         /\ \/ \E i \in Marks : /\ marks[i] = ao_flight_number /\ marks' = marks
                                /\ put' = put
            \/ marks' = marks /\ put' = "erase"
            \/ \E i \in Marks :
                 /\ marks[i] = NoMark /\ Marked = 0 .. i - 1
                 /\ marks' = [marks EXCEPT ![i] = ao_flight_number]
                 /\ put' = IF i = 0 /\ board.memory = "eeprom" THEN "clear"
                           ELSE "done"
<1>1. /\ MaxErase \in Nat /\ \A i \in Marks : i \in Nat /\ i < MaxErase
      /\ \A i \in Nat : i < MaxErase => i \in Marks
      /\ ao_flight_number # NoMark
  BY ConfigAssumption DEF Marks, NumberTypeOK, Numbers
<1>2. CASE marks' = marks
  <2>1. MarksFill'
    BY <1>2 DEF MarksFill
  <2>2. ASSUME NEW i \in Marks, marks[i] = NoMark, ao_log_write_erase(i)
        PROVE  FALSE
    BY <1>1, <1>2, <2>2 DEF ao_log_write_erase, NumberTypeOK
  <2> QED
    BY <1>2, <2>1, <2>2 DEF ao_log_erase_mark, MarkFound
<1>3. CASE marks' # marks
  <2>1. PICK i \in Marks : MarkFound(i) /\ marks[i] = NoMark /\ ao_log_write_erase(i)
    BY <1>3 DEF ao_log_erase_mark
  <2>2. \A j \in Marks : marks[j] # NoMark <=> j < i
    BY <1>1, <2>1 DEF MarkFound, MarksFill
  <2>3. Marked = 0 .. i - 1
    <3>1. ASSUME NEW j \in Marked PROVE j \in 0 .. i - 1
      BY <1>1, <2>1, <2>2 DEF Marked
    <3>2. ASSUME NEW j \in 0 .. i - 1 PROVE j \in Marked
      <4>1. j \in Nat /\ j < i /\ i < MaxErase /\ i \in Nat
        BY <1>1, <2>1
      <4> QED
        BY <1>1, <2>2, <4>1 DEF Marked
    <3> QED
      BY <3>1, <3>2
  <2>4. \A j \in Marks : marks'[j] = IF j = i THEN ao_flight_number ELSE marks[j]
    BY <2>1 DEF ao_log_write_erase, NumberTypeOK
  <2>5. MarksFill'
    BY <1>1, <2>1, <2>2, <2>4 DEF MarksFill
  <2> QED
    BY <2>1, <2>3, <2>5 DEF ao_log_write_erase
<1> QED
  BY <1>2, <1>3

TrackGrow ==
  /\ MarksFill
  /\ \E m \in Numbers : MarkIs(m) /\ newest <= m
  /\ console \in {"look", "start", "mark", "marked", "erase"} => ~TooEarly
  /\ ~TooEarly => newest <= ao_flight_number
  /\ log = "marks" => ao_flight_number = 0 \/ newest <= ao_flight_number
  /\ log = "first" => ~log_started
  /\ Headed => newest <= flash[0].flight
  /\ ~TooEarly /\ ~log_started
       /\ ~(console \in {"mark", "marked", "erase"} /\ erasing_current) =>
     MarkIs(ao_flight_number)

(* The number that a scan of the log of a tracker leaves.                  *)
LEMMA ScanGrows ==
  ASSUME board.tracker, TrackLayout, NumberTypeOK, newest \in Numbers,
         \E m \in Numbers : MarkIs(m) /\ newest <= m,
         NEW n \in Numbers, n = 0 \/ newest <= n,
         ScanAppend(n), UNCHANGED <<newest, marks>>
  PROVE  /\ newest' <= ao_flight_number'
         /\ ~log_started' => MarkIs(ao_flight_number)'
<1>1. PICK m \in Numbers : MarkIs(m) /\ newest <= m
  OBVIOUS
<1>2. FromMarks(0) = m /\ Marked' = Marked
  BY <1>1, MarkFromMarks DEF Marked
<1>3. CASE n = 0
  <2>1. ao_flight_number' = m
    BY <1>2, <1>3 DEF ScanAppend
  <2>2. MarkIs(ao_flight_number)'
    BY <1>1, <1>2, <2>1 DEF MarkIs
  <2> QED
    BY <1>1, <2>1, <2>2
<1>4. CASE n # 0
  <2>1. ao_flight_number' = n
    BY <1>4 DEF ScanAppend
  <2>2. log_started'
    BY <1>4, Zenon DEF ScanAppend
  <2> QED
    BY <1>4, <2>1, <2>2
<1> QED
  BY <1>3, <1>4

(* What a step leaves of the first position.                               *)
LEMMA HeadSteps ==
  ASSUME board.tracker, TrackTypes, TrackerNext, flash'[0].type = "flight"
  PROVE  flash'[0] = flash[0] \/ (TrackerFirst /\ flash'[0] = Flight(ao_flight_number))
<1>1. LayoutTypeOK /\ TrackErase /\ 0 \in Positions
  BY Memory DEF TrackTypes, TrackLayout
<1>2. CASE WriteStep
  <2>1. PICK x \in {Flight(ao_flight_number), Sensor, flash[0]} :
          flash' = [flash EXCEPT ![ao_log_current_pos] =
                      IF @ = Erased THEN x ELSE Torn]
    BY <1>2 DEF WriteStep, ao_storage_write
  <2>2. flash'[0] \in {flash[0], x, Torn}
    BY <1>1, <2>1 DEF LayoutTypeOK
  <2>3. CASE TrackerFirst
    BY <2>2, <2>3 DEF Sensor, Torn
  <2>4. CASE TrackerData
    <3>1. PICK y \in {Sensor, flash[0]} : ao_log_write(y)
      BY <2>4 DEF TrackerData, ao_log_data
    <3>2. flash' = flash \/ \E z \in {y, Torn} :
            flash' = [flash EXCEPT ![ao_log_current_pos] = z]
      BY <3>1 DEF ao_log_write, ao_storage_write
    <3>3. flash'[0] \in {flash[0], y, Torn}
      BY <1>1, <3>2 DEF LayoutTypeOK
    <3> QED
      BY <3>1, <3>3 DEF Sensor, Torn
  <2> QED
    BY <1>2, <2>3, <2>4 DEF WriteStep
<1>3. CASE EraseStep
  BY <1>1, <1>3 DEF EraseStep, EraseBlock, EraseFails, ao_storage_device_erase, Erased
<1>4. CASE TrackerPowerCycle
  <2>1. flash'[0] \in {flash[0], Torn, Erased}
    BY <1>1, <1>4, PowerLeaves DEF TrackerPowerCycle
  <2> QED
    BY <2>1 DEF Torn, Erased
<1> QED
  BY <1>2, <1>3, <1>4, FlashSteps

LEMMA MarksSame ==
  ASSUME marks' = marks
  PROVE  /\ MarksFill' = MarksFill /\ Marked' = Marked
         /\ \A m : MarkIs(m)' = MarkIs(m)
<1>1. MarksFill' = MarksFill /\ Marked' = Marked
  BY DEF MarksFill, Marked
<1> QED
  BY <1>1 DEF MarkIs

LEMMA OneMark ==
  ASSUME NumberTypeOK, NEW m \in Numbers, NEW n \in Numbers, MarkIs(m), MarkIs(n)
  PROVE  m = n
BY MarkFromMarks

(* Steps that make or lose no mark and no record.                          *)
QuietStep ==
  \/ ScanFlights /\ UNCHANGED trackerVars
  \/ TrackerScan \/ TrackerLoop \/ TrackerLock
  \/ Look \/ Looked \/ LookDelete
  \/ ao_tracker_erase_start \/ ao_tracker_erase_end \/ TrackerZapAll
  \/ (DeleteErase \/ Save \/ Saved) /\ UNCHANGED trackerVars
  \/ EraseDone /\ ~(console = "erase" /\ erasing_current) /\ UNCHANGED trackerVars

LEMMA TrackGrowsQuietly ==
  ASSUME board.tracker, TrackTypes, TrackGrow, newest \in Numbers, ~forgot', QuietStep
  PROVE  TrackGrow'
<1> USE DEF TooEarly, QuietStep
<1>1. /\ marks' = marks /\ flash' = flash /\ newest' \in {newest, 0}
      /\ ~TrackerZapAll => newest' = newest
      /\ UNCHANGED board
  BY DEF ScanFlights, TrackerScan, TrackerLoop, TrackerLock, Look, Looked, LookDelete,
    ao_tracker_erase_start, ao_tracker_erase_end, TrackerZapAll, ZapAll, DeleteErase,
    Save, Saved, EraseDone, storageVars, configVars, ghostVars
<1>2. /\ TrackLayout /\ NumberTypeOK /\ TrackNumbers /\ TrackErase /\ TrackerMutex
      /\ MaxNumber \in Nat \ {0}
  BY ConfigAssumption DEF TrackTypes, TrackNumbers
<1>3. /\ MarksFill' /\ \A m : MarkIs(m)' = MarkIs(m)
      /\ Headed' = Headed /\ flash'[0] = flash[0]
  BY <1>1, MarksSame DEF Headed, TrackGrow
<1>4. PICK m \in Numbers : MarkIs(m) /\ newest <= m
  BY DEF TrackGrow
<1>5. \E k \in Numbers : MarkIs(k)' /\ newest' <= k
  BY <1>1, <1>2, <1>3, <1>4 DEF Numbers
<1>6. CASE ScanFlights /\ UNCHANGED trackerVars
  <2>1. ao_flight_number' = Number /\ (Number # 0 => Headed)
    BY <1>2, <1>6, OneNumber DEF ScanFlights
  <2>2. log = "scan" /\ log' = "marks" /\ console' = console /\ newest' = newest
    BY <1>6 DEF ScanFlights, consoleVars, ghostVars
  <2>3. ao_flight_number' = 0 \/ newest' <= ao_flight_number'
    BY <2>1, <2>2 DEF TrackGrow, Number
  <2> QED
    BY <1>3, <1>5, <2>2, <2>3 DEF TrackGrow
<1>7. CASE TrackerScan
  <2>1. /\ log = "marks" /\ log' = "loop" /\ console' = console /\ newest' = newest
        /\ ScanAppend(ao_flight_number)
    BY <1>7 DEF TrackerScan, consoleVars, ghostVars
  <2>2. ao_flight_number = 0 \/ newest <= ao_flight_number
    BY <2>1 DEF TrackGrow
  <2>3. /\ newest' <= ao_flight_number' /\ (~log_started' => MarkIs(ao_flight_number)')
    BY <1>1, <1>2, <1>4, <2>1, <2>2, ScanGrows DEF NumberTypeOK, TrackLayout
  <2> QED
    BY <1>3, <1>5, <2>1, <2>3 DEF TrackGrow
<1>8. CASE TrackerLoop \/ TrackerLock
  <2>1. /\ UNCHANGED <<newest, console, ao_flight_number, log_started, erasing_current>>
        /\ log \in {"loop", "lock"} /\ log' \in {"loop", "lock", "first", "data"}
        /\ log' = "first" => ~log_started
    BY <1>8 DEF TrackerLoop, TrackerLock, consoleVars, ghostVars, trackerVars
  <2>2. MarkIs(ao_flight_number)' = MarkIs(ao_flight_number)
    BY <1>3, <2>1
  <2> QED
    BY <1>3, <1>5, <2>1, <2>2 DEF TrackGrow
<1>9. CASE Look \/ Looked \/ LookDelete
  <2>1. /\ UNCHANGED <<newest, ao_flight_number, log_started, log>>
        /\ console \notin {"mark", "marked", "erase"} /\ ~TooEarly
    BY <1>9 DEF Look, Looked, LookDelete, taskVars, ghostVars, trackerVars, Prompt,
      TrackGrow
  <2>2. MarkIs(ao_flight_number)' = MarkIs(ao_flight_number)
    BY <1>1, <2>1 DEF MarkIs, Marked
  <2> QED
    BY <1>3, <1>5, <2>1, <2>2 DEF TrackGrow
<1>10. CASE ao_tracker_erase_start
  <2>1. /\ UNCHANGED <<newest, log_started, log, erasing_current>>
        /\ ao_flight_number' = ao_flight_number + 1
        /\ console = "start" /\ console' = "mark" /\ erasing_current
        /\ log # "first"
    BY <1>2, <1>10 DEF ao_tracker_erase_start, ghostVars, TrackerMutex
  <2>2. ~TooEarly /\ newest <= ao_flight_number + 1
    BY <1>2, <2>1 DEF TrackGrow, NumberTypeOK, Numbers
  <2> QED
    BY <1>3, <1>5, <2>1, <2>2 DEF TrackGrow
<1>11. CASE ao_tracker_erase_end
  <2>1. /\ UNCHANGED <<newest, log>> /\ console' = "none" /\ console = "erase"
        /\ log # "first"
    BY <1>2, <1>11 DEF ao_tracker_erase_end, ghostVars, TrackerMutex
  <2>2. ~TooEarly
    BY <2>1 DEF TrackGrow
  <2>3. ScanAppend(Number) /\ Number \in Numbers /\ (Number = 0 \/ newest <= Number)
    BY <1>2, <1>11, OneNumber DEF ao_tracker_erase_end, TrackGrow, Number, Numbers
  <2>4. newest' <= ao_flight_number' /\ (~log_started' => MarkIs(ao_flight_number)')
    BY <1>1, <1>2, <1>4, <2>1, <2>3, ScanGrows DEF TrackLayout
  <2> QED
    BY <1>3, <1>5, <2>1, <2>2, <2>4 DEF TrackGrow
<1>12. CASE TrackerZapAll
  <2>1. /\ UNCHANGED <<ao_flight_number, log_started, log, erasing_current>>
        /\ newest' = 0 /\ console = "none" /\ console' = "zap"
    BY <1>12 DEF TrackerZapAll, ZapAll, taskVars, Prompt
  <2>2. MarkIs(ao_flight_number)' = MarkIs(ao_flight_number) /\ 0 <= ao_flight_number
    BY <1>1, <1>2, <2>1 DEF MarkIs, Marked, NumberTypeOK, Numbers
  <2>3. Headed => 0 <= flash[0].flight
    BY <1>2, OneNumber DEF Number
  <2> QED
    BY <1>3, <1>5, <2>1, <2>2, <2>3 DEF TrackGrow
<1>13. CASE \/ (DeleteErase \/ Save \/ Saved) /\ UNCHANGED trackerVars
            \/ EraseDone /\ ~(console = "erase" /\ erasing_current) /\ UNCHANGED trackerVars
  <2>1. /\ UNCHANGED <<newest, ao_flight_number, log_started, log, erasing_current>>
        /\ \/ console = "marked" /\ console' = "erase"
           \/ /\ console' \in {"none", "save"}
              /\ console \in {"mark", "marked", "erase"} => ~erasing_current
    BY <1>13 DEF DeleteErase, Save, Saved, EraseDone, taskVars, consoleVars,
      ghostVars, trackerVars, Prompt
  <2>2. MarkIs(ao_flight_number)' = MarkIs(ao_flight_number)
    BY <1>1, <2>1 DEF MarkIs, Marked
  <2> QED
    BY <1>3, <1>5, <2>1, <2>2 DEF TrackGrow
<1> QED
  BY <1>6, <1>7, <1>8, <1>9, <1>10, <1>11, <1>12, <1>13

LEMMA TrackGrows ==
  ASSUME board.tracker, TrackTypes, TrackerNext, TrackGrow, newest \in Numbers, ~forgot'
  PROVE  TrackGrow' /\ (newest' # newest /\ newest' # 0 => newest' > newest)
<1> USE DEF TooEarly
<1>1. /\ TrackLayout /\ NumberTypeOK /\ TrackNumbers /\ TrackErase /\ TrackerMutex
      /\ MaxNumber \in Nat \ {0} /\ ao_flight_number \in Numbers
  BY ConfigAssumption DEF TrackTypes, TrackNumbers, NumberTypeOK
<1>2. PICK m \in Numbers : MarkIs(m) /\ newest <= m
  BY DEF TrackGrow
<1>3. Headed' => \/ Headed /\ flash'[0] = flash[0]
                 \/ TrackerFirst /\ flash'[0] = Flight(ao_flight_number)
  BY HeadSteps DEF Headed
<1>4. CASE TrackerFirst
  <2>1. /\ UNCHANGED <<marks, console, ao_flight_number, erasing_current>>
        /\ log = "first" /\ log' = "data" /\ log_started'
    BY <1>4 DEF TrackerFirst, configVars, consoleVars
  <2>2. MarksFill' /\ \A k : MarkIs(k)' = MarkIs(k)
    BY <2>1, MarksSame DEF TrackGrow
  <2>3. MarkIs(ao_flight_number)
    BY <1>1, <2>1 DEF TrackGrow, TrackerMutex
  <2>4. ao_flight_number = m
    BY <1>1, <1>2, <2>3, OneMark
  <2>5. \/ newest' = m /\ flash'[0] = Flight(m)
        \/ newest' = newest /\ flash'[0] # Flight(m)
    BY <1>4, <2>4 DEF TrackerFirst
  <2>6. newest' <= m /\ (Headed' => newest' <= flash'[0].flight)
    BY <1>1, <1>2, <1>3, <2>4, <2>5 DEF TrackGrow, Flight, Numbers
  <2>7. newest' # newest => newest' > newest
    BY <1>1, <1>2, <2>5 DEF Numbers
  <2> QED
    BY <1>2, <2>1, <2>2, <2>4, <2>6, <2>7 DEF TrackGrow, Headed
<1>5. CASE TrackerData \/ (EraseStep /\ UNCHANGED trackerVars)
  <2>1. /\ UNCHANGED <<marks, newest, console, ao_flight_number, erasing_current,
                       log_started>>
        /\ log' = log \/ (log = "data" /\ log' = "loop")
    BY <1>5 DEF TrackerData, EraseStep, configVars, consoleVars, taskVars, ghostVars,
      trackerVars
  <2>2. MarksFill' /\ \A k : MarkIs(k)' = MarkIs(k)
    BY <2>1, MarksSame DEF TrackGrow
  <2>3. MarkIs(ao_flight_number)' = MarkIs(ao_flight_number)
    BY <2>1, <2>2
  <2>4. ~TrackerFirst
    BY <1>5, <2>1 DEF TrackerFirst, TrackerData, EraseStep, taskVars
  <2>5. Headed' => newest' <= flash'[0].flight
    BY <1>3, <2>1, <2>4 DEF TrackGrow
  <2>6. newest' <= m /\ MarkIs(m)'
    BY <1>2, <2>1, <2>2
  <2> QED
    BY <2>1, <2>2, <2>3, <2>5, <2>6 DEF TrackGrow, Headed
<1>6. CASE DeleteMark /\ UNCHANGED trackerVars
  <2>1. /\ UNCHANGED <<flash, newest, ao_flight_number, erasing_current, log,
                       log_started>>
        /\ console = "mark" /\ console' = "marked" /\ ao_log_erase_mark
    BY <1>6 DEF DeleteMark, ao_log_erase_mark, storageVars, taskVars, ghostVars,
      trackerVars
  <2>2. ~TooEarly /\ newest <= ao_flight_number /\ ao_flight_number # 0
    BY <1>1, <2>1 DEF TrackGrow, TrackNumbers
  <2>3. MarksFill'
    BY <1>1, <2>1, MarkMade DEF TrackGrow
  <2>4. CASE marks' = marks
    <3>1. MarkIs(m)' /\ MarkIs(ao_flight_number)' = MarkIs(ao_flight_number)
      BY <1>2, <2>1, <2>4, MarksSame
    <3> QED
      BY <1>2, <2>1, <2>2, <2>3, <3>1 DEF TrackGrow, Headed
  <2>5. CASE marks' # marks
    <3>1. PICK i \in Marks : /\ marks[i] = NoMark /\ Marked = 0 .. i - 1
                             /\ marks' = [marks EXCEPT ![i] = ao_flight_number]
      BY <1>1, <2>1, <2>5, MarkMade DEF TrackGrow
    <3>2. /\ i \in Nat /\ i \in Marked' /\ marks'[i] = ao_flight_number
          /\ \A j \in Marked' : j \in Nat /\ j <= i
      BY <1>1, <3>1, ConfigAssumption DEF Marked, Marks, NumberTypeOK, Numbers
    <3>3. MarkIs(ao_flight_number)'
      BY <2>1, <2>2, <3>2 DEF MarkIs
    <3> QED
      BY <1>1, <2>1, <2>2, <2>3, <3>3 DEF TrackGrow, Headed
  <2> QED
    BY <2>1, <2>4, <2>5
<1>7. CASE PutNext
  BY <1>7 DEF PutNext
<1>8. CASE TrackerPowerCycle
  <2>1. /\ UNCHANGED <<marks, newest>> /\ console' = "none" /\ log' = "scan"
    BY <1>8 DEF TrackerPowerCycle, PowerCycle
  <2>2. MarksFill' /\ \A k : MarkIs(k)' = MarkIs(k)
    BY <2>1, MarksSame DEF TrackGrow
  <2>3. ~TrackerFirst
    BY <2>1 DEF TrackerFirst
  <2>4. Headed' => newest' <= flash'[0].flight
    BY <1>3, <2>1, <2>3 DEF TrackGrow
  <2> QED
    BY <1>2, <2>1, <2>2, <2>4 DEF TrackGrow, Headed
<1>9. CASE QuietStep
  <2>1. TrackGrow'
    BY <1>9, TrackGrowsQuietly
  <2>2. newest' \in {newest, 0}
    BY <1>9 DEF QuietStep, ScanFlights, TrackerScan, TrackerLoop, TrackerLock, Look,
      Looked, LookDelete, ao_tracker_erase_start, ao_tracker_erase_end, TrackerZapAll,
      ZapAll, DeleteErase, Save, Saved, EraseDone, ghostVars
  <2> QED
    BY <2>1, <2>2
<1> QED
  BY <1>4, <1>5, <1>6, <1>7, <1>8, <1>9
  DEF TrackerNext, TrackerTaskStep, TrackerConsoleStep, QuietStep

-----------------------------------------------------------------------------
(* The same on a flight computer.  Its marks rise, and a log is erased only *)
(* when a mark is above all logs.                                          *)
MarksUp ==
  \A i, j \in Marks : i < j /\ marks[j] # NoMark =>
    marks[i] # NoMark /\ marks[i] <= marks[j]

MarkAhead == newest = 0 \/ \E i \in Marked : newest < marks[i]

(* A scan of logs of that size finds a number as high as newest.           *)
Known(size) == MarkAhead \/ \E slot \in SlotsOf(size) : newest <= FlightAt(slot, size)

(* The size of a log after the next boot.                                  *)
BootSize == IF saved = Lost THEN board.log ELSE saved

MarksOK ==
  /\ put # "clear" => MarksUp
  /\ put = "clear" => marks[0] = ao_flight_number
  /\ put \in {"config", "mark"} /\ board.memory = "flash" => Marked = {}
  /\ ~TooEarly => \A i \in Marked : marks[i] <= ao_flight_number

Busy ==
  /\ log \in {"scan", "marks", "place", "wait", "flight", "sensor", "landed"}
  /\ put # "done" => console \in {"save", "marked"}
  /\ console \in {"save", "mark", "marked", "erase"} => ~TooEarly
  /\ ~idle => put = "done" /\ flight_log_max = BootSize

NewestOK ==
  /\ log \in {"place", "wait", "flight"} => newest < ao_flight_number
  /\ log = "marks" => MarkAhead \/ newest <= ao_flight_number
  /\ put \in {"done", "erase"} => Known(flight_log_max) /\ Known(BootSize)
  /\ console = "erase" \/ (console = "marked" /\ put = "done") => MarkAhead
  /\ console = "zap" => newest = 0

Starts == {ao_log_pos(slot) : slot \in Slots}

PlaceOK ==
  ~idle /\ ao_log_current_pos < ao_log_end_pos =>
    /\ log \in {"wait", "flight"} => flash[ao_log_current_pos] = Erased
    /\ log = "sensor" /\ ao_log_running => ao_log_current_pos \notin Starts

GrowOK == MarksOK /\ Busy /\ NewestOK /\ PlaceOK

LEMMA LastMarked ==
  ASSUME Marked # {}
  PROVE  \E i \in Marked : \A j \in Marked : j <= i
<1> DEFINE D == {MaxErase - i : i \in Marked}
<1>1. MaxErase \in Nat /\ \A i \in Marked : i \in Nat /\ i < MaxErase
  BY ConfigAssumption DEF Marked, Marks
<1>2. D \in SUBSET Nat /\ D # {}
  BY <1>1
<1>3. PICK d \in D : \A e \in D : d <= e
  BY <1>2, Least
<1>4. PICK i \in Marked : d = MaxErase - i
  BY <1>3
<1>5. ASSUME NEW j \in Marked PROVE j <= i
  <2>1. MaxErase - i <= MaxErase - j
    BY <1>3, <1>4
  <2> QED
    BY <1>1, <2>1
<1> QED
  BY <1>5

(* The number of a scan is as high as every mark.                          *)
LEMMA MarksBelow ==
  ASSUME NumberTypeOK, MarksUp, NEW n \in Numbers, NEW j \in Marked
  PROVE  marks[j] <= FromMarks(n)
<1>1. PICK i \in Marked : \A k \in Marked : k <= i
  BY LastMarked
<1>2. MaxNumber \in Nat /\ NoMark \notin Nat /\ marks[i] \in Nat /\ marks[j] \in Nat
      /\ i \in Marks /\ j \in Marks /\ i \in Int /\ j \in Int /\ n \in Nat
  BY ConfigAssumption DEF NumberTypeOK, Marked, Marks, Numbers
<1>3. marks[j] <= marks[i]
  <2>1. j < i \/ j = i
    BY <1>1, <1>2
  <2> QED
    BY <1>2, <2>1 DEF MarksUp, Marked
<1>4. FromMarks(n) = IF marks[i] > n THEN marks[i] ELSE IF n = 0 THEN 1 ELSE n
  BY <1>1, LastMark
<1> QED
  BY <1>2, <1>3, <1>4

LEMMA Sized ==
  ASSUME LayoutTypeOK
  PROVE  flight_log_max \in Sizes /\ BootSize \in Sizes /\ board.memory \in {"flash", "eeprom"}
BY ConfigAssumption, StorageAssumption DEF LayoutTypeOK, BootSize

(* What is known stays so while the logs with a number keep it.            *)
LEMMA KnownStays ==
  ASSUME LayoutTypeOK, NumberTypeOK, newest \in Numbers, NEW size \in Sizes, Known(size),
         UNCHANGED <<board, marks, newest>>,
         \A slot \in SlotsOf(size) : FlightAt(slot, size) > 0 =>
           FlightAt(slot, size)' = FlightAt(slot, size)
  PROVE  Known(size)'
<1>1. MarkAhead' = MarkAhead /\ SlotsOf(size)' = SlotsOf(size)
  BY DEF MarkAhead, Marked, SlotsOf, Blocks
<1>2. CASE MarkAhead
  BY <1>1, <1>2 DEF Known
<1>3. CASE newest # 0 /\ ~MarkAhead
  <2>1. PICK slot \in SlotsOf(size) : newest <= FlightAt(slot, size)
    BY <1>3 DEF Known
  <2>2. FlightAt(slot, size) > 0
    <3>1. FlightAt(slot, size) \in 0 .. MaxNumber - 1 /\ newest \in Nat /\ MaxNumber \in Nat
      BY FlightAtType, ConfigAssumption DEF Numbers
    <3> QED
      BY <1>3, <2>1, <3>1
  <2> QED
    BY <1>1, <2>1, <2>2 DEF Known
<1> QED
  BY <1>2, <1>3 DEF MarkAhead

(* What comes after the first position of a slot starts no slot.           *)
LEMMA NotAStart ==
  ASSUME LayoutTypeOK, NEW slot \in Slots, NEW c \in Int,
         ao_log_pos(slot) < c, c < ao_log_pos_block_end(slot)
  PROVE  c \notin Starts
<1> SUFFICES ASSUME NEW t \in Slots, c = ao_log_pos(t) PROVE FALSE
  BY DEF Starts
<1> DEFINE m == flight_log_max * PerBlock
<1>1. /\ slot \in Nat /\ t \in Nat /\ flight_log_max \in Nat /\ PerBlock \in Nat \ {0}
      /\ flight_log_max # 0
  BY SlotInMemory, StorageAssumption DEF LayoutTypeOK, Slots
<1>2. m \in Nat /\ m > 0
  BY <1>1
<1>3. /\ ao_log_pos(slot) = slot * m /\ ao_log_pos(t) = t * m
      /\ ao_log_pos_block_end(slot) = (slot + 1) * m
  BY <1>1 DEF ao_log_pos, ao_log_pos_block_end
<1> HIDE DEF m
<1>4. c \in slot * m .. (slot + 1) * m - 1 /\ c \in t * m .. (t + 1) * m - 1
  <2>1. slot * m \in Int /\ (slot + 1) * m \in Int /\ t * m \in Int
        /\ (t + 1) * m = t * m + m
    BY <1>1, <1>2
  <2> QED
    BY <1>2, <1>3, <2>1
<1>5. t = slot
  BY <1>1, <1>2, <1>4, PartsApart
<1> QED
  BY <1>3, <1>5

(* Where a flight computer writes, the first position of a slot is erased. *)
LEMMA WritesNoStart ==
  ASSUME SlotsInv, NumberTypeOK, PlaceOK, ~board.tracker, ~idle,
         log \in {"flight", "sensor"}, ao_log_running, ao_log_current_pos < ao_log_end_pos,
         NEW slot \in Slots, FlightAt(slot, flight_log_max) > 0
  PROVE  slot * flight_log_max * PerBlock # ao_log_current_pos
<1>1. slot * flight_log_max * PerBlock \in Starts
  BY DEF Starts, ao_log_pos
<1>2. flash[slot * flight_log_max * PerBlock].type = "flight"
  BY FlightAtType DEF Slots, SlotsInv, LayoutTypeOK
<1> QED
  BY <1>1, <1>2 DEF PlaceOK, Erased

LEMMA MarkAheadSame ==
  ASSUME marks' = marks
  PROVE  /\ Marked' = Marked /\ MarksUp' = MarksUp
         /\ newest' = newest => MarkAhead' = MarkAhead
         /\ UNCHANGED <<newest, board, flash>> => \A size : Known(size)' = Known(size)
<1>1. /\ Marked' = Marked /\ MarksUp' = MarksUp
      /\ newest' = newest => MarkAhead' = MarkAhead
  BY DEF Marked, MarksUp, MarkAhead
<1> QED
  BY <1>1 DEF Known, SlotsOf, Blocks, FlightAt

LEMMA ScanGrowsOn ==
  ASSUME SlotsInv, NumbersOK, ~board.tracker, newest \in Numbers, GrowOK,
         ScanFlights \/ ScanMarks \/ ScanPlace \/ ao_log_start \/ Landed
  PROVE  GrowOK' /\ newest' = newest
<1> USE DEF GrowOK, TooEarly
<1>1. /\ UNCHANGED <<board, flash, saved, marks, flight_log_max, put, console, newest, idle>>
      /\ MaxNumber \in Nat /\ newest \in Nat /\ ao_flight_number \in Numbers
      /\ NumberTypeOK /\ LayoutTypeOK
  BY ConfigAssumption DEF ScanFlights, ScanMarks, ScanPlace, ao_log_start, Landed,
    storageVars, configVars, consoleVars, ghostVars, SlotsInv, NumbersOK, NumberTypeOK,
    Numbers
<1>2. /\ Marked' = Marked /\ MarksUp' = MarksUp /\ MarkAhead' = MarkAhead
      /\ \A size : Known(size)' = Known(size)
      /\ BootSize' = BootSize /\ Starts' = Starts
  BY <1>1, MarkAheadSame DEF BootSize, Starts, Slots, SlotsOf, Blocks, ao_log_pos
<1>3. CASE ScanFlights
  <2>1. /\ log = "scan" /\ log' = "marks" /\ ao_flight_number' = ao_log_max_flight
    BY <1>3 DEF ScanFlights
  <2>2. put = "done"
    BY <2>1 DEF Busy
  <2>3. MarkAhead \/ newest <= ao_log_max_flight
    <3>1. ASSUME NEW slot \in Slots, newest <= FlightAt(slot, flight_log_max)
          PROVE  newest <= ao_log_max_flight
      <4>1. FlightAt(slot, flight_log_max) \in 0 .. MaxNumber - 1
        BY <1>1, FlightAtType DEF Slots, LayoutTypeOK
      <4>2. /\ ao_log_max_flight \in 0 .. MaxNumber - 1
            /\ FlightAt(slot, flight_log_max) <= ao_log_max_flight
        BY <1>1, MaxFlight
      <4> QED
        BY <1>1, <3>1, <4>1, <4>2
    <3> QED
      BY <2>2, <3>1 DEF NewestOK, Known, Slots
  <2> QED
    BY <1>1, <1>2, <2>1, <2>2, <2>3 DEF MarksOK, Busy, NewestOK, PlaceOK
<1>4. CASE ScanMarks
  <2> DEFINE n == IF ao_flight_number = 0 THEN 0 ELSE ao_flight_number + 1
  <2>1. /\ log = "marks" /\ log' = "place" /\ ao_flight_number' = FromMarks(n)
    BY <1>4 DEF ScanMarks
  <2>2. put = "done" /\ MarksUp
    BY <2>1 DEF Busy, MarksOK
  <2>3. n \in Numbers /\ (ao_flight_number = 0 \/ n > ao_flight_number)
    BY <1>1, <2>1, ConfigAssumption DEF NumbersOK, Numbers
  <2> HIDE DEF n
  <2>4. /\ \A j \in Marked : marks[j] <= FromMarks(n)
        /\ FromMarks(n) \in Numbers /\ FromMarks(n) # 0 /\ FromMarks(n) >= n
    BY <1>1, <2>2, <2>3, MarksBelow, MarksRaise
  <2>5. newest < FromMarks(n)
    <3>1. ASSUME NEW i \in Marked, newest < marks[i]
          PROVE  newest < FromMarks(n)
      <4>1. marks[i] \in Nat
        BY <1>1 DEF NumberTypeOK, Marked, Numbers
      <4> QED
        BY <1>1, <2>4, <3>1, <4>1 DEF Numbers
    <3>2. CASE newest = 0
      BY <1>1, <2>4, <3>2 DEF Numbers
    <3>3. CASE newest <= ao_flight_number
      BY <1>1, <2>3, <2>4, <3>2, <3>3 DEF Numbers
    <3> QED
      BY <2>1, <3>1, <3>2, <3>3 DEF NewestOK, MarkAhead
  <2> QED
    BY <1>1, <1>2, <2>1, <2>2, <2>4, <2>5 DEF MarksOK, Busy, NewestOK, PlaceOK
<1>5. CASE ScanPlace
  <2>1. log = "place" /\ log' = "wait" /\ ao_flight_number' = ao_flight_number
    BY <1>5 DEF ScanPlace
  <2>2. ASSUME ao_log_current_pos' < ao_log_end_pos'
        PROVE  flash[ao_log_current_pos'] = Erased
    <3>1. PICK slot \in Free : ao_log_current_pos' = ao_log_pos(slot)
      BY <1>5, <2>2 DEF ScanPlace
    <3>2. ao_storage_is_erased(slot * flight_log_max) /\ slot \in Slots
      BY <1>1, <3>1, FreeIsErased DEF SlotsInv, Free
    <3>3. slot * flight_log_max * PerBlock \in Block(slot * flight_log_max)
      BY <1>1, <3>2, FlightAtType DEF Slots, LayoutTypeOK
    <3> QED
      BY <3>1, <3>2, <3>3 DEF ao_storage_is_erased, ao_log_pos
  <2> QED
    BY <1>1, <1>2, <2>1, <2>2 DEF MarksOK, Busy, NewestOK, PlaceOK
<1>6. CASE ao_log_start
  <2>1. /\ log = "wait" /\ log' = "flight"
        /\ UNCHANGED <<ao_flight_number, ao_log_current_pos, ao_log_end_pos>>
    BY <1>6 DEF ao_log_start
  <2> QED
    BY <1>1, <1>2, <2>1 DEF MarksOK, Busy, NewestOK, PlaceOK
<1>7. CASE Landed
  <2>1. log = "sensor" /\ log' = "landed" /\ ao_flight_number' = ao_flight_number
    BY <1>7 DEF Landed
  <2> QED
    BY <1>1, <1>2, <2>1 DEF MarksOK, Busy, NewestOK, PlaceOK
<1> QED
  BY <1>1, <1>3, <1>4, <1>5, <1>6, <1>7

LEMMA WriteGrowsOn ==
  ASSUME SlotsInv, NumbersOK, ~board.tracker, newest \in Numbers, GrowOK,
         WriteFlight \/ WriteSensor
  PROVE  GrowOK' /\ newest' \in Numbers /\ (newest' # newest => newest' > newest)
<1> USE DEF GrowOK, TooEarly
<1>1. /\ UNCHANGED <<board, saved, marks, flight_log_max, put, console, idle,
                     ao_flight_number, ao_log_end_pos>>
      /\ log \in {"flight", "sensor"} /\ log' = "sensor" /\ ~idle
      /\ log = "flight" <=> WriteFlight
      /\ MaxNumber \in Nat /\ newest \in Nat /\ ao_flight_number \in Numbers
      /\ NumberTypeOK /\ LayoutTypeOK
  BY ConfigAssumption DEF WriteFlight, WriteSensor, ao_log_write, configVars, consoleVars,
    SlotsInv, Boots, NumbersOK, NumberTypeOK, Numbers
<1>2. /\ Marked' = Marked /\ MarksUp' = MarksUp
      /\ newest' = newest => MarkAhead' = MarkAhead
      /\ BootSize' = BootSize /\ Starts' = Starts
      /\ put = "done" /\ flight_log_max = BootSize /\ flight_log_max \in Sizes
      /\ console = "none"
  BY <1>1, MarkAheadSame, Sized
  DEF BootSize, Starts, Slots, SlotsOf, Blocks, ao_log_pos, Busy, SlotsInv, Boots
<1>3. MarksOK' /\ Busy'
  BY <1>1, <1>2 DEF MarksOK, Busy
<1>4. Known(flight_log_max)
  BY <1>2 DEF NewestOK
<1>5. CASE ~(ao_log_running /\ ao_log_current_pos < ao_log_end_pos)
  <2>1. UNCHANGED <<flash, ao_log_current_pos, newest>> /\ ~ao_log_running'
    <3>1. flash' = flash /\ ao_log_current_pos' = ao_log_current_pos /\ ~ao_log_running'
      BY <1>5 DEF WriteFlight, WriteSensor, ao_log_write
    <3> QED
      BY <3>1 DEF WriteFlight, WriteSensor
  <2>2. Known(flight_log_max)'
    BY <1>1, <1>4, <2>1, MarkAheadSame
  <2> QED
    BY <1>1, <1>2, <1>3, <2>1, <2>2 DEF NewestOK, PlaceOK
<1>6. CASE ao_log_running /\ ao_log_current_pos < ao_log_end_pos
  <2> DEFINE c == ao_log_current_pos
  <2>1. PICK slot \in Slots :
          /\ Writing(slot) /\ ao_log_pos(slot) \in Nat /\ ao_log_end_pos \in Nat
          /\ c \in Positions
          /\ c \in ao_log_pos(slot) .. ao_log_pos_block_end(slot) - 1
    BY <1>1, <1>6, WritingAt DEF SlotsInv
  <2>2. /\ ao_log_current_pos' = c + 1 /\ c \in Nat
        /\ ao_log_end_pos = ao_log_pos_block_end(slot)
    <3>1. ao_log_end_pos = ao_log_pos_block_end(slot)
      BY <2>1 DEF Writing
    <3>2. c \in Nat
      BY <2>1, <3>1
    <3>3. ao_log_current_pos' = c + 1
      BY <1>6 DEF WriteFlight, WriteSensor, ao_log_write
    <3> QED
      BY <3>1, <3>2, <3>3
  <2>3. PlaceOK'
    <3>1. c + 1 < ao_log_end_pos => c + 1 \notin Starts
      BY <1>1, <2>1, <2>2, NotAStart
    <3> QED
      BY <1>1, <1>2, <2>2, <3>1 DEF PlaceOK
  <2>4. CASE WriteFlight
    <3>1. flash[c] = Erased
      BY <1>1, <1>6, <2>4 DEF PlaceOK
    <3>2. flash' = [flash EXCEPT ![c] = Flight(ao_flight_number)]
      BY <1>6, <2>4, <3>1 DEF WriteFlight, ao_log_write, ao_storage_write
    <3>3. flash'[c] = Flight(ao_flight_number)
      BY <1>1, <2>1, <3>2 DEF LayoutTypeOK
    <3>4. flash' # flash
      BY <3>1, <3>3 DEF Flight, Erased
    <3>5. newest' = ao_flight_number
      BY <2>4, <3>4 DEF WriteFlight
    <3>6. slot * flight_log_max * PerBlock = c
      BY <1>1, <2>1, <2>4 DEF Writing, ao_log_pos
    <3>7. FlightAt(slot, flight_log_max)' = ao_flight_number
      BY <1>1, <3>3, <3>6 DEF FlightAt, Flight
    <3>8. Known(flight_log_max)'
      <4>1. slot \in SlotsOf(flight_log_max)'
        BY <1>1, <2>1 DEF Slots, SlotsOf, Blocks
      <4>2. newest' <= FlightAt(slot, flight_log_max)'
        BY <1>1, <3>5, <3>7 DEF Numbers
      <4> QED
        BY <4>1, <4>2 DEF Known
    <3>9. newest' > newest
      BY <1>1, <2>4, <3>5 DEF NewestOK, Numbers
    <3> QED
      BY <1>1, <1>2, <1>3, <2>3, <3>5, <3>8, <3>9 DEF NewestOK
  <2>5. CASE WriteSensor
    <3>1. newest' = newest
      BY <2>5 DEF WriteSensor
    <3>2. \A t \in SlotsOf(flight_log_max) : FlightAt(t, flight_log_max) > 0 =>
            FlightAt(t, flight_log_max)' = FlightAt(t, flight_log_max)
      <4>1. \A p \in Positions : p # c => flash'[p] = flash[p]
        BY <1>1, <1>6, <2>5 DEF WriteSensor, ao_log_write, ao_storage_write, LayoutTypeOK
      <4> SUFFICES ASSUME NEW t \in SlotsOf(flight_log_max),
                          FlightAt(t, flight_log_max) > 0
                   PROVE  flash'[t * flight_log_max * PerBlock] =
                            flash[t * flight_log_max * PerBlock]
        BY <1>1 DEF FlightAt
      <4>2. t * flight_log_max * PerBlock \in Positions
        BY <1>1, <1>2, FlightAtType
      <4>3. t * flight_log_max * PerBlock # c
        BY <1>1, <1>6, WritesNoStart DEF Slots
      <4> QED
        BY <4>1, <4>2, <4>3
    <3>3. Known(flight_log_max)'
      <4>1. PICK size : size = flight_log_max
        OBVIOUS
      <4>2. Known(size)'
        BY <1>1, <1>2, <1>4, <3>1, <3>2, <4>1, KnownStays
      <4> QED
        BY <1>1, <4>1, <4>2
    <3> QED
      BY <1>1, <1>2, <1>3, <2>3, <3>1, <3>3 DEF NewestOK
  <2> QED
    BY <2>4, <2>5
<1> QED
  BY <1>5, <1>6

(* A mark that is made is above all logs, and no mark is above it.         *)
LEMMA MarkGrows ==
  ASSUME NumberTypeOK, newest \in Numbers, MarksUp, put = "done", ao_log_erase_mark,
         newest < ao_flight_number, \A i \in Marked : marks[i] <= ao_flight_number
  PROVE  /\ MarksUp' /\ \A i \in Marked' : marks'[i] <= ao_flight_number
         /\ put' = "clear" => marks'[0] = ao_flight_number
         /\ \/ put' = "erase" /\ marks' = marks
            \/ newest < ao_flight_number /\ \E i \in Marks : marks'[i] = ao_flight_number
         /\ put' \in {"erase", "clear", "done"}
<1>1. MarksFill
  BY DEF MarksUp, MarksFill
<1>2. /\ ao_flight_number \in Nat /\ MaxErase \in Nat \ {0} /\ \A i \in Marks : i \in Nat
      /\ NoMark \notin Nat /\ DOMAIN marks = Marks
      /\ 0 \in Marks
  BY ConfigAssumption DEF NumberTypeOK, Numbers, Marks
<1>3. CASE marks' = marks
  <2>1. MarksUp' /\ Marked' = Marked
    BY <1>3, MarkAheadSame
  <2>2. \/ /\ put' = put /\ \E i \in Marks : marks[i] = ao_flight_number
        \/ put' = "erase"
        \/ \E i \in Marks : marks[i] = NoMark /\
             marks' = [marks EXCEPT ![i] = ao_flight_number]
    BY <1>1, MarkMade
  <2>3. ~\E i \in Marks : marks[i] = NoMark /\
           marks' = [marks EXCEPT ![i] = ao_flight_number]
    BY <1>2, <1>3
  <2> QED
    BY <1>3, <2>1, <2>2, <2>3
<1>4. CASE marks' # marks
  <2>1. PICK i \in Marks :
          /\ marks[i] = NoMark /\ Marked = 0 .. i - 1
          /\ marks' = [marks EXCEPT ![i] = ao_flight_number]
          /\ put' = IF i = 0 /\ board.memory = "eeprom" THEN "clear" ELSE "done"
    BY <1>1, <1>4, MarkMade
  <2>2. /\ \A j \in Marks : marks'[j] = IF j = i THEN ao_flight_number ELSE marks[j]
        /\ \A j \in Marks : marks[j] # NoMark <=> j < i
    BY <1>2, <2>1 DEF Marked
  <2>3. MarksUp'
    BY <1>2, <2>1, <2>2 DEF MarksUp, Marked
  <2>4. \A j \in Marked' : marks'[j] <= ao_flight_number
    BY <1>2, <2>1, <2>2 DEF Marked
  <2> QED
    BY <1>2, <2>1, <2>2, <2>3, <2>4
<1> QED
  BY <1>3, <1>4

(* The commands that change neither the marks nor a log.                   *)
LEMMA CommandGrowsOn ==
  ASSUME SlotsInv, NumbersOK, ~board.tracker, newest \in Numbers, GrowOK, ~forgot',
         \/ Delete \/ DeleteErase \/ EraseDone \/ ZapAll \/ Save \/ Saved \/ SetLogSize
  PROVE  GrowOK' /\ newest' \in {newest, 0}
<1> USE DEF GrowOK, TooEarly
<1>1. /\ UNCHANGED <<board, flash, saved, marks, idle, log, ao_flight_number,
                     ao_log_running, ao_log_current_pos, ao_log_end_pos>>
      /\ ~SetLogSize => flight_log_max' = flight_log_max
      /\ ~ZapAll => newest' = newest
      /\ MaxNumber \in Nat /\ newest \in Nat /\ ao_flight_number \in Nat
      /\ idle /\ NumberTypeOK /\ LayoutTypeOK
  BY ConfigAssumption DEF Delete, DeleteErase, EraseDone, ZapAll, Save, Saved,
    SetLogSize, storageVars, configVars, taskVars, ghostVars, Prompt, SlotsInv, Boots, NumbersOK,
    NumberTypeOK, Numbers
<1>2. /\ Marked' = Marked /\ MarksUp' = MarksUp
      /\ newest' = newest => MarkAhead' = MarkAhead
      /\ BootSize' = BootSize
      /\ newest' = newest => \A size : Known(size)' = Known(size)
  BY <1>1, MarkAheadSame DEF BootSize
<1>3. PlaceOK'
  BY <1>1 DEF PlaceOK
<1>4. CASE Delete
  <2>1. console = "none" /\ console' = "mark" /\ put' = put /\ newest' = newest /\ ~TooEarly
    BY <1>4 DEF Delete, Prompt, configVars
  <2>2. flight_log_max' = flight_log_max
    BY <1>4 DEF Delete, configVars
  <2> QED
    BY <1>1, <1>2, <1>3, <2>1, <2>2 DEF MarksOK, Busy, NewestOK
<1>5. CASE DeleteErase
  <2>1. /\ console = "marked" /\ put = "done" /\ console' = "erase"
        /\ UNCHANGED <<put, newest, flight_log_max>>
    BY <1>5 DEF DeleteErase, configVars, ghostVars
  <2> QED
    BY <1>1, <1>2, <1>3, <2>1 DEF MarksOK, Busy, NewestOK
<1>6. CASE EraseDone
  <2>1. /\ console \in {"erase", "zap"} /\ console' = "none"
        /\ UNCHANGED <<put, newest, flight_log_max>>
    BY <1>6 DEF EraseDone, configVars, ghostVars
  <2> QED
    BY <1>1, <1>2, <1>3, <2>1 DEF MarksOK, Busy, NewestOK
<1>7. CASE ZapAll
  <2>1. /\ console = "none" /\ console' = "zap" /\ newest' = 0
        /\ UNCHANGED <<put, flight_log_max>>
    BY <1>7 DEF ZapAll, configVars, Prompt
  <2>2. MarkAhead'
    BY <2>1 DEF MarkAhead
  <2>3. \A size : Known(size)'
    BY <2>2 DEF Known
  <2>4. log \in {"place", "wait", "flight"} => ao_flight_number > 0
    BY <1>1 DEF SlotsInv, Numbered
  <2> QED
    BY <1>1, <1>2, <1>3, <2>1, <2>2, <2>3, <2>4 DEF MarksOK, Busy, NewestOK
<1>8. CASE Save
  <2>1. /\ console = "none" /\ console' = "save" /\ put' = "erase" /\ ~TooEarly
        /\ UNCHANGED <<newest, flight_log_max>>
    BY <1>8 DEF Save, Prompt
  <2>2. put = "done"
    BY <2>1 DEF Busy
  <2> QED
    BY <1>1, <1>2, <1>3, <2>1, <2>2 DEF MarksOK, Busy, NewestOK
<1>9. CASE Saved
  <2>1. /\ console = "save" /\ console' = "none" /\ put' = put /\ put = "done"
        /\ UNCHANGED <<newest, flight_log_max>>
    BY <1>9 DEF Saved, ghostVars
  <2> QED
    BY <1>1, <1>2, <1>3, <2>1 DEF MarksOK, Busy, NewestOK
<1>10. CASE SetLogSize
  <2>1. /\ console = "none" /\ console' = "none" /\ put' = put /\ newest' = newest
        /\ ao_log_max_flight = 0
    BY <1>10 DEF SetLogSize, Prompt, consoleVars, ghostVars
  <2>2. put = "done"
    BY <2>1 DEF Busy
  <2>3. MarkAhead
    <3>1. Known(flight_log_max)
      BY <2>2 DEF NewestOK
    <3>2. ASSUME NEW slot \in Slots, newest <= FlightAt(slot, flight_log_max)
          PROVE  newest = 0
      <4>1. FlightAt(slot, flight_log_max) \in 0 .. MaxNumber - 1
        BY <1>1, FlightAtType DEF Slots, LayoutTypeOK
      <4>2. FlightAt(slot, flight_log_max) <= 0
        BY <1>1, <2>1, MaxFlight
      <4> QED
        BY <1>1, <3>2, <4>1, <4>2
    <3> QED
      BY <3>1, <3>2 DEF Known, Slots, MarkAhead
  <2>4. MarkAhead' /\ \A size : Known(size)'
    BY <1>2, <2>1, <2>3 DEF Known
  <2> QED
    BY <1>1, <1>2, <1>3, <2>1, <2>2, <2>4 DEF MarksOK, Busy, NewestOK
<1> QED
  <2>1. newest' \in {newest, 0}
    BY <1>1 DEF ZapAll
  <2> QED
    BY <1>4, <1>5, <1>6, <1>7, <1>8, <1>9, <1>10, <2>1

(* The commands that change the marks or a log.                            *)
LEMMA MarkGrowsOn ==
  ASSUME SlotsInv, NumbersOK, ~board.tracker, newest \in Numbers, GrowOK, ~forgot',
         DeleteMark \/ PutNext \/ EraseStep
  PROVE  GrowOK' /\ newest' = newest
<1> USE DEF GrowOK, TooEarly
<1>1. /\ UNCHANGED <<board, idle, log, ao_flight_number, ao_log_running,
                     ao_log_current_pos, ao_log_end_pos, newest, flight_log_max>>
      /\ MaxNumber \in Nat /\ newest \in Nat /\ ao_flight_number \in Nat
      /\ NumberTypeOK /\ LayoutTypeOK
      /\ 0 \in Marks /\ NoMark \notin Nat /\ DOMAIN marks = Marks
      /\ \A i \in Marks : i \in Nat
  BY ConfigAssumption DEF DeleteMark, PutNext, EraseStep, ao_log_erase_mark, PutStep,
    storageVars, configVars, taskVars, ghostVars, SlotsInv, NumbersOK, NumberTypeOK,
    Numbers, Marks
<1>2. idle
  <2>1. DeleteMark => console = "mark"
    BY DEF DeleteMark
  <2>2. PutNext => put # "done"
    BY DEF PutNext, PutStep, PutErase, PutConfig, PutMark, PutClear
  <2>3. EraseStep => Erasing
    BY DEF EraseStep, EraseBlock, EraseFails
  <2> QED
    BY <2>1, <2>2, <2>3 DEF Busy, SlotsInv, Boots
<1>3. PlaceOK'
  BY <1>1, <1>2 DEF PlaceOK
<1>4. ~TooEarly => newest < ao_flight_number
  BY <1>2 DEF SlotsInv, Boots, NewestOK, Busy
<1>5. CASE EraseStep
  <2>1. UNCHANGED <<saved, marks, put, console>>
    BY <1>5 DEF EraseStep, configVars, consoleVars
  <2>2. /\ Marked' = Marked /\ MarksUp' = MarksUp /\ MarkAhead' = MarkAhead
        /\ BootSize' = BootSize
    BY <1>1, <2>1, MarkAheadSame DEF BootSize
  <2>3. MarkAhead
    <3>1. Erasing
      BY <1>5 DEF EraseStep, EraseBlock, EraseFails
    <3> QED
      BY <3>1 DEF SlotsInv, ErasesBack, NewestOK, MarkAhead
  <2>4. \A size : Known(size)'
    BY <2>2, <2>3 DEF Known
  <2> QED
    BY <1>1, <1>2, <1>3, <2>1, <2>2, <2>4 DEF MarksOK, Busy, NewestOK
<1>6. CASE DeleteMark
  <2>1. /\ console = "mark" /\ console' = "marked" /\ ao_log_erase_mark
        /\ saved' = saved /\ flash' = flash
    BY <1>6 DEF DeleteMark, ao_log_erase_mark, storageVars
  <2>2. /\ ~TooEarly /\ put = "done" /\ MarksUp
        /\ \A i \in Marked : marks[i] <= ao_flight_number
    BY <2>1 DEF Busy, MarksOK
  <2>3. /\ MarksUp' /\ \A i \in Marked' : marks'[i] <= ao_flight_number
        /\ put' = "clear" => marks'[0] = ao_flight_number
        /\ \/ put' = "erase" /\ marks' = marks
           \/ newest < ao_flight_number /\ \E i \in Marks : marks'[i] = ao_flight_number
        /\ put' \in {"erase", "clear", "done"}
    BY <1>1, <1>4, <2>1, <2>2, MarkGrows
  <2>4. BootSize' = BootSize
    BY <1>1, <2>1 DEF BootSize
  <2>5. MarksOK' /\ Busy'
    BY <1>1, <1>2, <2>1, <2>2, <2>3, <2>4 DEF MarksOK, Busy
  <2>6. put' # "erase" => MarkAhead'
    BY <1>1, <2>3 DEF MarkAhead, Marked
  <2>7. put' = "erase" => Known(flight_log_max)' /\ Known(BootSize)'
    <3>1. Known(flight_log_max) /\ Known(BootSize)
      BY <2>2 DEF NewestOK
    <3>2. CASE marks' = marks
      <4>1. \A size : Known(size)' = Known(size)
        BY <1>1, <2>1, <3>2, MarkAheadSame
      <4> QED
        BY <1>1, <2>4, <3>1, <4>1
    <3>3. CASE newest < ao_flight_number /\ \E i \in Marks : marks'[i] = ao_flight_number
      <4>1. MarkAhead'
        BY <1>1, <3>3 DEF MarkAhead, Marked
      <4> QED
        BY <4>1 DEF Known
    <3> QED
      BY <2>3, <3>2, <3>3
  <2>8. \A size : MarkAhead' => Known(size)'
    BY DEF Known
  <2>9. NewestOK'
    BY <1>1, <1>4, <2>1, <2>2, <2>3, <2>6, <2>7, <2>8 DEF NewestOK
  <2> QED
    BY <1>1, <1>3, <2>5, <2>9
<1>7. CASE PutNext
  <2>1. console' = console /\ flash' = flash /\ put # "done"
    BY <1>7 DEF PutNext, consoleVars, storageVars, PutStep, PutErase, PutConfig,
      PutMark, PutClear
  <2>2. ~TooEarly /\ console \in {"save", "marked"} /\ newest < ao_flight_number
    BY <1>4, <2>1 DEF Busy
  <2>3. (\E i \in Marks : marks'[i] = ao_flight_number) => MarkAhead'
    BY <1>1, <2>2 DEF MarkAhead, Marked
  <2>4. \A size : MarkAhead' => Known(size)'
    BY DEF Known
  <2>5. put' # "erase" /\ (put' = "done" => MarkAhead') => NewestOK'
    BY <1>1, <2>1, <2>2, <2>4 DEF NewestOK
  <2>6. Busy'
    BY <1>1, <1>2, <2>1, <2>2 DEF Busy
  <2>7. CASE put = "erase"
    <3>1. /\ put' = "config"
          /\ \/ marks' = marks /\ board.memory # "flash"
             \/ board.memory = "flash" /\ marks' = [i \in Marks |-> NoMark]
      BY <1>7, <2>7 DEF PutNext, PutStep, PutErase, PutConfig, PutMark, PutClear
    <3>2. MarksOK'
      BY <1>1, <2>2, <2>7, <3>1 DEF MarksOK, MarksUp, Marked
    <3> QED
      BY <1>1, <1>3, <2>5, <2>6, <3>1, <3>2
  <2>8. CASE put = "config"
    <3>1. put' = "mark" /\ marks' = marks
      BY <1>1, <1>7, <2>8 DEF PutNext, PutStep, PutErase, PutConfig, PutMark, PutClear
    <3>2. MarksOK'
      BY <1>1, <2>2, <2>8, <3>1 DEF MarksOK, MarksUp, Marked
    <3> QED
      BY <1>1, <1>3, <2>5, <2>6, <3>1, <3>2
  <2>9. CASE put = "mark"
    <3>1. /\ marks' = [marks EXCEPT ![0] = ao_flight_number]
          /\ put' = IF board.memory = "eeprom" THEN "clear" ELSE "done"
      BY <1>7, <2>9 DEF PutNext, PutStep, PutErase, PutConfig, PutMark, PutClear,
        ao_log_write_erase
    <3>2. \A i \in Marks : marks'[i] = IF i = 0 THEN ao_flight_number ELSE marks[i]
      BY <1>1, <3>1
    <3>3. board.memory \in {"flash", "eeprom"}
      BY <1>1, Sized
    <3>4. put' = "done" => MarksUp'
      <4>1. put' = "done" => \A i \in Marks : marks[i] = NoMark
        BY <2>9, <3>1, <3>3 DEF MarksOK, Marked
      <4> QED
        BY <1>1, <3>2, <4>1 DEF MarksUp
    <3>5. \A i \in Marked' : marks'[i] <= ao_flight_number
      BY <1>1, <2>2, <3>2 DEF MarksOK, Marked
    <3>6. MarksOK'
      BY <1>1, <3>1, <3>2, <3>4, <3>5 DEF MarksOK
    <3>7. MarkAhead'
      BY <1>1, <2>3, <3>2
    <3> QED
      BY <1>1, <1>3, <2>5, <2>6, <3>1, <3>6, <3>7
  <2>10. CASE put = "clear"
    <3>1. marks[0] = ao_flight_number
      BY <2>10 DEF MarksOK
    <3>2. \/ put' = "done" /\ marks' = marks /\ Marked = {0}
          \/ /\ put' = "clear"
             /\ \E i \in Marked \ {0} : marks' = [marks EXCEPT ![i] = NoMark]
      BY <1>7, <2>10 DEF PutNext, PutStep, PutErase, PutConfig, PutMark, PutClear
    <3>3. marks'[0] = ao_flight_number
      BY <1>1, <3>1, <3>2
    <3>4. \A i \in Marked' : i \in Marked /\ marks'[i] = marks[i]
      BY <1>1, <3>2 DEF Marked
    <3>5. put' = "done" => MarksUp'
      BY <1>1, <3>2 DEF MarksUp, Marked
    <3>6. MarksOK'
      BY <1>1, <2>2, <3>2, <3>3, <3>4, <3>5 DEF MarksOK
    <3>7. MarkAhead'
      BY <1>1, <2>3, <3>3
    <3> QED
      BY <1>1, <1>3, <2>5, <2>6, <3>2, <3>6, <3>7
  <2> QED
    BY <1>7, <2>7, <2>8, <2>9, <2>10 DEF PutNext, PutStep, PutErase, PutConfig, PutMark,
      PutClear
<1> QED
  BY <1>5, <1>6, <1>7

LEMMA PowerGrowsOn ==
  ASSUME SlotsInv, NumbersOK, ~board.tracker, newest \in Numbers, GrowOK, ~forgot',
         PowerCycle
  PROVE  GrowOK' /\ newest' = newest
<1> USE DEF GrowOK, TooEarly
<1>1. /\ UNCHANGED <<board, saved, marks, newest>>
      /\ put' = "done" /\ console' = "none" /\ log' = "scan"
      /\ flight_log_max' = BootSize /\ put \in {"done", "erase"}
      /\ NumberTypeOK /\ LayoutTypeOK
  BY DEF PowerCycle, ao_config_get, BootSize, SlotsInv, NumbersOK
<1>2. /\ Marked' = Marked /\ MarksUp' = MarksUp /\ MarkAhead' = MarkAhead
      /\ BootSize' = BootSize /\ BootSize \in Sizes
  BY <1>1, MarkAheadSame, Sized DEF BootSize
<1>3. MarksOK' /\ Busy' /\ PlaceOK'
  BY <1>1, <1>2 DEF MarksOK, Busy, PlaceOK
<1>4. Known(BootSize)
  BY <1>1 DEF NewestOK
<1>5. PICK size \in Sizes : size = BootSize
  BY <1>2
<1>6. Known(size)'
  <2>1. CASE MarkAhead
    BY <1>2, <2>1 DEF Known
  <2>2. CASE flash' = flash
    BY <1>1, <1>4, <1>5, <2>2, MarkAheadSame
  <2>3. CASE Erasing /\ flash' \in HalfErased
    <3>1. MarkAhead
      BY <2>3 DEF SlotsInv, ErasesBack, NewestOK, MarkAhead
    <3> QED
      BY <2>1, <3>1
  <2>4. CASE flash' \in HalfWritten
    <3>1. /\ log \in {"flight", "sensor"} /\ ao_log_running
          /\ ao_log_current_pos < ao_log_end_pos
          /\ flash' = [flash EXCEPT ![ao_log_current_pos] = Torn]
      BY <2>4 DEF HalfWritten, SlotsInv, Boots
    <3>2. ~idle /\ size = flight_log_max
      BY <1>5, <3>1 DEF SlotsInv, Boots, Busy
    <3>3. \A t \in SlotsOf(size) : FlightAt(t, size) > 0 =>
            FlightAt(t, size)' = FlightAt(t, size)
      <4>1. \A p \in Positions : p # ao_log_current_pos => flash'[p] = flash[p]
        BY <1>1, <3>1 DEF LayoutTypeOK
      <4> SUFFICES ASSUME NEW t \in SlotsOf(size), FlightAt(t, size) > 0
                   PROVE  flash'[t * size * PerBlock] = flash[t * size * PerBlock]
        BY DEF FlightAt
      <4>2. t * size * PerBlock \in Positions
        BY <1>1, FlightAtType
      <4>3. t * size * PerBlock # ao_log_current_pos
        BY <1>1, <3>1, <3>2, WritesNoStart DEF Slots
      <4> QED
        BY <4>1, <4>2, <4>3
    <3> QED
      BY <1>1, <1>4, <1>5, <3>3, KnownStays
  <2> QED
    BY <2>2, <2>3, <2>4 DEF PowerCycle
<1>7. Known(flight_log_max)' /\ Known(BootSize)'
  BY <1>1, <1>2, <1>5, <1>6
<1> QED
  BY <1>1, <1>3, <1>7 DEF NewestOK

GrowInv ==
  newest \in Numbers /\ (forgot \/ IF board.tracker THEN TrackGrow ELSE GrowOK)

LEMMA GrowInitInv == Init => GrowInv
<1> SUFFICES ASSUME Init PROVE GrowInv
  OBVIOUS
<1> USE DEF Init, LogInit, StorageInit, ConfigInit
<1>1. /\ newest = 0 /\ newest \in Numbers /\ MaxNumber \in Nat \ {0} /\ 1 \in Numbers
      /\ Marked = {}
  BY ConfigAssumption DEF Numbers, Marked, Marks
<1>2. MarkIs(1) /\ MarksFill /\ MarksUp /\ MarkAhead /\ \A size : Known(size)
  BY <1>1 DEF MarkIs, MarksFill, MarksUp, MarkAhead, Known, Marks
<1>3. board.tracker => flash[0].type # "flight"
  <2>1. LayoutTypeOK
    BY ConfigAssumption DEF LayoutTypeOK, NotErasing
  <2> QED
    BY <2>1, Memory DEF Erased
<1> QED
  BY <1>1, <1>2, <1>3 DEF GrowInv, TrackGrow, GrowOK, MarksOK, Busy, NewestOK, PlaceOK,
    TooEarly, Headed, BootSize

LEMMA ForgotStays == ASSUME Next, forgot PROVE forgot'
<1>1. CASE TrackerNext
  BY <1>1 DEF TrackerNext, TrackerTaskStep, ScanFlights, TrackerScan, TrackerLoop,
    TrackerLock, TrackerFirst, TrackerData, TrackerConsoleStep, Look, Looked, LookDelete,
    ao_tracker_erase_start, ao_tracker_erase_end, TrackerZapAll, ZapAll, DeleteMark,
    DeleteErase, EraseStep, Save, Saved, PutNext, EraseDone, TrackerPowerCycle,
    PowerCycle, ghostVars
<1>2. CASE LogNext
  BY <1>2 DEF LogNext, LogTaskStep, ScanFlights, ScanMarks, ScanPlace, ao_log_start,
    WriteFlight, WriteSensor, Landed, ConsoleStep, Delete, DeleteMark, DeleteErase,
    EraseStep, EraseDone, ZapAll, Save, Saved, PutNext, SetLogSize, PowerCycle,
    ghostVars
<1> QED
  BY <1>1, <1>2 DEF Next

(* The newest number is a number.                                          *)
LEMMA NewestKept ==
  ASSUME Next, newest \in Numbers, ao_flight_number \in Numbers
  PROVE  newest' \in Numbers /\ (newest' \in {newest, 0} \/ forgot' = forgot)
<1>1. newest' \in {newest, 0} \/ (newest' = ao_flight_number /\ forgot' = forgot)
  <2>1. CASE TrackerNext
    BY <2>1 DEF TrackerNext, TrackerTaskStep, ScanFlights, TrackerScan, TrackerLoop,
      TrackerLock, TrackerFirst, TrackerData, TrackerConsoleStep, Look, Looked, LookDelete,
      ao_tracker_erase_start, ao_tracker_erase_end, TrackerZapAll, ZapAll, DeleteMark,
      DeleteErase, EraseStep, Save, Saved, PutNext, EraseDone, TrackerPowerCycle,
      PowerCycle, ghostVars
  <2>2. CASE LogNext
    BY <2>2 DEF LogNext, LogTaskStep, ScanFlights, ScanMarks, ScanPlace, ao_log_start,
      WriteFlight, WriteSensor, Landed, ConsoleStep, Delete, DeleteMark, DeleteErase,
      EraseStep, EraseDone, ZapAll, Save, Saved, PutNext, SetLogSize, PowerCycle,
      ghostVars
  <2> QED
    BY <2>1, <2>2 DEF Next
<1> QED
  BY <1>1, ConfigAssumption DEF Numbers

LEMMA GrowStep ==
  ASSUME LogInv, NumbersInv, TrackerInv, GrowInv, Next
  PROVE  /\ GrowInv'
         /\ newest' # newest /\ newest' # 0 /\ ~forgot => newest' > newest
<1>1. board' = board
  BY BoardKept
<1>2. newest \in Numbers /\ ao_flight_number \in Numbers
  BY DEF GrowInv, NumbersInv, NumbersOK, TrackerInv, TrackTypes, TrackNumbers, NumberTypeOK
<1>3. newest' \in Numbers /\ (newest' \in {newest, 0} \/ forgot' = forgot)
  BY <1>2, NewestKept
<1> SUFFICES ASSUME ~forgot'
             PROVE  /\ IF board.tracker THEN TrackGrow' ELSE GrowOK'
                    /\ newest' # newest /\ newest' # 0 => newest' > newest
  BY <1>1, <1>3 DEF GrowInv
<1>4. ~forgot
  BY ForgotStays
<1>5. CASE board.tracker
  BY <1>2, <1>4, <1>5, TrackGrows DEF Next, TrackerInv, GrowInv
<1>6. CASE ~board.tracker
  <2>1. SlotsInv /\ NumbersOK /\ GrowOK /\ LogNext
    BY <1>4, <1>6 DEF LogInv, SlotsInv, NumbersInv, GrowInv, Next
  <2> QED
    BY <1>2, <1>6, <2>1, ScanGrowsOn, WriteGrowsOn, CommandGrowsOn, MarkGrowsOn,
      PowerGrowsOn DEF LogNext, LogTaskStep, ConsoleStep
<1> QED
  BY <1>5, <1>6

LEMMA GrowSame == GrowInv /\ UNCHANGED allVars => GrowInv'
<1> SUFFICES ASSUME GrowInv, UNCHANGED allVars PROVE GrowInv'
  OBVIOUS
<1>1. UNCHANGED <<board, flash, saved, marks, flight_log_max, put, ao_flight_number, log,
                  ao_log_running, ao_log_current_pos, ao_log_end_pos, idle, console,
                  newest, forgot, log_started, erasing_current>>
  BY DEF allVars, logVars, storageVars, configVars, taskVars, consoleVars, ghostVars,
    trackerVars
<1>2. /\ Marked' = Marked /\ MarksUp' = MarksUp /\ MarkAhead' = MarkAhead
      /\ \A size : Known(size)' = Known(size)
      /\ MarksFill' = MarksFill /\ \A m : MarkIs(m)' = MarkIs(m)
      /\ BootSize' = BootSize /\ Starts' = Starts /\ Headed' = Headed
  BY <1>1, MarksSame, MarkAheadSame
  DEF BootSize, Starts, Slots, SlotsOf, Blocks, ao_log_pos, Headed
<1>3. MarkIs(ao_flight_number)' = MarkIs(ao_flight_number)
  BY <1>1, <1>2
<1>4. TrackGrow => TrackGrow'
  BY <1>1, <1>2, <1>3 DEF TrackGrow, TooEarly
<1>5. GrowOK => GrowOK'
  BY <1>1, <1>2 DEF GrowOK, MarksOK, Busy, NewestOK, PlaceOK, TooEarly
<1> QED
  BY <1>1, <1>4, <1>5 DEF GrowInv

(* A flight, or the log of a tracker, gets a number above all before it,   *)
(* the erased ones too (ao_log_scan, ao_log_erase_mark): the marks outlive  *)
(* the logs, as long as their save is not cut short.                       *)
THEOREM NumbersRise == Spec => NumbersGrow
<1>1. /\ LogInv /\ NumbersInv /\ TrackerInv /\ GrowInv /\ [Next]_allVars => GrowInv'
      /\ LogInv /\ NumbersInv /\ TrackerInv /\ GrowInv /\ [Next]_allVars =>
           [newest' # newest /\ newest' # 0 /\ ~forgot => newest' > newest]_logVars
  <2> SUFFICES ASSUME LogInv, NumbersInv, TrackerInv, GrowInv, [Next]_allVars
               PROVE  /\ GrowInv'
                      /\ [newest' # newest /\ newest' # 0 /\ ~forgot =>
                            newest' > newest]_logVars
    OBVIOUS
  <2>1. CASE Next
    <3>1. GrowInv' /\ (newest' # newest /\ newest' # 0 /\ ~forgot => newest' > newest)
      BY <2>1, GrowStep
    <3> QED
      BY <3>1
  <2>2. CASE UNCHANGED allVars
    BY <2>2, GrowSame DEF allVars, logVars, ghostVars
  <2> QED
    BY <2>1, <2>2
<1> QED
  BY <1>1, LogsInv, TrackersInv, NumbersInitInv, NumbersNextInv, GrowInitInv, PTL
  DEF Spec, NumbersGrow
=============================================================================
