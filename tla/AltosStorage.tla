------------------------------ MODULE AltosStorage ------------------------------
(***************************************************************************)
(* The flash memory of a board and its erase by blocks:                    *)
(* kernel/ao_storage.c.  A position holds one record of the log.  Writing  *)
(* only clears bits, so that a record written over another leaves neither; *)
(* an erase that the power interrupts leaves its block in any state.       *)
(***************************************************************************)
EXTENDS Integers, FiniteSets

CONSTANTS
  Boards,    \* the boards: [blocks : the blocks up to ao_storage_log_max,
             \* log : the default size of a log in blocks, memory : where the
             \* configuration is, tracker : whether it is a tracker]
  PerBlock,  \* the records that fit in a block, which is erased as a whole
  Records    \* what a task may write

ASSUME StorageAssumption ==
  /\ PerBlock \in Nat \ {0}
  /\ \A b \in Boards :
       /\ b.blocks \in Nat \ {0} /\ b.log \in 1 .. b.blocks
       /\ b.memory \in {"flash", "eeprom"}
       /\ b.tracker \in BOOLEAN
       /\ b.tracker => b.log = b.blocks

VARIABLES
  board,     \* the board this is
  flash,     \* the content of each position
  erasing    \* the call of ao_storage_erase in progress: the block it has come
             \* to and the one it ends with

storageVars == <<board, flash, erasing>>

Blocks == board.blocks
Positions == 0 .. Blocks * PerBlock - 1
Block(b) == b * PerBlock .. (b + 1) * PerBlock - 1

Erased == [type |-> "erased", flight |-> 0]
Torn == [type |-> "torn", flight |-> 0]
Contents == Records \cup {Erased, Torn}

NotErasing == [at |-> 0, first |-> 1]
Erasing == erasing.at >= erasing.first

StorageTypeOK ==
  /\ board \in Boards
  /\ flash \in [Positions -> Contents]
  /\ erasing \in [at : 0 .. Blocks - 1, first : 0 .. Blocks]

StorageInit ==
  /\ board \in Boards
  /\ flash = [p \in Positions |-> Erased]
  /\ erasing = NotErasing

ao_storage_is_erased(b) == \A p \in Block(b) : flash[p] = Erased

(* Writing over what is not erased leaves a mixture of the two.            *)
ao_storage_write(p, record) ==
  flash' = [flash EXCEPT ![p] = IF @ = Erased THEN record ELSE Torn]

(* The blocks from first on are erased from the last one back.             *)
ao_storage_erase(first, blocks) ==
  erasing' = [at |-> first + blocks - 1, first |-> first]

ao_storage_device_erase(b) ==
  flash' = [p \in Positions |-> IF p \in Block(b) THEN Erased ELSE flash[p]]

(* A mistake: the blocks are erased from the first one on.                 *)
EraseForwards ==
  /\ Erasing
  /\ ao_storage_device_erase(erasing.first)
  /\ erasing' = IF erasing.at = erasing.first THEN NotErasing
                ELSE [erasing EXCEPT !.first = @ + 1]

(* One block, unless it is erased already.                                 *)
EraseBlock ==
  /\ Erasing
  /\ IF ao_storage_is_erased(erasing.at)
     THEN flash' = flash
     ELSE ao_storage_device_erase(erasing.at)
  /\ erasing' = IF erasing.at = erasing.first THEN NotErasing
                ELSE [erasing EXCEPT !.at = @ - 1]

(* A block that is not erased after MAX_TRIES ends the call.               *)
EraseFails ==
  /\ Erasing
  /\ ~ao_storage_is_erased(erasing.at)
  /\ erasing' = NotErasing
  /\ flash' = flash

(* What an erase cut short by the power may leave of its block.            *)
HalfErased ==
  {[p \in Positions |-> IF p \notin Block(erasing.at) \/ flash[p] = Erased
                        THEN flash[p] ELSE left[p]] :
     left \in [Block(erasing.at) -> {Erased, Torn}]}
=============================================================================
