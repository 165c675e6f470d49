------------------------------ MODULE AltosBlocks ------------------------------
(***************************************************************************)
(* What a cache of the sectors of a card promises to the file system above *)
(* it: a sector has the value last given to it.  Which of the values of a  *)
(* sector since the last flush is on the card is open until the power      *)
(* fails.                                                                  *)
(***************************************************************************)
CONSTANTS
  Sectors,
  Values      \* what a sector may hold

VARIABLES
  mem,        \* the value of each sector
  may,        \* the values the card may have of it
  failed      \* the sectors that the card has refused to write

blocksVars == <<mem, may, failed>>

BlocksInit ==
  /\ mem \in [Sectors -> Values] /\ may = [s \in Sectors |-> {mem[s]}]
  /\ failed = {}

Change(s, v) ==
  /\ mem' = [mem EXCEPT ![s] = v]
  /\ may' = [may EXCEPT ![s] = @ \union {v}]
  /\ UNCHANGED failed

(* The card refuses a value, which is lost when the cache needs its place. *)
Refuse(s) ==
  /\ failed' = failed \union {s}
  /\ UNCHANGED <<mem, may>>

Forget(s) ==
  /\ s \in failed
  /\ \E v \in may[s] : mem' = [mem EXCEPT ![s] = v]
  /\ UNCHANGED <<may, failed>>

Flush ==
  /\ may' = [s \in Sectors |-> IF s \in failed THEN may[s] ELSE {mem[s]}]
  /\ UNCHANGED <<mem, failed>>

PowerFails ==
  /\ \A s \in Sectors : mem'[s] \in may[s]
  /\ may' = [s \in Sectors |-> {mem'[s]}]
  /\ failed' = {}

BlocksNext ==
  \/ \E s \in Sectors : \/ \E v \in Values : Change(s, v)
                        \/ Refuse(s) \/ Forget(s)
  \/ Flush \/ PowerFails

BlocksSpec == BlocksInit /\ [][BlocksNext]_blocksVars
=============================================================================
