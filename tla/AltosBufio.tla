------------------------------ MODULE AltosBufio ------------------------------
(***************************************************************************)
(* The cache of sectors of an SD card, drivers/ao_bufio.c.  Its lock is    *)
(* held through each call, of which the reads and writes of the card, in   *)
(* which the task sleeps, are steps of their own.  A caller changes a      *)
(* buffer between ao_bufio_get and ao_bufio_put, and no flush begins       *)
(* meanwhile: it holds the lock of the file system.                        *)
(***************************************************************************)
EXTENDS Naturals

CONSTANTS
  Sectors,      \* the blocks of the card
  Values,       \* what a block may hold
  NumBuf,       \* AO_NUM_BUF
  Callers,        \* the tasks that call
  NoSector,     \* the block of a buffer that holds none, 0xffffffff
  NoBuffer      \* what a task holds that holds no buffer

Buffers == 0 .. NumBuf - 1

ASSUME BufioAssumption ==
  /\ NumBuf \in Nat \ {0}
  /\ NoSector \notin Sectors /\ NoBuffer \notin Buffers

VARIABLES
  card,         \* the content of the card
  block,        \* the block of each buffer
  dirty,        \* the buffers to be written
  ao_buffer,    \* the content of each buffer
  holds,        \* the buffer that each task has got
  changed,      \* the tasks that have changed it
  call,         \* the call that has the lock: where it is, the task, its
                \* buffer, and the block it wants or the buffer it ends before
  refused,      \* ghost: the blocks that the card has refused to write since
                \* the boot
  since         \* ghost: what each block has held since the last flush

bufioVars == <<card, block, dirty, ao_buffer, holds, changed, call, refused,
               since>>

NoCall == [at |-> "none"]
Unlocked == call.at = "none"

BufioInit ==
  /\ card \in [Sectors -> Values]
  /\ block = [b \in Buffers |-> NoSector] /\ dirty = {}
  /\ ao_buffer \in [Buffers -> Values]
  /\ holds = [u \in Callers |-> NoBuffer] /\ changed = {}
  /\ call = NoCall /\ refused = {} /\ since = [s \in Sectors |-> {card[s]}]

(* busy counts the tasks that hold the buffer.                             *)
Busy(b) == \E u \in Callers : holds[u] = b

(* ao_bufio_find_block, ao_bufio_find_idle.  The age of a buffer has 16    *)
(* bits and wraps, so that any idle buffer may seem the oldest.            *)
Found(s) == {b \in Buffers : block[b] = s}
Idle == {b \in Buffers : ~Busy(b)}

(* The value of a sector is that of the buffer that has it, unless it is   *)
(* only being read.                                                        *)
Has(b, s) == block[b] = s /\ ~(call.at = "fill" /\ call.buffer = b)

Content ==
  [s \in Sectors |-> IF \E b \in Buffers : Has(b, s)
                       THEN ao_buffer[CHOOSE b \in Buffers : Has(b, s)]
                       ELSE card[s]]

(* A mistake: a dirty buffer is used for another block without a write.    *)
DropDirty(b) ==
  /\ b \in dirty /\ dirty' = dirty \ {b}
  /\ UNCHANGED <<card, refused>>

(* ao_bufio_write, of a dirty buffer.  The buffer is clean afterwards even *)
(* if the card has refused it.                                             *)
ao_bufio_write(b) ==
  /\ b \in dirty /\ dirty' = dirty \ {b}
  /\ \/ card' = [card EXCEPT ![block[b]] = ao_buffer[b]] /\ UNCHANGED refused
     \/ refused' = refused \union {block[b]} /\ UNCHANGED card

-----------------------------------------------------------------------------
(* ao_bufio_get.                                                           *)
GetHit(u, s) ==
  /\ Unlocked /\ holds[u] = NoBuffer
  /\ \E b \in Found(s) : holds' = [holds EXCEPT ![u] = b]
  /\ UNCHANGED <<card, block, dirty, ao_buffer, changed, call, refused, since>>

GetMiss(u, s) ==
  /\ Unlocked /\ holds[u] = NoBuffer /\ Found(s) = {}
  /\ \E b \in Idle :
       call' = [at |-> "evict", user |-> u, buffer |-> b, block |-> s]
  /\ UNCHANGED <<card, block, dirty, ao_buffer, holds, changed, refused, since>>

EvictWrites ==
  /\ call.at = "evict" /\ ao_bufio_write(call.buffer)
  /\ UNCHANGED <<block, ao_buffer, holds, changed, call, since>>

Evicted ==
  /\ call.at = "evict" /\ call.buffer \notin dirty
  /\ block' = [block EXCEPT ![call.buffer] = call.block]
  /\ call' = [call EXCEPT !.at = "fill"]
  /\ UNCHANGED <<card, dirty, ao_buffer, holds, changed, refused, since>>

Filled ==
  /\ call.at = "fill"
  /\ ao_buffer' = [ao_buffer EXCEPT ![call.buffer] = card[call.block]]
  /\ holds' = [holds EXCEPT ![call.user] = call.buffer]
  /\ call' = NoCall
  /\ UNCHANGED <<card, block, dirty, changed, refused, since>>

(* The card cannot be read: what has come is forgotten.                    *)
FillFails ==
  /\ call.at = "fill"
  /\ \E v \in Values : ao_buffer' = [ao_buffer EXCEPT ![call.buffer] = v]
  /\ block' = [block EXCEPT ![call.buffer] = NoSector]
  /\ call' = NoCall
  /\ UNCHANGED <<card, dirty, holds, changed, refused, since>>

(* The caller changes the content of the buffer.                           *)
Write(u, v) ==
  /\ Unlocked /\ holds[u] # NoBuffer
  /\ ao_buffer' = [ao_buffer EXCEPT ![holds[u]] = v]
  /\ changed' = changed \union {u}
  /\ since' = [since EXCEPT ![block[holds[u]]] = @ \union {v}]
  /\ UNCHANGED <<card, block, dirty, holds, call, refused>>

ao_bufio_put(u) ==
  /\ Unlocked /\ holds[u] # NoBuffer
  /\ dirty' = IF u \in changed THEN dirty \union {holds[u]} ELSE dirty
  /\ holds' = [holds EXCEPT ![u] = NoBuffer]
  /\ changed' = changed \ {u}
  /\ UNCHANGED <<card, block, ao_buffer, call, refused, since>>

(* ao_bufio_flush, and ao_bufio_flush_one, which nothing calls.            *)
FlushFromTo(first, end) ==
  /\ Unlocked /\ changed = {}
  /\ call' = [at |-> "flush", next |-> first, end |-> end,
              all |-> (first = 0 /\ end = NumBuf)]
  /\ UNCHANGED <<card, block, dirty, ao_buffer, holds, changed, refused, since>>

ao_bufio_flush == FlushFromTo(0, NumBuf)
ao_bufio_flush_one(u) ==
  holds[u] # NoBuffer /\ FlushFromTo(holds[u], holds[u] + 1)

FlushWrites ==
  /\ call.at = "flush" /\ call.next < call.end /\ ao_bufio_write(call.next)
  /\ UNCHANGED <<block, ao_buffer, holds, changed, call, since>>

FlushGoesOn ==
  /\ call.at = "flush" /\ call.next < call.end /\ call.next \notin dirty
  /\ call' = [call EXCEPT !.next = @ + 1]
  /\ UNCHANGED <<card, block, dirty, ao_buffer, holds, changed, refused, since>>

FlushDone ==
  /\ call.at = "flush" /\ call.next = call.end
  /\ call' = NoCall
  /\ since' = [s \in Sectors |-> IF s \in refused \/ ~call.all THEN since[s]
                                ELSE {Content[s]}]
  /\ UNCHANGED <<card, block, dirty, ao_buffer, holds, changed, refused>>

(* The power fails and comes back: ao_bufio_setup.                         *)
BufioReboot ==
  /\ block' = [b \in Buffers |-> NoSector] /\ dirty' = {}
  /\ holds' = [u \in Callers |-> NoBuffer] /\ changed' = {}
  /\ call' = NoCall
  /\ refused' = {} /\ since' = [s \in Sectors |-> {card[s]}]
  /\ UNCHANGED <<card, ao_buffer>>

CallerStep(u) ==
  \/ \E s \in Sectors : GetHit(u, s) \/ GetMiss(u, s)
  \/ \E v \in Values : Write(u, v)
  \/ ao_bufio_put(u) \/ ao_bufio_flush_one(u)

CallStep ==
  EvictWrites \/ Evicted \/ Filled \/ FillFails \/ FlushWrites \/ FlushGoesOn
  \/ FlushDone

BufioNext ==
  \/ \E u \in Callers : CallerStep(u)
  \/ ao_bufio_flush \/ CallStep \/ BufioReboot

BufioSpec == BufioInit /\ [][BufioNext]_bufioVars

-----------------------------------------------------------------------------
(* The cache as what it promises.                                          *)
Cache == INSTANCE AltosBlocks
  WITH mem <- Content, may <- since, failed <- refused

(* Whatever the order of evictions and writes, the failed ones too, a task *)
(* gets from a buffer what was last put for its block, and a flush leaves  *)
(* nothing that is not on the card, unless the card refused it.            *)
ImplementsBlocks == Cache!BlocksSpec
=============================================================================
