--------------------------- MODULE AltosBufioProofs ---------------------------
(***************************************************************************)
(* The cache of sectors implements the abstract blocks, for every number   *)
(* of sectors, values, buffers and callers.                                *)
(***************************************************************************)
EXTENDS AltosBufio, TLAPS

Evicting == call.at = "evict"
Filling == call.at = "fill"
Flushing == call.at = "flush"

BufioTypeOK ==
  /\ card \in [Sectors -> Values]
  /\ block \in [Buffers -> Sectors \union {NoSector}]
  /\ dirty \subseteq Buffers
  /\ ao_buffer \in [Buffers -> Values]
  /\ holds \in [Callers -> Buffers \union {NoBuffer}]
  /\ changed \subseteq Callers
  /\ \/ call = NoCall
     \/ call \in [at : {"evict", "fill"}, user : Callers, buffer : Buffers,
                  block : Sectors]
     \/ call \in [at : {"flush"}, next : 0 .. NumBuf, end : 0 .. NumBuf,
                  all : BOOLEAN]
  /\ refused \subseteq Sectors
  /\ since \in [Sectors -> SUBSET Values]

(* No two buffers have the same block.                                     *)
OneBuffer ==
  \A a, b \in Buffers : block[a] = block[b] /\ a # b => block[a] = NoSector

(* The buffer of a get is nobody's, and its block is no other buffer's.  A *)
(* flush of all buffers has left none dirty behind it.                     *)
CallApart ==
  /\ Evicting \/ Filling =>
       holds[call.user] = NoBuffer /\ \A u \in Callers : holds[u] # call.buffer
  /\ Evicting => \A b \in Buffers : block[b] # call.block
  /\ Filling => block[call.buffer] = call.block /\ call.buffer \notin dirty
  /\ Flushing =>
       /\ changed = {} /\ call.next <= call.end
       /\ call.all => call.end = NumBuf /\ \A b \in dirty : call.next <= b

(* A buffer that is dirty or held has a block.                             *)
UsedHasBlock ==
  /\ \A b \in dirty : block[b] # NoSector
  /\ \A u \in Callers : holds[u] # NoBuffer => block[holds[u]] # NoSector
  /\ \A u \in changed : holds[u] # NoBuffer

(* What a clean buffer has is on the card, unless the card refused it.     *)
CleanIsCard ==
  \A b \in Buffers, s \in Sectors :
    Has(b, s) /\ b \notin dirty /\ (\A u \in changed : holds[u] # b)
      => ao_buffer[b] = card[s] \/ s \in refused

(* since has each value of a block that is anywhere.                       *)
MayBe ==
  \A s \in Sectors :
    card[s] \in since[s] /\ \A b \in Buffers : Has(b, s) => ao_buffer[b] \in since[s]

BufInv ==
  BufioTypeOK /\ OneBuffer /\ CallApart /\ UsedHasBlock /\ CleanIsCard /\ MayBe

-----------------------------------------------------------------------------
(* The value of a sector, by the one buffer that has it or by the card.    *)
LEMMA ContentIs ==
  ASSUME BufioTypeOK, OneBuffer, NEW s \in Sectors
  PROVE  /\ \A b \in Buffers : Has(b, s) => Content[s] = ao_buffer[b]
         /\ (\A b \in Buffers : ~Has(b, s)) => Content[s] = card[s]
BY BufioAssumption DEF Content, Has, OneBuffer

LEMMA ContentIsNext ==
  ASSUME BufioTypeOK', OneBuffer', NEW s \in Sectors
  PROVE  /\ \A b \in Buffers : Has(b, s)' => Content'[s] = ao_buffer'[b]
         /\ (\A b \in Buffers : ~Has(b, s)') => Content'[s] = card'[s]
BY BufioAssumption DEF Content, Has, OneBuffer

(* The value of every sector but s is as it was, where the buffers that    *)
(* have it and what they hold are.                                         *)
LEMMA ContentSame ==
  ASSUME BufioTypeOK, OneBuffer, BufioTypeOK', OneBuffer', NEW s \in Sectors,
         \A b \in Buffers : Has(b, s)' <=> Has(b, s),
         \A b \in Buffers : Has(b, s) => ao_buffer'[b] = ao_buffer[b],
         (\A b \in Buffers : ~Has(b, s)) => card'[s] = card[s]
  PROVE  Content'[s] = Content[s]
BY ContentIs, ContentIsNext

LEMMA ContentFunction ==
  /\ Content = [s \in Sectors |-> Content[s]]
  /\ Content' = [s \in Sectors |-> Content'[s]]
BY DEF Content

(* After a flush of all buffers, the card has what was not refused.        *)
LEMMA FlushedIsCard ==
  ASSUME BufInv, Flushing, call.next = call.end, call.all,
         NEW s \in Sectors, s \notin refused
  PROVE  Content[s] = card[s]
<1>1. dirty = {} /\ changed = {}
  BY BufioAssumption
     DEF BufInv, BufioTypeOK, CallApart, Flushing, Buffers
<1>2. \A b \in Buffers : Has(b, s) => ao_buffer[b] = card[s]
  BY <1>1 DEF BufInv, CleanIsCard
<1> QED
  BY <1>2, ContentIs DEF BufInv

-----------------------------------------------------------------------------
(* The buffers after ao_bufio_setup are as the invariant asks.             *)
THEOREM BufioInitInv == BufioInit => BufInv
BY BufioAssumption
   DEF BufioInit, BufInv, BufioTypeOK, OneBuffer, CallApart, UsedHasBlock,
       CleanIsCard, MayBe, Has, NoCall, Evicting, Filling, Flushing

(* A write of a dirty buffer of the call.                                  *)
LEMMA WriteInv ==
  ASSUME BufInv, NEW b \in Buffers, ao_bufio_write(b),
         UNCHANGED <<block, ao_buffer, holds, changed, call, since>>,
         ~Filling
  PROVE  BufInv'
<1> USE BufioAssumption DEF ao_bufio_write, Evicting, Filling, Flushing
<1>1. block[b] \in Sectors /\ Has(b, block[b])
  BY DEF BufInv, BufioTypeOK, UsedHasBlock, Has
<1>2. BufioTypeOK'
  BY <1>1 DEF BufInv, BufioTypeOK
<1>3. OneBuffer' /\ CallApart' /\ UsedHasBlock'
  BY DEF BufInv, BufioTypeOK, OneBuffer, CallApart, UsedHasBlock
<1>4. CleanIsCard'
  BY <1>1 DEF BufInv, BufioTypeOK, CleanIsCard, OneBuffer, Has
<1>5. MayBe'
  BY <1>1 DEF BufInv, BufioTypeOK, MayBe, Has
<1> QED
  BY <1>2, <1>3, <1>4, <1>5 DEF BufInv

(* No step breaks BufInv.                                                  *)
THEOREM BufioNextInv == BufInv /\ [BufioNext]_bufioVars => BufInv'
<1> SUFFICES ASSUME BufInv, [BufioNext]_bufioVars PROVE BufInv'
  OBVIOUS
<1> USE BufioAssumption DEF Unlocked, NoCall, Evicting, Filling, Flushing
<1>1. ASSUME NEW u \in Callers, NEW s \in Sectors, GetHit(u, s) PROVE BufInv'
  BY <1>1 DEF GetHit, Found, BufInv, BufioTypeOK, OneBuffer, CallApart,
              UsedHasBlock, CleanIsCard, MayBe, Has
<1>2. ASSUME NEW u \in Callers, NEW s \in Sectors, GetMiss(u, s) PROVE BufInv'
  BY <1>2 DEF GetMiss, Found, Idle, Busy, BufInv, BufioTypeOK, OneBuffer,
              CallApart, UsedHasBlock, CleanIsCard, MayBe, Has
<1>3. ASSUME NEW u \in Callers, NEW v \in Values, Write(u, v) PROVE BufInv'
  <2>1. holds[u] \in Buffers /\ block[holds[u]] \in Sectors
    BY <1>3 DEF Write, BufInv, BufioTypeOK, UsedHasBlock
  <2>2. BufioTypeOK' /\ OneBuffer' /\ CallApart' /\ UsedHasBlock'
    BY <1>3, <2>1 DEF Write, BufInv, BufioTypeOK, OneBuffer, CallApart,
                      UsedHasBlock
  <2>3. CleanIsCard'
    BY <1>3, <2>1 DEF Write, BufInv, BufioTypeOK, CleanIsCard, Has
  <2>4. MayBe'
    BY <1>3, <2>1 DEF Write, BufInv, BufioTypeOK, MayBe, Has
  <2> QED
    BY <2>2, <2>3, <2>4 DEF BufInv
<1>4. ASSUME NEW u \in Callers, ao_bufio_put(u) PROVE BufInv'
  BY <1>4 DEF ao_bufio_put, BufInv, BufioTypeOK, OneBuffer, CallApart,
              UsedHasBlock, CleanIsCard, MayBe, Has
<1>5. ASSUME NEW first \in 0 .. NumBuf, NEW end \in 0 .. NumBuf, first <= end,
             FlushFromTo(first, end)
      PROVE  BufInv'
  <2>1. BufioTypeOK'
    BY <1>5 DEF FlushFromTo, BufInv, BufioTypeOK
  <2>2. CallApart'
    <3>1. /\ call'.at = "flush" /\ call'.next = first /\ call'.end = end
          /\ call'.all => first = 0 /\ end = NumBuf
      BY <1>5 DEF FlushFromTo
    <3>2. changed' = {} /\ dirty' = dirty /\ \A b \in dirty : b \in Nat
      BY <1>5 DEF FlushFromTo, BufInv, BufioTypeOK, Buffers
    <3> QED
      BY <1>5, <3>1, <3>2 DEF CallApart
  <2>3. (OneBuffer /\ UsedHasBlock /\ CleanIsCard /\ MayBe)'
    BY <1>5 DEF FlushFromTo, BufInv, OneBuffer, UsedHasBlock, CleanIsCard,
                MayBe, Has
  <2> QED
    BY <2>1, <2>2, <2>3 DEF BufInv
<1>6. CASE EvictWrites
  BY <1>6, WriteInv DEF EvictWrites, BufInv, BufioTypeOK
<1>7. CASE FlushWrites
  <2>1. call.next \in Buffers
    BY <1>7 DEF FlushWrites, BufInv, BufioTypeOK, Buffers
  <2> QED
    BY <1>7, <2>1, WriteInv DEF FlushWrites
<1>8. CASE Evicted
  BY <1>8 DEF Evicted, BufInv, BufioTypeOK, OneBuffer, CallApart,
              UsedHasBlock, CleanIsCard, MayBe, Has
<1>9. CASE Filled
  BY <1>9 DEF Filled, BufInv, BufioTypeOK, OneBuffer, CallApart,
              UsedHasBlock, CleanIsCard, MayBe, Has
<1>10. CASE FillFails
  BY <1>10 DEF FillFails, BufInv, BufioTypeOK, OneBuffer, CallApart,
               UsedHasBlock, CleanIsCard, MayBe, Has
<1>11. CASE FlushGoesOn
  <2>1. /\ call.next \in 0 .. NumBuf /\ call.end \in 0 .. NumBuf
        /\ call.all \in BOOLEAN
        /\ call' = [at |-> "flush", next |-> call.next + 1, end |-> call.end,
                    all |-> call.all]
    BY <1>11 DEF FlushGoesOn, BufInv, BufioTypeOK
  <2>2. BufioTypeOK'
    <3>1. call.next + 1 \in 0 .. NumBuf
      BY <1>11, <2>1 DEF FlushGoesOn
    <3>2. call' \in [at : {"flush"}, next : 0 .. NumBuf, end : 0 .. NumBuf,
                     all : BOOLEAN]
      BY <2>1, <3>1
    <3> QED
      BY <1>11, <3>2 DEF FlushGoesOn, BufInv, BufioTypeOK
  <2>3. CallApart'
    BY <1>11, <2>1 DEF FlushGoesOn, Buffers, BufInv, BufioTypeOK, CallApart
  <2>4. (OneBuffer /\ UsedHasBlock /\ CleanIsCard /\ MayBe)'
    BY <1>11, <2>1 DEF FlushGoesOn, BufInv, OneBuffer, UsedHasBlock,
                       CleanIsCard, MayBe, Has
  <2> QED
    BY <2>2, <2>3, <2>4 DEF BufInv
<1>12. CASE FlushDone
  <2>1. Content \in [Sectors -> Values]
    BY ContentIs DEF BufInv, BufioTypeOK, Content
  <2>2. BufioTypeOK'
    BY <1>12, <2>1 DEF FlushDone, BufInv, BufioTypeOK
  <2>3. (OneBuffer /\ CallApart /\ UsedHasBlock /\ CleanIsCard)'
    BY <1>12 DEF FlushDone, BufInv, OneBuffer, CallApart, UsedHasBlock,
                 CleanIsCard, Has
  <2>4. ASSUME NEW s \in Sectors
        PROVE  card[s] \in since'[s]
               /\ \A b \in Buffers : Has(b, s) => ao_buffer[b] \in since'[s]
    <3>1. CASE s \in refused \/ ~call.all
      BY <1>12, <3>1 DEF FlushDone, BufInv, MayBe
    <3>2. CASE s \notin refused /\ call.all
      <4>1. since'[s] = {Content[s]}
        BY <1>12, <3>2 DEF FlushDone
      <4> QED
        BY <4>1, FlushedIsCard, <1>12, <3>2, ContentIs DEF FlushDone, BufInv
    <3> QED
      BY <3>1, <3>2
  <2>5. MayBe'
    BY <1>12, <2>4 DEF FlushDone, MayBe, Has
  <2> QED
    BY <2>2, <2>3, <2>5 DEF BufInv
<1>13. CASE BufioReboot
  BY <1>13 DEF BufioReboot, BufInv, BufioTypeOK, OneBuffer, CallApart,
               UsedHasBlock, CleanIsCard, MayBe, Has
<1>14. CASE UNCHANGED bufioVars
  BY <1>14 DEF bufioVars, BufInv, BufioTypeOK, OneBuffer, CallApart,
               UsedHasBlock, CleanIsCard, MayBe, Has
<1>15. CASE \E u \in Callers : CallerStep(u)
  <2>1. PICK u \in Callers : CallerStep(u)
    BY <1>15
  <2>2. ASSUME ao_bufio_flush_one(u) PROVE BufInv'
    BY <1>5, <2>2 DEF ao_bufio_flush_one, BufInv, BufioTypeOK, Buffers
  <2> QED
    BY <1>1, <1>2, <1>3, <1>4, <2>1, <2>2 DEF CallerStep
<1>16. CASE ao_bufio_flush
  BY <1>5, <1>16 DEF ao_bufio_flush
<1> QED
  BY <1>6, <1>7, <1>8, <1>9, <1>10, <1>11, <1>12, <1>13, <1>14, <1>15, <1>16
     DEF BufioNext, CallStep

(* BufInv holds in every reachable state.                                  *)
THEOREM BuffersInv == BufioSpec => []BufInv
BY BufioInitInv, BufioNextInv, PTL DEF BufioSpec

-----------------------------------------------------------------------------
(* A write of a dirty buffer gives its block no other value; the card may  *)
(* refuse it.                                                              *)
LEMMA WriteAsBlocks ==
  ASSUME BufInv, BufInv', NEW b \in Buffers, ao_bufio_write(b),
         UNCHANGED <<block, ao_buffer, holds, changed, call, since>>, ~Filling
  PROVE  [Cache!BlocksNext]_Cache!blocksVars
<1> USE BufioAssumption DEF BufInv, Filling
<1>1. block[b] \in Sectors /\ Has(b, block[b])
  BY DEF ao_bufio_write, BufioTypeOK, UsedHasBlock, Has
<1>2. ASSUME NEW s \in Sectors PROVE Content'[s] = Content[s]
  <2>1. \A a \in Buffers : Has(a, s)' <=> Has(a, s)
    BY DEF Has
  <2>2. (\A a \in Buffers : ~Has(a, s)) => card'[s] = card[s]
    BY <1>1 DEF ao_bufio_write, BufioTypeOK
  <2> QED
    BY <2>1, <2>2, ContentSame
<1>3. Content' = Content
  BY <1>2, ContentFunction
<1>4. CASE refused' = refused
  BY <1>3, <1>4 DEF Cache!blocksVars
<1>5. CASE refused' = refused \union {block[b]}
  <2>1. Cache!Refuse(block[b])
    BY <1>3, <1>5 DEF Cache!Refuse
  <2> QED
    BY <1>1, <2>1 DEF Cache!BlocksNext
<1> QED
  BY <1>4, <1>5 DEF ao_bufio_write

(* A step of the cache is one of the blocks, or leaves them as they are.   *)
LEMMA BufioNextBlocks ==
  ASSUME BufInv, BufInv', [BufioNext]_bufioVars
  PROVE  [Cache!BlocksNext]_Cache!blocksVars
<1> USE BufioAssumption DEF BufInv, Unlocked, NoCall, Evicting, Filling, Flushing
<1>1. ASSUME UNCHANGED <<since, refused>>,
             \A s \in Sectors : Content'[s] = Content[s]
      PROVE  UNCHANGED Cache!blocksVars
  BY <1>1, ContentFunction DEF Cache!blocksVars
<1>2. ASSUME UNCHANGED <<since, refused, card, ao_buffer, block>>,
             call.at # "fill", call'.at # "fill"
      PROVE  UNCHANGED Cache!blocksVars
  BY <1>1, <1>2, ContentSame DEF Has
<1>3. ASSUME NEW u \in Callers, NEW v \in Values, Write(u, v)
      PROVE  Cache!Change(block[holds[u]], v) /\ block[holds[u]] \in Sectors
  <2> DEFINE b == holds[u]
             t == block[b]
  <2>1. b \in Buffers /\ t \in Sectors
    BY <1>3 DEF Write, BufioTypeOK, UsedHasBlock
  <2>2. Content'[t] = v
    BY <1>3, <2>1, ContentIsNext DEF Write, Has, BufioTypeOK
  <2>3. ASSUME NEW s \in Sectors, s # t PROVE Content'[s] = Content[s]
    BY <1>3, <2>1, <2>3, ContentSame DEF Write, Has, BufioTypeOK
  <2>4. Content' = [Content EXCEPT ![t] = v]
    BY <2>1, <2>2, <2>3, ContentFunction
  <2> QED
    BY <1>3, <2>1, <2>4 DEF Write, Cache!Change
<1>4. ASSUME NEW u \in Callers, CallerStep(u)
      PROVE  [Cache!BlocksNext]_Cache!blocksVars
  <2>1. ASSUME NEW s \in Sectors, GetHit(u, s) \/ GetMiss(u, s)
        PROVE  UNCHANGED Cache!blocksVars
    BY <1>2, <2>1 DEF GetHit, GetMiss
  <2>2. ASSUME ao_bufio_put(u) \/ ao_bufio_flush_one(u)
        PROVE  UNCHANGED Cache!blocksVars
    BY <1>2, <2>2 DEF ao_bufio_put, ao_bufio_flush_one, FlushFromTo
  <2>3. ASSUME NEW v \in Values, Write(u, v) PROVE Cache!BlocksNext
    BY <1>3, <2>3 DEF Cache!BlocksNext
  <2> QED
    BY <1>4, <2>1, <2>2, <2>3 DEF CallerStep
<1>5. CASE ao_bufio_flush \/ FlushGoesOn
  <2>1. call'.at = "flush" /\ call.at # "fill"
    BY <1>5 DEF ao_bufio_flush, FlushFromTo, FlushGoesOn, BufioTypeOK
  <2> QED
    BY <1>2, <1>5, <2>1 DEF ao_bufio_flush, FlushFromTo, FlushGoesOn
<1>6. CASE EvictWrites
  BY <1>6, WriteAsBlocks DEF EvictWrites, BufioTypeOK
<1>7. CASE FlushWrites
  <2>1. call.next \in Buffers
    BY <1>7 DEF FlushWrites, BufioTypeOK, Buffers
  <2> QED
    BY <1>7, <2>1, WriteAsBlocks DEF FlushWrites
<1>8. CASE Evicted
  <2> DEFINE b == call.buffer
  <2>1. b \in Buffers /\ call.block \in Sectors
    BY <1>8 DEF Evicted, BufioTypeOK
  <2>2. ASSUME NEW s \in Sectors, s # block[b] PROVE Content'[s] = Content[s]
    BY <1>8, <2>1, <2>2, ContentSame
       DEF Evicted, Has, BufioTypeOK, CallApart
  <2>3. CASE block[b] = NoSector
    BY <1>1, <1>8, <2>2, <2>3 DEF Evicted
  <2>4. ASSUME NEW t \in Sectors, block[b] = t
        PROVE  [Cache!BlocksNext]_Cache!blocksVars
    <3>1. Has(b, t) /\ \A a \in Buffers : ~Has(a, t)'
      BY <1>8, <2>1, <2>4 DEF Evicted, Has, BufioTypeOK, OneBuffer, CallApart
    <3>2. Content[t] = ao_buffer[b] /\ Content'[t] = card[t]
      BY <1>8, <2>1, <3>1, ContentIs, ContentIsNext DEF Evicted
    <3>3. ao_buffer[b] = card[t] \/ t \in refused
      BY <1>8, <2>1, <3>1 DEF Evicted, BufioTypeOK, CleanIsCard, CallApart
    <3>4. CASE ao_buffer[b] = card[t]
      BY <1>1, <1>8, <2>2, <2>4, <3>2, <3>4 DEF Evicted
    <3>5. CASE t \in refused
      <4>1. Content' = [Content EXCEPT ![t] = card[t]]
        BY <2>2, <2>4, <3>2, ContentFunction
      <4>2. Cache!Forget(t)
        BY <1>8, <3>5, <4>1 DEF Evicted, Cache!Forget, MayBe
      <4> QED
        BY <4>2 DEF Cache!BlocksNext
    <3> QED
      BY <3>3, <3>4, <3>5
  <2> QED
    BY <2>1, <2>3, <2>4 DEF BufioTypeOK
<1>9. CASE Filled
  <2>1. call.buffer \in Buffers /\ call.block \in Sectors
    BY <1>9 DEF Filled, BufioTypeOK
  <2>2. \A a \in Buffers : ~Has(a, call.block)
    BY <1>9, <2>1 DEF Filled, Has, BufioTypeOK, OneBuffer, CallApart
  <2>3. Content'[call.block] = card[call.block]
    BY <1>9, <2>1, ContentIsNext DEF Filled, Has, BufioTypeOK, CallApart
  <2>4. ASSUME NEW s \in Sectors, s # call.block PROVE Content'[s] = Content[s]
    BY <1>9, <2>1, <2>4, ContentSame DEF Filled, Has, BufioTypeOK, CallApart
  <2> QED
    BY <1>1, <1>9, <2>1, <2>2, <2>3, <2>4, ContentIs DEF Filled
<1>10. CASE FillFails
  <2>1. call.buffer \in Buffers
    BY <1>10 DEF FillFails, BufioTypeOK
  <2>2. ASSUME NEW s \in Sectors PROVE Content'[s] = Content[s]
    BY <1>10, <2>1, ContentSame DEF FillFails, Has, BufioTypeOK, CallApart
  <2> QED
    BY <1>1, <1>10, <2>2 DEF FillFails
<1>11. CASE FlushDone
  <2>1. Content' = Content
    BY <1>11, ContentSame, ContentFunction DEF FlushDone, Has
  <2>2. CASE call.all
    <3>1. Cache!Flush
      BY <1>11, <2>1, <2>2 DEF FlushDone, Cache!Flush
    <3> QED
      BY <3>1 DEF Cache!BlocksNext
  <2>3. CASE ~call.all
    BY <1>11, <2>1, <2>3 DEF FlushDone, Cache!blocksVars, BufioTypeOK
  <2> QED
    BY <2>2, <2>3
<1>12. CASE BufioReboot
  <2>1. \A s \in Sectors : Content'[s] = card[s]
    BY <1>12, ContentIsNext DEF BufioReboot, Has
  <2>2. Cache!PowerFails
    BY <1>12, <2>1 DEF BufioReboot, Cache!PowerFails, MayBe
  <2> QED
    BY <2>2 DEF Cache!BlocksNext
<1>13. CASE UNCHANGED bufioVars
  BY <1>1, <1>13, ContentSame DEF bufioVars, Has
<1> QED
  BY <1>4, <1>5, <1>6, <1>7, <1>8, <1>9, <1>10, <1>11, <1>12, <1>13
     DEF BufioNext, CallStep

LEMMA BufioInitBlocks ==
  BufioInit => Cache!BlocksInit
<1> SUFFICES ASSUME BufioInit PROVE Cache!BlocksInit
  OBVIOUS
<1>1. \A s \in Sectors : Content[s] = card[s]
  BY BufioAssumption, BufioInitInv, ContentIs DEF BufInv, BufioInit, Has
<1> QED
  BY <1>1, ContentFunction DEF BufioInit, Cache!BlocksInit

(* Whatever the sizes, the cache keeps what it promises: see               *)
(* ImplementsBlocks.                                                       *)
THEOREM CacheImplements == BufioSpec => ImplementsBlocks
<1>1. BufInv /\ BufInv' /\ [BufioNext]_bufioVars
        => [Cache!BlocksNext]_Cache!blocksVars
  BY BufioNextBlocks
<1> QED
  BY <1>1, BufioInitBlocks, BuffersInv, PTL
     DEF BufioSpec, ImplementsBlocks, Cache!BlocksSpec
=============================================================================
