--------------------------- MODULE AltosPacketProofs ---------------------------
(***************************************************************************)
(* Packet mode steps as a stream of bytes in each direction, for buffers   *)
(* and sequence numbers of every size.  What an end has written and the    *)
(* other one has not read lies in three places, in order: the buffer that  *)
(* is read, the packet that is sent and the buffer that is written.        *)
(***************************************************************************)
EXTENDS AltosPacket, TLAPS

(* The packet of e holds data that the other end would take.               *)
Untaken(e) ==
  \/ rx_seq[Other(e)] # ao_tx_packet[e].seq
  \/ e = "master" /\ ao_packet_restart

(* s is a run of numbers, each the one before plus one.                    *)
Run(s) == \A i \in 1 .. Len(s) : s[i] = s[1] + i - 1

(* The data of a packet d comes before what waits for it to be answered,   *)
(* which begins after n, and it comes after what is read, or is it.        *)
Packed(n, r, d, b, untaken) ==
  /\ Run(d)
  /\ Len(d) > 0 /\ r <= d[Len(d)] /\ d[Len(d)] <= n
  /\ \A i \in 1 .. Len(b) : b[i] <= d[Len(d)]
  /\ untaken => /\ \A i \in 1 .. Len(d) : d[i] > r
                /\ \A i \in 1 .. Len(d), j \in 1 .. Len(b) : d[i] > b[j]

(* The bytes of one direction are in order: w is the last one written and  *)
(* r the last one read, t the buffer written, p the packet and b the       *)
(* buffer read.                                                            *)
Ordered(w, r, t, p, b, untaken) ==
  /\ r <= w - Len(t)
  /\ \A i \in 1 .. Len(t) : t[i] = w - Len(t) + i
  /\ Run(b)
  /\ \A i \in 1 .. Len(b) : b[i] > r /\ b[i] <= w - Len(t)
  /\ p.len = "data" => Packed(w - Len(t), r, p.d, b, untaken)

InOrder(e) ==
  Ordered(written[e], read[e], tx_data[e], ao_tx_packet[e],
          rx_data[Other(e)], Untaken(e))

(* Each end acknowledges the packet that it took last, and a slave that    *)
(* has heard nothing since it started asks for a set-up.                   *)
LinkInv ==
  /\ PacketTypeOK
  /\ \A e \in Ends : InOrder(e) /\ ao_tx_packet[e].ack = rx_seq[e]
  /\ ao_packet_restart => ao_tx_packet["slave"].len = "syn"

-----------------------------------------------------------------------------
(* Buffers.                                                                *)
LEMMA BufferSeq ==
  ASSUME NEW s \in Buffers
  PROVE  /\ s \in Seq(Bytes) /\ Len(s) \in Nat /\ Len(s) <= MaxLen
         /\ DOMAIN s = 1 .. Len(s)
         /\ \A i \in 1 .. Len(s) : s[i] \in Bytes /\ s[i] \in Nat
<1>1. PICK n \in 0 .. MaxLen : s \in [1 .. n -> Bytes]
  BY DEF Buffers
<1>2. Len(s) = n /\ s \in Seq(Bytes)
  BY <1>1, PacketAssumption
<1> QED
  BY <1>1, <1>2, PacketAssumption DEF Bytes

LEMMA SeqBuffer ==
  ASSUME NEW s \in Seq(Bytes), Len(s) <= MaxLen
  PROVE  s \in Buffers
<1>1. s \in [1 .. Len(s) -> Bytes] /\ Len(s) \in 0 .. MaxLen
  BY PacketAssumption
<1> QED
  BY <1>1 DEF Buffers

LEMMA EmptyBuffer == <<>> \in Buffers /\ Len(<<>>) = 0 /\ Range(<<>>) = {}
<1>1. <<>> \in Seq(Bytes) /\ Len(<<>>) = 0 /\ 0 <= MaxLen
  BY PacketAssumption
<1>2. <<>> \in Buffers
  BY <1>1, SeqBuffer, Zenon
<1> QED
  BY <1>1, <1>2 DEF Range

LEMMA AppendBuffer ==
  ASSUME NEW s \in Buffers, NEW n \in Bytes, Len(s) < MaxLen
  PROVE  /\ Append(s, n) \in Buffers /\ Len(Append(s, n)) = Len(s) + 1
         /\ \A i \in 1 .. Len(s) : Append(s, n)[i] = s[i]
         /\ Append(s, n)[Len(s) + 1] = n
         /\ Range(Append(s, n)) = Range(s) \cup {n}
<1>1. s \in Seq(Bytes) /\ Len(s) \in Nat /\ DOMAIN s = 1 .. Len(s)
  BY BufferSeq
<1>2. /\ Append(s, n) \in Seq(Bytes) /\ Len(Append(s, n)) = Len(s) + 1
      /\ \A i \in 1 .. Len(s) : Append(s, n)[i] = s[i]
      /\ Append(s, n)[Len(s) + 1] = n
      /\ DOMAIN Append(s, n) = 1 .. Len(s) + 1
  BY <1>1
<1>3. Len(Append(s, n)) <= MaxLen
  BY <1>1, <1>2, PacketAssumption
<1>4. Append(s, n) \in Buffers
  BY <1>2, <1>3, SeqBuffer, Zenon
<1>5. Range(Append(s, n)) = Range(s) \cup {n}
  BY <1>1, <1>2 DEF Range
<1> QED
  BY <1>2, <1>4, <1>5

LEMMA TailBuffer ==
  ASSUME NEW s \in Buffers, s # <<>>
  PROVE  /\ Tail(s) \in Buffers /\ Len(s) > 0 /\ Len(Tail(s)) = Len(s) - 1
         /\ Head(s) = s[1]
         /\ \A i \in 1 .. Len(s) - 1 : Tail(s)[i] = s[i + 1]
         /\ Range(Tail(s)) = {s[i] : i \in 2 .. Len(s)}
<1>1. s \in Seq(Bytes) /\ Len(s) \in Nat /\ Len(s) <= MaxLen
  BY BufferSeq
<1>2. /\ Tail(s) \in Seq(Bytes) /\ Len(s) > 0 /\ Len(Tail(s)) = Len(s) - 1
      /\ Head(s) = s[1]
      /\ \A i \in 1 .. Len(s) - 1 : Tail(s)[i] = s[i + 1]
      /\ DOMAIN Tail(s) = 1 .. Len(s) - 1
  BY <1>1
<1>3. Len(Tail(s)) <= MaxLen
  BY <1>1, <1>2, PacketAssumption
<1>4. Tail(s) \in Buffers
  BY <1>2, <1>3, SeqBuffer, Zenon
<1>5. Range(Tail(s)) = {s[i] : i \in 2 .. Len(s)}
  <2>1. ASSUME NEW i \in 2 .. Len(s) PROVE s[i] \in Range(Tail(s))
    <3>1. i - 1 \in 1 .. Len(s) - 1 /\ s[i] = Tail(s)[i - 1]
      BY <1>1, <1>2
    <3> QED
      BY <1>2, <3>1 DEF Range
  <2>2. ASSUME NEW i \in 1 .. Len(s) - 1
        PROVE  Tail(s)[i] \in {s[j] : j \in 2 .. Len(s)}
    BY <1>1, <1>2
  <2> QED
    BY <1>2, <2>1, <2>2 DEF Range
<1> QED
  BY <1>2, <1>4, <1>5

LEMMA RunBounds ==
  ASSUME NEW s \in Buffers, Run(s), NEW i \in 1 .. Len(s)
  PROVE  /\ s[i] = s[1] + i - 1 /\ s[Len(s)] = s[1] + Len(s) - 1
         /\ s[1] <= s[i] /\ s[i] <= s[Len(s)]
<1>1. /\ Len(s) \in Nat /\ 1 \in 1 .. Len(s) /\ Len(s) \in 1 .. Len(s)
      /\ \A j \in 1 .. Len(s) : s[j] \in Nat
  BY BufferSeq
<1>2. s[1] \in Nat /\ s[i] \in Nat /\ s[Len(s)] \in Nat
  BY <1>1
<1>3. s[i] = s[1] + i - 1 /\ s[Len(s)] = s[1] + Len(s) - 1
  BY <1>1 DEF Run
<1> QED
  BY <1>1, <1>2, <1>3

LEMMA EmptyRun ==
  /\ Len(<<>>) = 0 /\ Run(<<>>) /\ \A i : i \notin 1 .. Len(<<>>)
  /\ \A n \in Int : n - Len(<<>>) = n
BY DEF Run

-----------------------------------------------------------------------------
(* What keeps the bytes of one direction in order.                         *)
LEMMA WriteOrdered ==
  ASSUME NEW w \in Nat, NEW r \in Nat, NEW t \in Buffers, NEW p \in Packets,
         NEW b \in Buffers, NEW untaken, w + 1 \in Bytes, Len(t) < MaxLen,
         Ordered(w, r, t, p, b, untaken)
  PROVE  Ordered(w + 1, r, Append(t, w + 1), p, b, untaken)
<1>1. Len(t) \in Nat /\ \A i \in 1 .. Len(t) : t[i] \in Nat
  BY BufferSeq
<1>2. /\ Len(Append(t, w + 1)) = Len(t) + 1
      /\ \A i \in 1 .. Len(t) : Append(t, w + 1)[i] = t[i]
      /\ Append(t, w + 1)[Len(t) + 1] = w + 1
  BY AppendBuffer
<1> DEFINE u == Append(t, w + 1)
<1>3. (w + 1) - Len(u) = w - Len(t)
  BY <1>1, <1>2
<1>4. \A i \in 1 .. Len(u) : u[i] = (w + 1) - Len(u) + i
  BY <1>1, <1>2 DEF Ordered
<1> HIDE DEF u
<1> QED
  BY <1>3, <1>4 DEF Ordered, u

LEMMA FillOrdered ==
  ASSUME NEW w \in Nat, NEW r \in Nat, NEW t \in Buffers, NEW p \in Packets,
         NEW q, NEW b \in Buffers, NEW untaken, t # <<>>, q.d = t,
         Ordered(w, r, t, p, b, untaken)
  PROVE  Ordered(w, r, <<>>, q, b, TRUE)
<1>1. /\ Len(t) \in Nat /\ Len(t) > 0 /\ \A i \in 1 .. Len(t) : t[i] \in Nat
      /\ Len(b) \in Nat /\ \A i \in 1 .. Len(b) : b[i] \in Nat
  BY BufferSeq
<1>2. t[Len(t)] = w /\ Run(t) /\ \A i \in 1 .. Len(t) : t[i] > w - Len(t)
  <2>1. \A i \in 1 .. Len(t) : t[i] = w - Len(t) + i
    BY DEF Ordered
  <2>2. t[1] = w - Len(t) + 1 /\ t[Len(t)] = w
    BY <1>1, <2>1
  <2>3. \A i \in 1 .. Len(t) : t[i] = t[1] + i - 1 /\ t[i] > w - Len(t)
    BY <1>1, <2>1, <2>2
  <2> QED
    BY <2>2, <2>3 DEF Run
<1>3. \A i \in 1 .. Len(b) : b[i] > r /\ b[i] <= w
  BY <1>1 DEF Ordered
<1>4. r <= w /\ \A i \in 1 .. Len(t) : t[i] > r
  BY <1>1, <1>2 DEF Ordered
<1>5. \A i \in 1 .. Len(t), j \in 1 .. Len(b) : t[i] > b[j]
  BY <1>1, <1>2 DEF Ordered
<1>6. Packed(w, r, q.d, b, TRUE)
  BY <1>1, <1>2, <1>3, <1>4, <1>5 DEF Packed
<1>7. Run(b) /\ w - Len(<<>>) = w /\ \A i : i \notin 1 .. Len(<<>>)
  BY EmptyRun DEF Ordered
<1> QED
  BY <1>3, <1>4, <1>6, <1>7, Zenon DEF Ordered

LEMMA TakeOrdered ==
  ASSUME NEW w \in Nat, NEW r \in Nat, NEW t \in Buffers, NEW p \in Packets,
         p.len = "data", Ordered(w, r, t, p, <<>>, TRUE)
  PROVE  Ordered(w, r, t, p, p.d, FALSE)
<1>1. /\ p.d \in Buffers /\ Len(p.d) \in Nat
      /\ \A i \in 1 .. Len(p.d) : p.d[i] \in Nat
      /\ Len(t) \in Nat
  BY BufferSeq DEF Packets
<1>2. Packed(w - Len(t), r, p.d, <<>>, TRUE)
  BY DEF Ordered
<1>3. \A i \in 1 .. Len(p.d) : p.d[i] > r /\ p.d[i] <= p.d[Len(p.d)]
  BY <1>1, <1>2, RunBounds DEF Packed
<1>4. \A i \in 1 .. Len(p.d) : p.d[i] <= w - Len(t)
  BY <1>1, <1>2, <1>3 DEF Packed
<1>5. Packed(w - Len(t), r, p.d, p.d, FALSE)
  BY <1>2, <1>3 DEF Packed
<1> QED
  BY <1>2, <1>3, <1>4, <1>5 DEF Ordered, Packed

(* A packet that is answered, or that sets the link up, holds no data; one *)
(* that is sent again is taken once at most.                               *)
LEMMA AnswerOrdered ==
  ASSUME NEW w \in Nat, NEW r \in Nat, NEW t \in Buffers, NEW p, NEW q,
         NEW b \in Buffers, NEW untaken, NEW less,
         q.len = "data" => p.len = "data" /\ q.d = p.d /\ (less => untaken),
         Ordered(w, r, t, p, b, untaken)
  PROVE  Ordered(w, r, t, q, b, less)
BY DEF Ordered, Packed

LEMMA ReadOrdered ==
  ASSUME NEW w \in Nat, NEW r \in Nat, NEW t \in Buffers, NEW p \in Packets,
         NEW b \in Buffers, NEW untaken, b # <<>>,
         Ordered(w, r, t, p, b, untaken)
  PROVE  Ordered(w, Head(b), t, p, Tail(b), untaken)
<1>1. /\ Len(t) \in Nat /\ Len(b) \in Nat
      /\ \A i \in 1 .. Len(b) : b[i] \in Nat
      /\ p.d \in Buffers /\ Len(p.d) \in Nat
      /\ \A i \in 1 .. Len(p.d) : p.d[i] \in Nat
  BY BufferSeq DEF Packets
<1>2. /\ Len(b) > 0 /\ Len(Tail(b)) = Len(b) - 1 /\ Head(b) = b[1]
      /\ \A i \in 1 .. Len(b) - 1 : Tail(b)[i] = b[i + 1]
  BY TailBuffer
<1>3. Run(b) /\ b[1] <= w - Len(t) /\ \A i \in 1 .. Len(b) : b[i] <= w - Len(t)
  BY <1>1, <1>2 DEF Ordered
<1>4. \A i \in 1 .. Len(Tail(b)) : Tail(b)[i] = b[i + 1] /\ i + 1 \in 1 .. Len(b)
  BY <1>1, <1>2
<1>5. Run(Tail(b)) /\ \A i \in 1 .. Len(Tail(b)) : Tail(b)[i] > b[1]
  <2>1. \A i \in 1 .. Len(Tail(b)) : Tail(b)[i] = b[1] + i
    <3> SUFFICES ASSUME NEW i \in 1 .. Len(Tail(b))
                 PROVE  Tail(b)[i] = b[1] + i
      OBVIOUS
    <3>1. i \in Nat /\ b[1] \in Nat /\ b[i + 1] = b[1] + (i + 1) - 1
      BY <1>1, <1>2, <1>3, <1>4 DEF Run
    <3> QED
      BY <1>4, <3>1
  <2>2. /\ b[1] \in Nat
        /\ \A i \in 1 .. Len(Tail(b)) : Tail(b)[1] = b[1] + 1
    BY <1>1, <1>2, <2>1
  <2>3. \A i \in 1 .. Len(Tail(b)) : /\ Tail(b)[i] = Tail(b)[1] + i - 1
                                    /\ Tail(b)[i] > b[1]
    <3> SUFFICES ASSUME NEW i \in 1 .. Len(Tail(b))
                 PROVE  /\ Tail(b)[i] = Tail(b)[1] + i - 1
                        /\ Tail(b)[i] > b[1]
      OBVIOUS
    <3>1. /\ Tail(b)[i] = b[1] + i /\ Tail(b)[1] = b[1] + 1
          /\ b[1] \in Nat /\ i \in Nat /\ i > 0
      BY <1>1, <1>2, <2>1, <2>2
    <3> QED
      BY <3>1
  <2> QED
    BY <2>3 DEF Run
<1>6. ASSUME p.len = "data"
      PROVE  Packed(w - Len(t), b[1], p.d, Tail(b), untaken)
  <2>1. Packed(w - Len(t), r, p.d, b, untaken)
    BY <1>6 DEF Ordered
  <2> QED
    BY <1>1, <1>2, <1>4, <2>1 DEF Packed
<1> QED
  BY <1>2, <1>3, <1>4, <1>5, <1>6 DEF Ordered

(* The reader loses its memory: its buffer, and the knowledge of what it   *)
(* has read of the last packet.                                            *)
LEMMA ForgetOrdered ==
  ASSUME NEW w \in Nat, NEW r \in Nat, NEW t \in Buffers, NEW p \in Packets,
         NEW b \in Buffers, NEW untaken,
         Ordered(w, r, t, p, b, untaken)
  PROVE  Ordered(w, IF r > MaxLen THEN r - MaxLen ELSE 0, t, p, <<>>, TRUE)
<1> DEFINE s == IF r > MaxLen THEN r - MaxLen ELSE 0
<1>1. /\ Len(t) \in Nat /\ p.d \in Buffers /\ Len(p.d) \in Nat
      /\ Len(p.d) <= MaxLen /\ MaxLen \in Nat
      /\ \A i \in 1 .. Len(p.d) : p.d[i] \in Bytes /\ p.d[i] \in Nat
      /\ \A i \in 1 .. Len(p.d) : p.d[i] > 0
  BY BufferSeq, PacketAssumption DEF Packets, Bytes
<1>2. s \in Nat /\ s <= r /\ (s = 0 \/ s = r - MaxLen)
  BY <1>1, PacketAssumption
<1> HIDE DEF s
<1>3. s <= w - Len(t)
  BY <1>1, <1>2 DEF Ordered
<1>4. ASSUME p.len = "data" PROVE Packed(w - Len(t), s, p.d, <<>>, TRUE)
  <2>1. Packed(w - Len(t), r, p.d, b, untaken)
    BY <1>4 DEF Ordered
  <2>2. \A i \in 1 .. Len(p.d) : p.d[i] > s
    <3> SUFFICES ASSUME NEW i \in 1 .. Len(p.d) PROVE p.d[i] > s
      OBVIOUS
    <3>1. p.d[Len(p.d)] = p.d[1] + Len(p.d) - 1 /\ p.d[i] = p.d[1] + i - 1
      BY <1>1, <2>1, RunBounds DEF Packed
    <3>2. /\ r <= p.d[Len(p.d)] /\ 1 \in 1 .. Len(p.d)
          /\ Len(p.d) \in 1 .. Len(p.d)
      BY <1>1, <2>1 DEF Packed
    <3>3. p.d[1] \in Nat /\ p.d[i] \in Nat /\ p.d[Len(p.d)] \in Nat
      BY <1>1, <3>2
    <3>4. p.d[i] > r - MaxLen
      BY <1>1, <3>1, <3>2, <3>3
    <3> QED
      BY <1>1, <1>2, <3>4
  <2> QED
    BY <1>1, <1>2, <2>1, <2>2 DEF Packed
<1>5. \A i \in 1 .. Len(t) : t[i] = w - Len(t) + i
  BY DEF Ordered
<1> QED
  BY <1>3, <1>4, <1>5, EmptyRun, Zenon DEF Ordered, s

(* The writer loses what it has not sent.                                  *)
LEMMA DropOrdered ==
  ASSUME NEW w \in Nat, NEW r \in Nat, NEW t \in Buffers, NEW p, NEW q,
         NEW b \in Buffers, NEW untaken, NEW other, q.len # "data",
         Ordered(w, r, t, p, b, untaken)
  PROVE  Ordered(w, r, <<>>, q, b, other)
<1>1. /\ Len(t) \in Nat /\ Len(b) \in Nat
      /\ \A i \in 1 .. Len(b) : b[i] \in Nat
  BY BufferSeq
<1>2. r <= w /\ \A i \in 1 .. Len(b) : b[i] > r /\ b[i] <= w
  BY <1>1 DEF Ordered
<1>3. Len(<<>>) = 0 /\ w - Len(<<>>) = w
  OBVIOUS
<1> QED
  BY <1>2, <1>3 DEF Ordered

-----------------------------------------------------------------------------
(* Packets sent and answered.                                              *)
LEMMA TwoEnds ==
  /\ Ends = {"master", "slave"}
  /\ \A e \in Ends : /\ Other(e) \in Ends /\ Other(e) # e
                     /\ Other(Other(e)) = e
                     /\ \A o \in Ends : o = e \/ o = Other(e)
BY DEF Ends, Other

LEMMA NextSeq ==
  ASSUME NEW n \in Seqs
  PROVE  (n + 1) % SeqMod \in Seqs /\ (n + 1) % SeqMod # n
<1>1. SeqMod \in Nat /\ SeqMod > 2 /\ n \in Nat /\ n < SeqMod
  BY PacketAssumption DEF Seqs
<1>2. CASE n + 1 < SeqMod
  <2>1. (n + 1) % SeqMod = n + 1
    BY <1>1, <1>2
  <2> QED
    BY <1>1, <1>2, <2>1 DEF Seqs
<1>3. CASE n + 1 = SeqMod
  <2>1. (n + 1) % SeqMod = 0
    BY <1>1, <1>3
  <2> QED
    BY <1>1, <1>3, <2>1 DEF Seqs
<1> QED
  BY <1>1, <1>2, <1>3

LEMMA SentPacket ==
  ASSUME PacketTypeOK, NEW e \in Ends
  PROVE  /\ Sent(e) \in Packets /\ Sent(e).ack = ao_tx_packet[e].ack
         /\ ~Fills(e) => Sent(e) = ao_tx_packet[e]
         /\ Fills(e) => /\ Sent(e).len = "data" /\ Sent(e).d = tx_data[e]
                        /\ Sent(e).seq = (ao_tx_packet[e].seq + 1) % SeqMod
<1>1. ao_tx_packet[e] \in Packets /\ tx_data[e] \in Buffers
  BY DEF PacketTypeOK
<1>2. (ao_tx_packet[e].seq + 1) % SeqMod \in Seqs
  BY <1>1, NextSeq DEF Packets
<1> QED
  BY <1>1, <1>2 DEF Sent, Packets

LEMMA AnswerPacket ==
  ASSUME PacketTypeOK, NEW e \in Ends, NEW p \in Packets
  PROVE  /\ Answer(e, p) \in Packets
         /\ Answer(e, p).ack = IF p.len = "syn" \/ Takes(e, p) THEN p.seq
                               ELSE ao_tx_packet[e].ack
         /\ Answer(e, p).len \in {"none", ao_tx_packet[e].len}
         /\ Answer(e, p).len # "none" =>
              p.len # "syn" /\ Answer(e, p).d = ao_tx_packet[e].d
         /\ p.len # "syn" =>
              /\ Answer(e, p).seq = ao_tx_packet[e].seq
              /\ Answer(e, p).len # "none" => p.ack # ao_tx_packet[e].seq
              /\ p.ack # ao_tx_packet[e].seq =>
                   Answer(e, p).len = ao_tx_packet[e].len
<1>1. ao_tx_packet[e] \in Packets /\ <<>> \in Buffers
  BY EmptyBuffer DEF PacketTypeOK
<1> DEFINE own == ao_tx_packet[e]
           set == IF p.len = "syn" THEN [own EXCEPT !.seq = p.ack, !.ack = p.seq]
                  ELSE IF Takes(e, p) THEN [own EXCEPT !.ack = p.seq]
                  ELSE own
<1>2. /\ set \in Packets /\ set.len = own.len /\ set.d = own.d
      /\ set.ack = IF p.len = "syn" \/ Takes(e, p) THEN p.seq ELSE own.ack
      /\ set.seq = IF p.len = "syn" THEN p.ack ELSE own.seq
  BY <1>1 DEF Packets
<1>3. Answer(e, p) = IF p.ack = set.seq
                     THEN [set EXCEPT !.len = "none", !.d = <<>>] ELSE set
  BY DEF Answer
<1> HIDE DEF set
<1>4. /\ Answer(e, p) \in Packets /\ Answer(e, p).ack = set.ack
      /\ Answer(e, p).seq = set.seq
      /\ p.ack = set.seq => Answer(e, p).len = "none"
      /\ p.ack # set.seq => Answer(e, p) = set
  BY <1>1, <1>2, <1>3 DEF Packets
<1> QED
  BY <1>1, <1>2, <1>4

-----------------------------------------------------------------------------
(* The packet of e reaches the other end, which answers it.                *)
Delivers(e) == ao_packet_send(e) /\ ao_packet_recv(Other(e), Sent(e))

LinkTypes ==
  /\ ao_tx_packet \in [Ends -> Packets]
  /\ tx_data \in [Ends -> Buffers] /\ rx_data \in [Ends -> Buffers]
  /\ rx_seq \in [Ends -> Seqs]
  /\ ao_packet_restart \in BOOLEAN

LinkOrder ==
  /\ \A e \in Ends : InOrder(e) /\ ao_tx_packet[e].ack = rx_seq[e]
  /\ ao_packet_restart => ao_tx_packet["slave"].len = "syn"

(* What the packet that e sends next carries is in order.                  *)
LEMMA SentOrdered ==
  ASSUME LinkInv, NEW e \in Ends
  PROVE  Ordered(written[e], read[e], IF Fills(e) THEN <<>> ELSE tx_data[e],
                 Sent(e), rx_data[Other(e)], Fills(e) \/ Untaken(e))
<1>1. /\ written[e] \in Nat /\ read[e] \in Nat /\ tx_data[e] \in Buffers
      /\ ao_tx_packet[e] \in Packets /\ rx_data[Other(e)] \in Buffers
  BY TwoEnds, PacketAssumption DEF LinkInv, PacketTypeOK
<1>2. Ordered(written[e], read[e], tx_data[e], ao_tx_packet[e],
              rx_data[Other(e)], Untaken(e))
  BY DEF LinkInv, InOrder
<1>3. CASE Fills(e)
  <2>1. tx_data[e] # <<>> /\ Sent(e).d = tx_data[e]
    BY <1>3, SentPacket DEF LinkInv, Fills
  <2>2. Ordered(written[e], read[e], <<>>, Sent(e), rx_data[Other(e)], TRUE)
    BY <1>1, <1>2, <2>1, FillOrdered
  <2> QED
    BY <1>3, <2>2 DEF Ordered, Packed
<1>4. CASE ~Fills(e)
  BY <1>2, <1>4, SentPacket DEF LinkInv, Ordered, Packed
<1> QED
  BY <1>3, <1>4

LEMMA DeliversState ==
  ASSUME LinkInv, NEW e \in Ends, Delivers(e)
  PROVE  LET o == Other(e)
             p == Sent(e)
         IN /\ ao_tx_packet' \in [Ends -> Packets]
            /\ tx_data' \in [Ends -> Buffers] /\ rx_data' \in [Ends -> Buffers]
            /\ rx_seq' \in [Ends -> Seqs] /\ ao_packet_restart' \in BOOLEAN
            /\ ao_tx_packet'[e] = p /\ ao_tx_packet'[o] = Answer(o, p)
            /\ tx_data'[e] = IF Fills(e) THEN <<>> ELSE tx_data[e]
            /\ tx_data'[o] = tx_data[o] /\ rx_data'[e] = rx_data[e]
            /\ rx_data'[o] = IF Takes(o, p) THEN p.d ELSE rx_data[o]
            /\ rx_seq'[e] = rx_seq[e]
            /\ rx_seq'[o] = IF p.len = "syn" \/ Takes(o, p) THEN p.seq
                            ELSE rx_seq[o]
            /\ ao_packet_restart' = (ao_packet_restart /\ o # "slave")
            /\ written' = written /\ read' = read
<1> DEFINE o == Other(e)
           p == Sent(e)
<1>1. /\ o \in Ends /\ o # e /\ p \in Packets /\ Answer(o, p) \in Packets
      /\ p.d \in Buffers /\ p.seq \in Seqs /\ <<>> \in Buffers
  BY TwoEnds, SentPacket, AnswerPacket, EmptyBuffer DEF LinkInv, Packets
<1> HIDE DEF o, p
<1>2. ao_packet_send(e) /\ ao_packet_recv(o, p)
  BY DEF Delivers, o, p
<1>3. /\ tx_data' \in [Ends -> Buffers]
      /\ tx_data'[e] = IF Fills(e) THEN <<>> ELSE tx_data[e]
      /\ tx_data'[o] = tx_data[o] /\ written' = written /\ read' = read
  BY <1>1, <1>2 DEF ao_packet_send, LinkInv, PacketTypeOK
<1>4. /\ rx_data' \in [Ends -> Buffers] /\ rx_data'[e] = rx_data[e]
      /\ rx_data'[o] = IF Takes(o, p) THEN p.d ELSE rx_data[o]
  BY <1>1, <1>2 DEF ao_packet_recv, LinkInv, PacketTypeOK
<1>5. /\ rx_seq' \in [Ends -> Seqs] /\ rx_seq'[e] = rx_seq[e]
      /\ rx_seq'[o] = IF p.len = "syn" \/ Takes(o, p) THEN p.seq
                      ELSE rx_seq[o]
  BY <1>1, <1>2 DEF ao_packet_recv, LinkInv, PacketTypeOK
<1>6. /\ ao_tx_packet' \in [Ends -> Packets]
      /\ ao_tx_packet'[e] = p /\ ao_tx_packet'[o] = Answer(o, p)
  <2>1. Other(o) = e
    BY TwoEnds DEF o
  <2>2. ao_tx_packet' = [ao_tx_packet EXCEPT ![o] = Answer(o, p), ![e] = p]
    BY <1>2, <2>1 DEF ao_packet_recv
  <2> QED
    BY <1>1, <2>2 DEF LinkInv, PacketTypeOK
<1>7. ao_packet_restart' = (ao_packet_restart /\ o # "slave")
  BY <1>2 DEF ao_packet_recv
<1> QED
  BY <1>3, <1>4, <1>5, <1>6, <1>7 DEF o, p

LEMMA DeliversInv ==
  ASSUME LinkInv, NEW e \in Ends, Delivers(e)
  PROVE  LinkTypes' /\ LinkOrder'
<1> DEFINE o == Other(e)
           p == Sent(e)
           t == IF Fills(e) THEN <<>> ELSE tx_data[e]
<1>1. /\ o \in Ends /\ o # e /\ Other(o) = e /\ p \in Packets
      /\ \A f \in Ends : f = e \/ f = o
      /\ t \in Buffers
      /\ tx_data[o] \in Buffers
      /\ rx_data[e] \in Buffers /\ rx_data[o] \in Buffers
      /\ ao_tx_packet[o] \in Packets /\ ao_tx_packet[e] \in Packets
      /\ \A f \in Ends : written[f] \in Nat /\ read[f] \in Nat
  BY TwoEnds, SentPacket, EmptyBuffer, PacketAssumption
  DEF LinkInv, PacketTypeOK
<1>2. LinkTypes'
  BY DeliversState DEF LinkTypes
<1>3. Ordered(written[e], read[e], t, p, rx_data[o], Fills(e) \/ Untaken(e))
  BY SentOrdered
<1> HIDE DEF t
<1>4. /\ ao_tx_packet'[e] = p /\ tx_data'[e] = t /\ written' = written
      /\ read' = read /\ rx_seq'[e] = rx_seq[e] /\ rx_data'[e] = rx_data[e]
      /\ ao_tx_packet'[o] = Answer(o, p) /\ tx_data'[o] = tx_data[o]
      /\ ao_packet_restart' = (ao_packet_restart /\ o # "slave")
      /\ rx_data'[o] = IF Takes(o, p) THEN p.d ELSE rx_data[o]
      /\ rx_seq'[o] = IF p.len = "syn" \/ Takes(o, p) THEN p.seq
                      ELSE rx_seq[o]
  BY DeliversState DEF t
<1>5. p.ack = ao_tx_packet[e].ack /\ (~Fills(e) => p = ao_tx_packet[e])
  BY SentPacket DEF LinkInv
<1> HIDE DEF p, o
<1>6. InOrder(e)'
  <2>1. InOrder(e)' <=> Ordered(written[e], read[e], t, p, rx_data'[o],
                                Untaken(e)')
    BY <1>4 DEF InOrder, o
  <2>2. Untaken(e)' <=> \/ rx_seq'[o] # p.seq
                        \/ e = "master" /\ ao_packet_restart'
    BY <1>4 DEF Untaken, o
  <2>3. Untaken(e) <=> \/ rx_seq[o] # ao_tx_packet[e].seq
                       \/ e = "master" /\ ao_packet_restart
    BY DEF Untaken, o
  <2>4. CASE Takes(o, p)
    <3>1. p.len = "data" /\ IsNext(o, p) /\ rx_data[o] = <<>>
      BY <2>4 DEF Takes
    <3>2. Fills(e) \/ Untaken(e)
      <4>1. SUFFICES ASSUME ~Fills(e) PROVE Untaken(e)
        OBVIOUS
      <4>2. rx_seq[o] \in Seqs
        BY <1>1 DEF LinkInv, PacketTypeOK
      <4>3. o = "slave" => e = "master"
        BY <1>1, TwoEnds
      <4> QED
        BY <1>5, <2>3, <3>1, <4>1, <4>2, <4>3, NextSeq DEF IsNext
    <3>3. Ordered(written[e], read[e], t, p, <<>>, TRUE)
      BY <1>3, <3>1, <3>2 DEF Ordered, Packed
    <3>4. Ordered(written[e], read[e], t, p, p.d, FALSE)
      BY <1>1, <3>1, <3>3, TakeOrdered
    <3>5. ~Untaken(e)'
      BY <1>1, <1>4, <2>2, <2>4, TwoEnds
    <3> QED
      BY <1>4, <2>1, <2>4, <3>4, <3>5 DEF Ordered, Packed
  <2>5. CASE ~Takes(o, p)
    <3>1. rx_data'[o] = rx_data[o]
      BY <1>4, <2>5
    <3>2. p.len = "data" => (Untaken(e)' => Fills(e) \/ Untaken(e))
      BY <1>4, <1>5, <2>2, <2>3, <2>5
    <3> QED
      BY <1>3, <2>1, <3>1, <3>2 DEF Ordered, Packed
  <2> QED
    BY <2>4, <2>5
<1>7. InOrder(o)'
  <2> DEFINE q == Answer(o, p)
  <2>1. Ordered(written[o], read[o], tx_data[o], ao_tx_packet[o], rx_data[e],
                Untaken(o))
    BY <1>1 DEF LinkInv, InOrder
  <2>2. q.len = "data" =>
          /\ ao_tx_packet[o].len = "data" /\ q.d = ao_tx_packet[o].d
          /\ q.seq = ao_tx_packet[o].seq
    BY <1>1, AnswerPacket DEF LinkInv
  <2> HIDE DEF q
  <2>3. q.len = "data" => (Untaken(o)' => Untaken(o))
    BY <1>1, <1>4, <2>2 DEF Untaken, q
  <2>4. InOrder(o)' <=> Ordered(written[o], read[o], tx_data[o], q,
                                rx_data[e], Untaken(o)')
    BY <1>1, <1>4 DEF InOrder, q
  <2> QED
    BY <2>1, <2>2, <2>3, <2>4 DEF Ordered, Packed
<1>8. \A f \in Ends : ao_tx_packet'[f].ack = rx_seq'[f]
  <2>1. ao_tx_packet[e].ack = rx_seq[e] /\ ao_tx_packet[o].ack = rx_seq[o]
    BY <1>1 DEF LinkInv
  <2>2. Answer(o, p).ack = IF p.len = "syn" \/ Takes(o, p) THEN p.seq
                           ELSE ao_tx_packet[o].ack
    BY <1>1, AnswerPacket DEF LinkInv
  <2> QED
    BY <1>1, <1>4, <1>5, <2>1, <2>2
<1>9. ao_packet_restart' => ao_tx_packet'["slave"].len = "syn"
  <2>1. SUFFICES ASSUME ao_packet_restart /\ o # "slave"
                 PROVE  ao_tx_packet'["slave"].len = "syn"
    BY <1>4
  <2>2. e = "slave" /\ ao_tx_packet[e].len = "syn"
    BY <1>1, <2>1, TwoEnds DEF LinkInv
  <2> QED
    BY <1>4, <1>5, <2>2 DEF Fills
<1> QED
  BY <1>1, <1>2, <1>6, <1>7, <1>8, <1>9 DEF LinkOrder

(* The packet of e is lost.                                                *)
LEMMA VainInv ==
  ASSUME LinkInv, NEW e \in Ends, ao_packet_send(e), SentInVain(e)
  PROVE  LinkTypes' /\ LinkOrder'
<1> DEFINE o == Other(e)
           p == Sent(e)
           t == IF Fills(e) THEN <<>> ELSE tx_data[e]
<1>1. /\ o \in Ends /\ o # e /\ Other(o) = e /\ p \in Packets
      /\ \A f \in Ends : f = e \/ f = o
      /\ t \in Buffers /\ <<>> \in Buffers
  BY TwoEnds, SentPacket, EmptyBuffer DEF LinkInv, PacketTypeOK
<1>2. Ordered(written[e], read[e], t, p, rx_data[o], Fills(e) \/ Untaken(e))
  BY SentOrdered
<1>3. p.ack = ao_tx_packet[e].ack /\ (~Fills(e) => p = ao_tx_packet[e])
  BY SentPacket DEF LinkInv
<1>4. /\ ao_tx_packet' = [ao_tx_packet EXCEPT ![e] = p]
      /\ UNCHANGED <<rx_data, rx_seq, ao_packet_restart, written, read>>
      /\ tx_data' = IF Fills(e) THEN [tx_data EXCEPT ![e] = <<>>] ELSE tx_data
  BY DEF SentInVain, ao_packet_send
<1> HIDE DEF p, o
<1>5. /\ ao_tx_packet'[e] = p /\ ao_tx_packet'[o] = ao_tx_packet[o]
      /\ tx_data'[e] = t /\ tx_data'[o] = tx_data[o]
      /\ ao_tx_packet' \in [Ends -> Packets] /\ tx_data' \in [Ends -> Buffers]
  BY <1>1, <1>4 DEF LinkInv, PacketTypeOK
<1> HIDE DEF t
<1>6. LinkTypes'
  BY <1>4, <1>5 DEF LinkInv, PacketTypeOK, LinkTypes
<1>7. InOrder(e)'
  <2>1. ~Fills(e) => (Untaken(e)' <=> Untaken(e))
    BY <1>3, <1>4, <1>5 DEF Untaken
  <2>2. InOrder(e)' <=> Ordered(written[e], read[e], t, p, rx_data[o],
                                Untaken(e)')
    BY <1>4, <1>5 DEF InOrder, o
  <2> QED
    BY <1>2, <2>1, <2>2 DEF Ordered, Packed
<1>8. InOrder(o)'
  BY <1>1, <1>4, <1>5 DEF LinkInv, InOrder, Untaken
<1>9. \A f \in Ends : ao_tx_packet'[f].ack = rx_seq'[f]
  BY <1>1, <1>3, <1>4, <1>5 DEF LinkInv
<1>10. ao_packet_restart' => ao_tx_packet'["slave"].len = "syn"
  BY <1>1, <1>3, <1>4, <1>5, TwoEnds DEF LinkInv, Fills
<1> QED
  BY <1>1, <1>6, <1>7, <1>8, <1>9, <1>10 DEF LinkOrder

LEMMA PutInv ==
  ASSUME LinkInv, NEW e \in Ends, ao_packet_putchar(e)
  PROVE  LinkTypes' /\ LinkOrder' /\ written'[e] \in 0 .. MaxBytes
<1> DEFINE o == Other(e)
<1>1. /\ o \in Ends /\ o # e /\ Other(o) = e
      /\ \A f \in Ends : f = e \/ f = o
  BY TwoEnds
<1>2. /\ written[e] \in Nat /\ written[e] < MaxBytes /\ MaxBytes \in Nat
      /\ read[e] \in Nat /\ tx_data[e] \in Buffers
      /\ rx_data[o] \in Buffers /\ ao_tx_packet[e] \in Packets
      /\ Len(tx_data[e]) < MaxLen
  BY <1>1, PacketAssumption DEF LinkInv, PacketTypeOK, ao_packet_putchar
<1>3. /\ written' = [written EXCEPT ![e] = written[e] + 1]
      /\ tx_data' = [tx_data EXCEPT ![e] = Append(tx_data[e], written[e] + 1)]
      /\ UNCHANGED <<ao_tx_packet, rx_data, rx_seq, ao_packet_restart, read>>
  BY <1>2 DEF LinkInv, PacketTypeOK, ao_packet_putchar
<1>4. written[e] + 1 \in Bytes
  BY <1>2 DEF Bytes
<1>5. Append(tx_data[e], written[e] + 1) \in Buffers
  BY <1>2, <1>4, AppendBuffer
<1>6. LinkTypes'
  BY <1>3, <1>5 DEF LinkInv, PacketTypeOK, LinkTypes
<1>7. /\ written'[e] = written[e] + 1 /\ written'[o] = written[o]
      /\ tx_data'[e] = Append(tx_data[e], written[e] + 1)
      /\ tx_data'[o] = tx_data[o]
  BY <1>1, <1>3 DEF LinkInv, PacketTypeOK
<1> HIDE DEF o
<1>8. InOrder(e)'
  <2>1. Ordered(written[e], read[e], tx_data[e], ao_tx_packet[e], rx_data[o],
                Untaken(e))
    BY DEF LinkInv, InOrder, o
  <2>2. Ordered(written[e] + 1, read[e], Append(tx_data[e], written[e] + 1),
                ao_tx_packet[e], rx_data[o], Untaken(e))
    BY <1>2, <1>4, <2>1, WriteOrdered
  <2>3. Untaken(e)' <=> Untaken(e)
    BY <1>3 DEF Untaken
  <2>4. InOrder(e)' <=>
          Ordered(written[e] + 1, read[e], Append(tx_data[e], written[e] + 1),
                  ao_tx_packet[e], rx_data[o], Untaken(e)')
    BY <1>3, <1>7 DEF InOrder, o
  <2> QED
    BY <2>2, <2>3, <2>4 DEF Ordered, Packed
<1>9. InOrder(o)'
  BY <1>1, <1>3, <1>7 DEF LinkInv, InOrder, Untaken
<1> QED
  BY <1>1, <1>2, <1>3, <1>6, <1>7, <1>8, <1>9 DEF LinkInv, LinkOrder

LEMMA PollInv ==
  ASSUME LinkInv, NEW e \in Ends, _ao_packet_pollchar(e)
  PROVE  LinkTypes' /\ LinkOrder' /\ read' \in [Ends -> 0 .. MaxBytes]
<1> DEFINE o == Other(e)
<1>1. /\ o \in Ends /\ o # e /\ Other(o) = e
      /\ \A f \in Ends : f = e \/ f = o
  BY TwoEnds
<1>2. /\ rx_data[e] # <<>> /\ rx_data[e] \in Buffers
      /\ written[o] \in Nat /\ read[o] \in Nat /\ tx_data[o] \in Buffers
      /\ ao_tx_packet[o] \in Packets
  BY <1>1, PacketAssumption DEF LinkInv, PacketTypeOK, _ao_packet_pollchar
<1>3. /\ read' = [read EXCEPT ![o] = Head(rx_data[e])]
      /\ rx_data' = [rx_data EXCEPT ![e] = Tail(rx_data[e])]
      /\ UNCHANGED <<ao_tx_packet, tx_data, rx_seq, ao_packet_restart, written>>
  BY DEF LinkInv, PacketTypeOK, _ao_packet_pollchar
<1>4. Tail(rx_data[e]) \in Buffers /\ Head(rx_data[e]) \in Bytes
  <2>1. /\ Tail(rx_data[e]) \in Buffers /\ Head(rx_data[e]) = rx_data[e][1]
        /\ Len(rx_data[e]) > 0
    BY <1>2, TailBuffer
  <2> QED
    BY <1>2, <2>1, BufferSeq
<1>5. Head(rx_data[e]) \in 0 .. MaxBytes
  BY <1>4, PacketAssumption DEF Bytes
<1>6. LinkTypes' /\ read' \in [Ends -> 0 .. MaxBytes]
  BY <1>1, <1>3, <1>4, <1>5 DEF LinkInv, PacketTypeOK, LinkTypes
<1>7. /\ read'[o] = Head(rx_data[e]) /\ read'[e] = read[e]
      /\ rx_data'[e] = Tail(rx_data[e]) /\ rx_data'[o] = rx_data[o]
  BY <1>1, <1>3 DEF LinkInv, PacketTypeOK
<1> HIDE DEF o
<1>8. InOrder(o)'
  <2>1. Ordered(written[o], read[o], tx_data[o], ao_tx_packet[o], rx_data[e],
                Untaken(o))
    BY <1>1 DEF LinkInv, InOrder
  <2>2. Ordered(written[o], Head(rx_data[e]), tx_data[o], ao_tx_packet[o],
                Tail(rx_data[e]), Untaken(o))
    BY <1>2, <2>1, ReadOrdered
  <2>3. Untaken(o)' <=> Untaken(o)
    BY <1>3 DEF Untaken
  <2>4. InOrder(o)' <=>
          Ordered(written[o], Head(rx_data[e]), tx_data[o], ao_tx_packet[o],
                  Tail(rx_data[e]), Untaken(o)')
    BY <1>1, <1>3, <1>7 DEF InOrder
  <2> QED
    BY <2>2, <2>3, <2>4 DEF Ordered, Packed
<1>9. InOrder(e)'
  BY <1>1, <1>3, <1>7 DEF LinkInv, InOrder, Untaken, o
<1> QED
  BY <1>1, <1>3, <1>6, <1>8, <1>9 DEF LinkInv, LinkOrder

LEMMA OpenInv ==
  ASSUME LinkInv, Open
  PROVE  LinkTypes' /\ LinkOrder'
<1> DEFINE q == ao_tx_packet'["master"]
<1>1. /\ ao_tx_packet["master"] \in Packets /\ <<>> \in Buffers
      /\ tx_data["master"] \in Buffers /\ rx_data["slave"] \in Buffers
      /\ written["master"] \in Nat /\ read["master"] \in Nat
  BY EmptyBuffer, TwoEnds, PacketAssumption DEF LinkInv, PacketTypeOK
<1>2. /\ q = [ao_tx_packet["master"] EXCEPT !.len = "syn", !.d = <<>>]
      /\ ao_tx_packet'["slave"] = ao_tx_packet["slave"]
      /\ tx_data'["master"] = <<>> /\ tx_data'["slave"] = tx_data["slave"]
      /\ UNCHANGED <<rx_data, rx_seq, ao_packet_restart, written, read>>
  BY TwoEnds DEF LinkInv, PacketTypeOK, Open, boundVars, ghostVars
<1>3. q \in Packets /\ q.len = "syn" /\ q.ack = ao_tx_packet["master"].ack
  BY <1>1, <1>2 DEF Packets
<1>4. LinkTypes'
  <2>1. tx_data' \in [Ends -> Buffers]
    BY <1>1 DEF Open, LinkInv, PacketTypeOK
  <2>2. ao_tx_packet' \in [Ends -> Packets]
    <3>1. ao_tx_packet' = [ao_tx_packet EXCEPT ![ "master"] = q]
      BY <1>2, TwoEnds DEF Open, LinkInv, PacketTypeOK
    <3> HIDE DEF q
    <3> QED
      BY <1>3, <3>1, TwoEnds DEF LinkInv, PacketTypeOK
  <2> QED
    BY <1>2, <2>1, <2>2 DEF LinkInv, PacketTypeOK, LinkTypes
<1> HIDE DEF q
<1>5. InOrder("master")'
  <2>1. Ordered(written["master"], read["master"], tx_data["master"],
                ao_tx_packet["master"], rx_data["slave"], Untaken("master"))
    BY TwoEnds DEF LinkInv, InOrder, Other
  <2>2. Ordered(written["master"], read["master"], <<>>, q, rx_data["slave"],
                Untaken("master")')
    BY <1>1, <1>3, <2>1, DropOrdered
  <2> QED
    BY <1>2, <2>2 DEF InOrder, Other, q
<1>6. InOrder("slave")'
  BY <1>2, TwoEnds DEF LinkInv, InOrder, Other, Untaken
<1>7. \A f \in Ends : ao_tx_packet'[f].ack = rx_seq'[f]
  <2>1. ao_tx_packet'["master"].ack = rx_seq'["master"]
    BY <1>2, <1>3, TwoEnds DEF LinkInv, q
  <2>2. ao_tx_packet'["slave"].ack = rx_seq'["slave"]
    BY <1>2, TwoEnds DEF LinkInv
  <2> QED
    BY <2>1, <2>2, TwoEnds
<1>8. ao_packet_restart' => ao_tx_packet'["slave"].len = "syn"
  BY <1>2 DEF LinkInv
<1> QED
  BY <1>4, <1>5, <1>6, <1>7, <1>8, TwoEnds DEF LinkOrder

LEMMA RebootInv ==
  ASSUME LinkInv, NEW e \in Ends, Reboot(e)
  PROVE  LinkTypes' /\ LinkOrder' /\ read' \in [Ends -> 0 .. MaxBytes]
<1> DEFINE o == Other(e)
           r == IF read[o] > MaxLen THEN read[o] - MaxLen ELSE 0
<1>1. /\ o \in Ends /\ o # e /\ Other(o) = e
      /\ \A f \in Ends : f = e \/ f = o
      /\ <<>> \in Buffers
  BY TwoEnds, EmptyBuffer
<1>2. Fresh \in Packets /\ 0 \in Seqs /\ Fresh.len = "syn" /\ Fresh.ack = 0
  BY <1>1, PacketAssumption DEF Fresh, Packets, Seqs
<1>3. /\ \A f \in Ends : written[f] \in Nat /\ read[f] \in Nat
      /\ \A f \in Ends : tx_data[f] \in Buffers /\ rx_data[f] \in Buffers
      /\ \A f \in Ends : ao_tx_packet[f] \in Packets
  BY PacketAssumption DEF LinkInv, PacketTypeOK
<1>4. r \in 0 .. MaxBytes
  BY <1>1, PacketAssumption DEF LinkInv, PacketTypeOK
<1>5. /\ ao_tx_packet' = [ao_tx_packet EXCEPT ![e] = Fresh]
      /\ tx_data' = [tx_data EXCEPT ![e] = <<>>]
      /\ rx_data' = [rx_data EXCEPT ![e] = <<>>]
      /\ rx_seq' = [rx_seq EXCEPT ![e] = 0]
      /\ ao_packet_restart' = (ao_packet_restart \/ e = "slave")
      /\ read' = [read EXCEPT ![o] = r]
      /\ written' = written
  BY <1>1 DEF Reboot, LinkInv, PacketTypeOK
<1> HIDE DEF r, o
<1>6. LinkTypes' /\ read' \in [Ends -> 0 .. MaxBytes]
  BY <1>1, <1>2, <1>4, <1>5 DEF LinkInv, PacketTypeOK, LinkTypes
<1>7. /\ ao_tx_packet'[e] = Fresh /\ ao_tx_packet'[o] = ao_tx_packet[o]
      /\ tx_data'[e] = <<>> /\ tx_data'[o] = tx_data[o]
      /\ rx_data'[e] = <<>> /\ rx_data'[o] = rx_data[o]
      /\ rx_seq'[e] = 0 /\ rx_seq'[o] = rx_seq[o]
      /\ read'[o] = r /\ read'[e] = read[e]
  BY <1>1, <1>5 DEF LinkInv, PacketTypeOK
<1>8. InOrder(e)'
  <2>1. Ordered(written[e], read[e], tx_data[e], ao_tx_packet[e], rx_data[o],
                Untaken(e))
    BY DEF LinkInv, InOrder, o
  <2>2. Ordered(written[e], read[e], <<>>, Fresh, rx_data[o], Untaken(e)')
    BY <1>1, <1>2, <1>3, <2>1, DropOrdered
  <2> QED
    BY <1>5, <1>7, <2>2 DEF InOrder, o
<1>9. InOrder(o)'
  <2>1. Ordered(written[o], read[o], tx_data[o], ao_tx_packet[o], rx_data[e],
                Untaken(o))
    BY <1>1 DEF LinkInv, InOrder
  <2>2. Ordered(written[o], r, tx_data[o], ao_tx_packet[o], <<>>, TRUE)
    BY <1>1, <1>3, <2>1, ForgetOrdered DEF r
  <2>3. Ordered(written[o], r, tx_data[o], ao_tx_packet[o], <<>>, Untaken(o)')
    BY <2>2 DEF Ordered, Packed
  <2> QED
    BY <1>1, <1>5, <1>7, <2>3 DEF InOrder
<1>10. \A f \in Ends : ao_tx_packet'[f].ack = rx_seq'[f]
  BY <1>1, <1>2, <1>7 DEF LinkInv
<1>11. ao_packet_restart' => ao_tx_packet'["slave"].len = "syn"
  <2>1. CASE e = "slave"
    BY <1>2, <1>7, <2>1
  <2>2. CASE e # "slave"
    <3>1. o = "slave" /\ (ao_packet_restart' => ao_packet_restart)
      BY <1>1, <1>5, <2>2, TwoEnds
    <3> QED
      BY <1>7, <3>1 DEF LinkInv
  <2> QED
    BY <2>1, <2>2
<1> QED
  BY <1>1, <1>6, <1>8, <1>9, <1>10, <1>11 DEF LinkOrder

-----------------------------------------------------------------------------
(* What the radio's steps have in common.                                  *)
LEMMA RadioCases ==
  ASSUME RadioStep
  PROVE  \/ \E e \in Ends : ao_packet_send(e) /\ (Delivers(e) \/ SentInVain(e))
         \/ MasterWakes
BY TwoEnds DEF RadioStep, MasterSends, MasterSendsInVain, SlaveSends,
               SlaveSendsInVain, Delivers, Other

LEMMA RestTypes ==
  ASSUME LinkInv, PacketNext
  PROVE  /\ ao_packet_enable' \in BOOLEAN
         /\ task' \in [Ends -> {"send", "receive", "sleep", "off"}]
         /\ closed' \in Nat /\ reboots' \in [Ends -> Nat]
<1> USE TwoEnds DEF LinkInv, PacketTypeOK
<1>1. CASE RadioStep
  BY <1>1 DEF RadioStep, MasterSends, MasterSendsInVain, SlaveSends,
              SlaveSendsInVain, MasterWakes, ao_packet_send, boundVars
<1>2. CASE \E e \in Ends : ao_packet_putchar(e) \/ _ao_packet_pollchar(e)
  BY <1>2 DEF ao_packet_putchar, _ao_packet_pollchar, boundVars
<1>3. CASE Close \/ MasterEnds \/ Open
  <2>1. CASE Close
    <3>1. /\ closed \in Nat /\ closed' = closed + 1
          /\ ao_packet_enable' = FALSE /\ task' = task /\ reboots' = reboots
      BY <2>1 DEF Close
    <3>2. closed' \in Nat
      BY <3>1, SMT
    <3> QED
      BY <3>1, <3>2
  <2>2. CASE MasterEnds
    BY <2>2 DEF MasterEnds, boundVars
  <2>3. CASE Open
    BY <2>3 DEF Open, boundVars
  <2> QED
    BY <1>3, <2>1, <2>2, <2>3
<1>4. CASE \E e \in Ends : Reboot(e)
  <2>1. PICK e \in Ends : Reboot(e)
    BY <1>4
  <2>2. /\ ao_packet_enable' = (ao_packet_enable \/ e = "master")
        /\ task' = [task EXCEPT ![e] = IF e = "master" THEN "send"
                                       ELSE "receive"]
        /\ closed' = closed /\ reboots' = [reboots EXCEPT ![e] = @ + 1]
    BY <2>1 DEF Reboot
  <2> QED
    BY <2>2
<1> QED
  BY <1>1, <1>2, <1>3, <1>4 DEF PacketNext, UserStep

LEMMA LinkNext == LinkInv /\ [PacketNext]_packetVars => LinkInv'
<1> SUFFICES ASSUME LinkInv, [PacketNext]_packetVars PROVE LinkInv'
  OBVIOUS
<1>1. CASE UNCHANGED packetVars
  BY <1>1 DEF packetVars, linkVars, boundVars, ghostVars, LinkInv,
              PacketTypeOK, InOrder, Untaken
<1>2. CASE PacketNext
  <2>1. SUFFICES /\ LinkTypes' /\ LinkOrder'
                 /\ written' \in [Ends -> 0 .. MaxBytes]
                 /\ read' \in [Ends -> 0 .. MaxBytes]
    BY <1>2, RestTypes DEF LinkTypes, LinkOrder, LinkInv, PacketTypeOK
  <2>2. /\ written \in [Ends -> 0 .. MaxBytes]
        /\ read \in [Ends -> 0 .. MaxBytes]
        /\ LinkTypes /\ LinkOrder
    BY DEF LinkInv, PacketTypeOK, LinkTypes, LinkOrder
  <2>3. ASSUME NEW e \in Ends, ao_packet_send(e), Delivers(e) \/ SentInVain(e)
        PROVE  /\ LinkTypes' /\ LinkOrder'
               /\ written' = written /\ read' = read
    BY <2>3, DeliversInv, VainInv DEF ao_packet_send
  <2>4. ASSUME UNCHANGED <<ao_tx_packet, tx_data, rx_data, rx_seq,
                           ao_packet_restart, ghostVars>>
        PROVE  /\ LinkTypes' /\ LinkOrder'
               /\ written' = written /\ read' = read
    BY <2>2, <2>4 DEF LinkTypes, LinkOrder, InOrder, Untaken, ghostVars
  <2>5. CASE RadioStep
    <3>1. CASE MasterWakes
      BY <2>2, <2>4, <3>1 DEF MasterWakes
    <3>2. CASE \E e \in Ends :
                 ao_packet_send(e) /\ (Delivers(e) \/ SentInVain(e))
      BY <2>2, <2>3, <3>2
    <3> QED
      BY <2>5, <3>1, <3>2, RadioCases
  <2>6. ASSUME NEW e \in Ends, ao_packet_putchar(e)
        PROVE  /\ LinkTypes' /\ LinkOrder' /\ read' = read
               /\ written' \in [Ends -> 0 .. MaxBytes]
    <3>1. written' = [written EXCEPT ![e] = @ + 1] /\ read' = read
      BY <2>6 DEF ao_packet_putchar
    <3>2. LinkTypes' /\ LinkOrder' /\ written'[e] \in 0 .. MaxBytes
      BY <2>6, PutInv
    <3> QED
      BY <2>2, <3>1, <3>2
  <2>7. ASSUME NEW e \in Ends, _ao_packet_pollchar(e) \/ Reboot(e)
        PROVE  /\ LinkTypes' /\ LinkOrder' /\ written' = written
               /\ read' \in [Ends -> 0 .. MaxBytes]
    BY <2>7, PollInv, RebootInv DEF _ao_packet_pollchar, Reboot
  <2>8. CASE Open
    BY <2>2, <2>8, OpenInv DEF Open, ghostVars
  <2>9. CASE Close \/ MasterEnds
    BY <2>2, <2>4, <2>9 DEF Close, MasterEnds
  <2> QED
    BY <1>2, <2>2, <2>5, <2>6, <2>7, <2>8, <2>9 DEF PacketNext, UserStep
<1> QED
  BY <1>1, <1>2

LEMMA LinkStarts == PacketInit => LinkInv
<1> SUFFICES ASSUME PacketInit PROVE LinkInv
  OBVIOUS
<1>1. Fresh \in Packets /\ 0 \in Seqs /\ Fresh.len = "syn" /\ Fresh.ack = 0
  BY EmptyBuffer, PacketAssumption DEF Fresh, Packets, Seqs
<1>2. PacketTypeOK
  BY <1>1, EmptyBuffer, PacketAssumption, TwoEnds DEF PacketInit, PacketTypeOK
<1>3. ASSUME NEW e \in Ends
      PROVE  InOrder(e) /\ ao_tx_packet[e].ack = rx_seq[e]
  <2>1. /\ ao_tx_packet[e] = Fresh /\ rx_seq[e] = 0
        /\ written[e] = 0 /\ read[e] = 0
        /\ tx_data[e] = <<>> /\ rx_data[Other(e)] = <<>>
    BY TwoEnds DEF PacketInit
  <2>2. Ordered(0, 0, <<>>, Fresh, <<>>, Untaken(e))
    BY <1>1, EmptyRun DEF Ordered
  <2> QED
    BY <1>1, <2>1, <2>2 DEF InOrder
<1>4. ao_tx_packet["slave"].len = "syn"
  BY <1>1, TwoEnds DEF PacketInit
<1> QED
  BY <1>2, <1>3, <1>4 DEF LinkInv

LEMMA LinkInvariant == PacketSpec => []LinkInv
BY LinkStarts, LinkNext, PTL DEF PacketSpec

(* The link's state keeps its types; no buffer and no packet grows past    *)
(* AO_PACKET_MAX.                                                          *)
THEOREM PacketTypes == PacketSpec => []PacketTypeOK
<1>1. LinkInv => PacketTypeOK
  BY DEF LinkInv
<1> QED
  BY <1>1, LinkInvariant, PTL

-----------------------------------------------------------------------------
(* The refinement.                                                         *)
LEMMA PendingParts ==
  ASSUME NEW e \in Ends
  PROVE  Pending[e] = Range(rx_data[Other(e)]) \cup InFlight(e)
                        \cup Range(tx_data[e])
BY DEF Pending

LEMMA InFlightParts ==
  ASSUME NEW e \in Ends
  PROVE  InFlight(e) = IF ao_tx_packet[e].len = "data" /\ Untaken(e)
                       THEN Range(ao_tx_packet[e].d) ELSE {}
BY DEF InFlight, Untaken

(* The same of the next state.                                             *)
LEMMA PendingNext ==
  ASSUME NEW e \in Ends
  PROVE  /\ Pending'[e] = Range(rx_data'[Other(e)]) \cup InFlight(e)'
                            \cup Range(tx_data'[e])
         /\ InFlight(e)' = IF ao_tx_packet'[e].len = "data" /\ Untaken(e)'
                           THEN Range(ao_tx_packet'[e].d) ELSE {}
BY DEF Pending, InFlight, Untaken

LEMMA DeliversPending ==
  ASSUME LinkInv, NEW e \in Ends, Delivers(e)
  PROVE  /\ \A f \in Ends : Pending'[f] \subseteq Pending[f]
         /\ InStep => InStep' /\ \A f \in Ends : Pending'[f] = Pending[f]
<1> DEFINE o == Other(e)
           p == Sent(e)
           q == Answer(o, p)
<1>1. /\ o \in Ends /\ o # e /\ Other(o) = e /\ p \in Packets
      /\ \A f \in Ends : f = e \/ f = o
      /\ o = "slave" <=> e = "master"
      /\ rx_seq[e] \in Seqs /\ rx_seq[o] \in Seqs
      /\ ao_tx_packet[e] \in Packets
      /\ ao_tx_packet[e].ack = rx_seq[e]
      /\ ao_packet_restart => ao_tx_packet["slave"].len = "syn"
      /\ Range(<<>>) = {}
  BY TwoEnds, SentPacket, EmptyBuffer DEF LinkInv, PacketTypeOK
<1>2. /\ ao_tx_packet'[e] = p /\ ao_tx_packet'[o] = q
      /\ tx_data'[e] = IF Fills(e) THEN <<>> ELSE tx_data[e]
      /\ tx_data'[o] = tx_data[o] /\ rx_data'[e] = rx_data[e]
      /\ rx_data'[o] = IF Takes(o, p) THEN p.d ELSE rx_data[o]
      /\ rx_seq'[e] = rx_seq[e]
      /\ rx_seq'[o] = IF p.len = "syn" \/ Takes(o, p) THEN p.seq ELSE rx_seq[o]
      /\ ao_packet_restart' = (ao_packet_restart /\ o # "slave")
  BY DeliversState
<1>3. /\ p.ack = rx_seq[e]
      /\ ~Fills(e) => p = ao_tx_packet[e]
      /\ Fills(e) => /\ p.len = "data" /\ p.d = tx_data[e]
                     /\ p.seq = (ao_tx_packet[e].seq + 1) % SeqMod
  BY <1>1, SentPacket DEF LinkInv
<1>4. /\ q.len \in {"none", ao_tx_packet[o].len}
      /\ q.len # "none" => p.len # "syn" /\ q.d = ao_tx_packet[o].d
      /\ p.len # "syn" =>
           /\ q.seq = ao_tx_packet[o].seq
           /\ p.ack # ao_tx_packet[o].seq => q.len = ao_tx_packet[o].len
  BY <1>1, AnswerPacket DEF LinkInv
<1>5. Fills(e) => ao_tx_packet[e].len = "none"
  BY DEF Fills
<1>6. Takes(o, p) => /\ p.len = "data" /\ rx_data[o] = <<>>
                     /\ \/ p.seq = (rx_seq[o] + 1) % SeqMod
                        \/ o = "slave" /\ ao_packet_restart
  BY DEF Takes, IsNext
<1>7. /\ Untaken(e) <=> \/ rx_seq[o] # ao_tx_packet[e].seq
                        \/ e = "master" /\ ao_packet_restart
      /\ Untaken(e)' <=> \/ rx_seq'[o] # p.seq
                         \/ e = "master" /\ ao_packet_restart'
      /\ Untaken(o) <=> \/ rx_seq[e] # ao_tx_packet[o].seq
                        \/ o = "master" /\ ao_packet_restart
      /\ Untaken(o)' <=> \/ rx_seq'[e] # q.seq
                         \/ o = "master" /\ ao_packet_restart'
  BY <1>1, <1>2 DEF Untaken
<1>8. /\ InFlight(e) = IF ao_tx_packet[e].len = "data" /\ Untaken(e)
                       THEN Range(ao_tx_packet[e].d) ELSE {}
      /\ InFlight(o) = IF ao_tx_packet[o].len = "data" /\ Untaken(o)
                       THEN Range(ao_tx_packet[o].d) ELSE {}
      /\ InFlight(e)' = IF p.len = "data" /\ Untaken(e)'
                        THEN Range(p.d) ELSE {}
      /\ InFlight(o)' = IF q.len = "data" /\ Untaken(o)'
                        THEN Range(q.d) ELSE {}
  BY <1>1, <1>2, InFlightParts, PendingNext
<1>9. /\ Pending[e] = Range(rx_data[o]) \cup InFlight(e) \cup Range(tx_data[e])
      /\ Pending[o] = Range(rx_data[e]) \cup InFlight(o) \cup Range(tx_data[o])
      /\ Pending'[e] = Range(rx_data'[o]) \cup InFlight(e)'
                         \cup Range(tx_data'[e])
      /\ Pending'[o] = Range(rx_data'[e]) \cup InFlight(o)'
                         \cup Range(tx_data'[o])
  BY <1>1, PendingParts, PendingNext
<1>10. InStep =>
         /\ ~ao_packet_restart
         /\ ao_tx_packet[e].len # "syn" /\ ao_tx_packet[o].len # "syn"
         /\ \/ rx_seq[o] = ao_tx_packet[e].seq
            \/ /\ ao_tx_packet[e].len = "data"
               /\ (rx_seq[o] + 1) % SeqMod = ao_tx_packet[e].seq
         /\ \/ rx_seq[e] = ao_tx_packet[o].seq
            \/ /\ ao_tx_packet[o].len = "data"
               /\ (rx_seq[e] + 1) % SeqMod = ao_tx_packet[o].seq
  BY <1>1, TwoEnds DEF InStep
<1>11. /\ \A n \in Seqs : (n + 1) % SeqMod # n
       /\ p.seq \in Seqs /\ ao_tx_packet[e].seq \in Seqs
  BY <1>1, NextSeq DEF Packets
<1> HIDE DEF o, p, q
<1>12. Pending'[e] \subseteq Pending[e] /\ (InStep => Pending'[e] = Pending[e])
  <2>1. CASE Takes(o, p)
    <3>1. InFlight(e)' = {}
      BY <1>1, <1>2, <1>7, <1>8, <2>1
    <3>2. Pending'[e] = Range(p.d) \cup Range(tx_data'[e])
      BY <1>2, <1>9, <2>1, <3>1
    <3>3. CASE Fills(e)
      BY <1>1, <1>2, <1>3, <1>5, <1>6, <1>8, <1>9, <2>1, <3>2, <3>3
    <3>4. CASE ~Fills(e)
      <4>1. InFlight(e) = Range(p.d)
        BY <1>1, <1>3, <1>6, <1>7, <1>8, <1>11, <2>1, <3>4
      <4> QED
        BY <1>1, <1>2, <1>6, <1>9, <2>1, <3>2, <3>4, <4>1
    <3> QED
      BY <3>3, <3>4
  <2>2. CASE ~Takes(o, p)
    <3>1. rx_data'[o] = rx_data[o]
      BY <1>2, <2>2
    <3>2. CASE Fills(e)
      <4>1. InFlight(e)' \subseteq Range(tx_data[e]) /\ InFlight(e) = {}
        BY <1>3, <1>5, <1>8, <3>2
      <4>2. InStep => InFlight(e)' = Range(tx_data[e])
        BY <1>2, <1>3, <1>5, <1>7, <1>8, <1>10, <1>11, <2>2, <3>2
      <4> QED
        BY <1>1, <1>2, <1>9, <3>1, <3>2, <4>1, <4>2
    <3>3. CASE ~Fills(e)
      <4>1. /\ InFlight(e)' \subseteq InFlight(e)
            /\ InStep => InFlight(e)' = InFlight(e)
        BY <1>2, <1>3, <1>7, <1>8, <1>10, <2>2, <3>3
      <4> QED
        BY <1>2, <1>9, <3>1, <3>3, <4>1
    <3> QED
      BY <3>2, <3>3
  <2> QED
    BY <2>1, <2>2
<1>13. Pending'[o] \subseteq Pending[o] /\ (InStep => Pending'[o] = Pending[o])
  <2>1. InFlight(o)' \subseteq InFlight(o)
    BY <1>2, <1>4, <1>7, <1>8
  <2>2. InStep => InFlight(o)' = InFlight(o)
    <3>1. SUFFICES ASSUME InStep PROVE InFlight(o)' = InFlight(o)
      OBVIOUS
    <3>2. p.len # "syn" /\ ~ao_packet_restart
      BY <1>3, <1>10, <3>1
    <3> QED
      BY <1>2, <1>3, <1>4, <1>7, <1>8, <3>2
  <2> QED
    BY <1>2, <1>9, <2>1, <2>2
<1>14. InStep => InStep'
  <2>1. SUFFICES ASSUME InStep PROVE InStep'
    OBVIOUS
  <2>2. p.len # "syn" /\ q.len # "syn"
    BY <1>3, <1>4, <1>10, <2>1
  <2>3. \/ rx_seq'[o] = p.seq
        \/ p.len = "data" /\ (rx_seq'[o] + 1) % SeqMod = p.seq
    BY <1>2, <1>3, <1>5, <1>10, <2>1, <2>2
  <2>4. \/ rx_seq'[e] = q.seq
        \/ q.len = "data" /\ (rx_seq'[e] + 1) % SeqMod = q.seq
    BY <1>2, <1>3, <1>4, <1>10, <2>1, <2>2
  <2>5. InStep' <=>
          \A f \in Ends :
            /\ ao_tx_packet'[f].len # "syn"
            /\ \/ rx_seq'[Other(f)] = ao_tx_packet'[f].seq
               \/ /\ ao_tx_packet'[f].len = "data"
                  /\ (rx_seq'[Other(f)] + 1) % SeqMod = ao_tx_packet'[f].seq
    BY DEF InStep
  <2> QED
    BY <1>1, <1>2, <2>2, <2>3, <2>4, <2>5 DEF o
<1> QED
  BY <1>1, <1>12, <1>13, <1>14

LEMMA VainPending ==
  ASSUME LinkInv, NEW e \in Ends, ao_packet_send(e), SentInVain(e)
  PROVE  /\ \A f \in Ends : Pending'[f] \subseteq Pending[f]
         /\ InStep => InStep' /\ \A f \in Ends : Pending'[f] = Pending[f]
<1> DEFINE o == Other(e)
           p == Sent(e)
<1>1. /\ o \in Ends /\ o # e /\ Other(o) = e /\ p \in Packets
      /\ \A f \in Ends : f = e \/ f = o
      /\ rx_seq[o] \in Seqs /\ ao_tx_packet[e] \in Packets
      /\ Range(<<>>) = {}
  BY TwoEnds, SentPacket, EmptyBuffer DEF LinkInv, PacketTypeOK
<1>2. /\ ~Fills(e) => p = ao_tx_packet[e]
      /\ Fills(e) => /\ p.len = "data" /\ p.d = tx_data[e]
                     /\ p.seq = (ao_tx_packet[e].seq + 1) % SeqMod
                     /\ ao_tx_packet[e].len = "none"
  BY SentPacket DEF LinkInv, Fills
<1> HIDE DEF o, p
<1>3. /\ ao_tx_packet'[e] = p /\ ao_tx_packet'[o] = ao_tx_packet[o]
      /\ rx_data' = rx_data /\ rx_seq' = rx_seq
      /\ ao_packet_restart' = ao_packet_restart
      /\ tx_data'[o] = tx_data[o]
      /\ tx_data'[e] = IF Fills(e) THEN <<>> ELSE tx_data[e]
  BY <1>1 DEF SentInVain, ao_packet_send, LinkInv, PacketTypeOK, p
<1>4. Untaken(e)' <=> \/ rx_seq[o] # p.seq
                      \/ e = "master" /\ ao_packet_restart
  BY <1>3 DEF Untaken, o
<1>5. Pending'[o] = Pending[o]
  <2>1. InFlight(o)' = InFlight(o)
    BY <1>1, <1>3 DEF InFlight
  <2> QED
    BY <1>1, <1>3, <2>1, PendingParts, PendingNext
<1>6. /\ Pending[e] = Range(rx_data[o]) \cup InFlight(e) \cup Range(tx_data[e])
      /\ Pending'[e] = Range(rx_data[o]) \cup InFlight(e)'
                         \cup Range(tx_data'[e])
      /\ InFlight(e)' = IF p.len = "data" /\ Untaken(e)'
                        THEN Range(p.d) ELSE {}
      /\ InFlight(e) = IF ao_tx_packet[e].len = "data" /\ Untaken(e)
                       THEN Range(ao_tx_packet[e].d) ELSE {}
  BY <1>3, PendingParts, PendingNext, InFlightParts DEF o
<1>7. CASE Fills(e)
  <2>1. Pending'[e] \subseteq Pending[e]
    BY <1>1, <1>2, <1>3, <1>6, <1>7
  <2>2. ASSUME InStep PROVE InStep' /\ Pending'[e] = Pending[e]
    <3>1. rx_seq[o] = ao_tx_packet[e].seq
      BY <1>2, <1>7, <2>2 DEF InStep, o
    <3>2. ao_tx_packet[e].seq \in Seqs /\ p.seq # rx_seq[o]
      BY <1>1, <1>2, <1>7, <3>1, NextSeq DEF Packets
    <3>3. InStep'
      BY <1>1, <1>2, <1>3, <1>7, <2>2, <3>1 DEF InStep, o
    <3> QED
      BY <1>1, <1>2, <1>3, <1>4, <1>6, <1>7, <3>2, <3>3
  <2> QED
    BY <1>1, <1>5, <2>1, <2>2
<1>8. CASE ~Fills(e)
  <2>1. Untaken(e)' <=> Untaken(e)
    BY <1>2, <1>4, <1>8 DEF Untaken, o
  <2>2. Pending'[e] = Pending[e]
    BY <1>2, <1>3, <1>6, <1>8, <2>1
  <2>3. InStep => InStep'
    BY <1>1, <1>2, <1>3, <1>8 DEF InStep, o
  <2> QED
    BY <1>1, <1>5, <2>2, <2>3
<1> QED
  BY <1>7, <1>8

(* The bytes under way in the direction of e, the first of them the next   *)
(* that is read.                                                           *)
LEMMA PendingBounds ==
  ASSUME LinkInv, NEW e \in Ends
  PROVE  \A n \in Pending[e] : n \in Nat /\ n > read[e] /\ n <= written[e]
<1> DEFINE b == rx_data[Other(e)]
           t == tx_data[e]
           p == ao_tx_packet[e]
           w == written[e]
<1>1. /\ b \in Buffers /\ t \in Buffers /\ p.d \in Buffers
      /\ w \in Nat /\ read[e] \in Nat
  BY TwoEnds, PacketAssumption DEF LinkInv, PacketTypeOK, Packets
<1>2. /\ Pending[e] = Range(b) \cup InFlight(e) \cup Range(t)
      /\ InFlight(e) = IF p.len = "data" /\ Untaken(e) THEN Range(p.d) ELSE {}
      /\ Ordered(w, read[e], t, p, b, Untaken(e))
  BY PendingParts, InFlightParts DEF LinkInv, InOrder
<1> HIDE DEF b, t, p, w
<1>3. /\ Len(t) \in Nat /\ Len(b) \in Nat /\ Len(p.d) \in Nat
      /\ Range(t) = {t[i] : i \in 1 .. Len(t)}
      /\ Range(b) = {b[i] : i \in 1 .. Len(b)}
      /\ Range(p.d) = {p.d[i] : i \in 1 .. Len(p.d)}
      /\ \A i \in 1 .. Len(t) : t[i] \in Nat
      /\ \A i \in 1 .. Len(b) : b[i] \in Nat
      /\ \A i \in 1 .. Len(p.d) : p.d[i] \in Nat
  BY <1>1, BufferSeq DEF Range
<1>4. \A i \in 1 .. Len(t) : t[i] > read[e] /\ t[i] <= w
  <2> SUFFICES ASSUME NEW i \in 1 .. Len(t) PROVE t[i] > read[e] /\ t[i] <= w
    OBVIOUS
  <2>1. t[i] = w - Len(t) + i /\ read[e] <= w - Len(t)
    BY <1>2 DEF Ordered
  <2> QED
    BY <1>1, <1>3, <2>1
<1>5. \A i \in 1 .. Len(b) : b[i] > read[e] /\ b[i] <= w
  <2> SUFFICES ASSUME NEW i \in 1 .. Len(b) PROVE b[i] > read[e] /\ b[i] <= w
    OBVIOUS
  <2>1. b[i] > read[e] /\ b[i] <= w - Len(t)
    BY <1>2 DEF Ordered
  <2> QED
    BY <1>1, <1>3, <2>1
<1>6. ASSUME p.len = "data", Untaken(e), NEW i \in 1 .. Len(p.d)
      PROVE  p.d[i] > read[e] /\ p.d[i] <= w
  <2>1. Packed(w - Len(t), read[e], p.d, b, Untaken(e))
    BY <1>2, <1>6 DEF Ordered
  <2>2. p.d[i] > read[e] /\ p.d[Len(p.d)] <= w - Len(t) /\ Len(p.d) > 0
    BY <1>6, <2>1 DEF Packed
  <2>3. p.d[i] <= p.d[Len(p.d)]
    BY <1>1, <2>1, RunBounds DEF Packed
  <2>4. p.d[Len(p.d)] \in Nat
    BY <1>3, <2>2
  <2> QED
    BY <1>1, <1>3, <2>2, <2>3, <2>4
<1>7. ASSUME NEW n \in Pending[e]
      PROVE  n \in Nat /\ n > read[e] /\ n <= w
  <2>1. CASE n \in Range(b)
    BY <1>3, <1>5, <2>1
  <2>2. CASE n \in Range(t)
    BY <1>3, <1>4, <2>2
  <2>3. CASE n \in InFlight(e)
    BY <1>2, <1>3, <1>6, <2>3
  <2> QED
    BY <1>2, <1>7, <2>1, <2>2, <2>3
<1> QED
  BY <1>7 DEF w

Bounds ==
  \A e \in Ends : \A n \in Pending[e] :
    n \in Nat /\ n > read[e] /\ n <= written[e]

LEMMA AllBounds == LinkInv => Bounds
BY PendingBounds DEF Bounds

LEMMA HeadFirst ==
  ASSUME LinkInv, NEW e \in Ends, rx_data[Other(e)] # <<>>
  PROVE  LET n == Head(rx_data[Other(e)])
             after == Range(Tail(rx_data[Other(e)])) \cup InFlight(e)
                        \cup Range(tx_data[e])
         IN /\ n \in Pending[e] /\ n > read[e]
            /\ \A m \in Pending[e] : n <= m
            /\ after = Pending[e] \ {n}
<1> DEFINE b == rx_data[Other(e)]
           t == tx_data[e]
           p == ao_tx_packet[e]
           w == written[e]
<1>1. /\ b \in Buffers /\ t \in Buffers /\ p.d \in Buffers
      /\ w \in Nat /\ read[e] \in Nat
  BY TwoEnds, PacketAssumption DEF LinkInv, PacketTypeOK, Packets
<1>2. /\ Pending[e] = Range(b) \cup InFlight(e) \cup Range(t)
      /\ InFlight(e) = IF p.len = "data" /\ Untaken(e) THEN Range(p.d) ELSE {}
      /\ Ordered(w, read[e], t, p, b, Untaken(e))
  BY PendingParts, InFlightParts DEF LinkInv, InOrder
<1> HIDE DEF t, p, w
<1>3. /\ Len(t) \in Nat /\ Len(b) \in Nat /\ Len(p.d) \in Nat
      /\ Range(t) = {t[i] : i \in 1 .. Len(t)}
      /\ Range(b) = {b[i] : i \in 1 .. Len(b)}
      /\ Range(p.d) = {p.d[i] : i \in 1 .. Len(p.d)}
      /\ \A i \in 1 .. Len(t) : t[i] \in Nat
      /\ \A i \in 1 .. Len(b) : b[i] \in Nat
      /\ \A i \in 1 .. Len(p.d) : p.d[i] \in Nat
  BY <1>1, BufferSeq DEF Range
<1>4. /\ Head(b) = b[1] /\ Len(b) > 0
      /\ Range(Tail(b)) = {b[i] : i \in 2 .. Len(b)}
  BY <1>1, TailBuffer
<1> HIDE DEF b
<1>5. b[1] \in Nat /\ b[1] > read[e] /\ b[1] <= w - Len(t)
  BY <1>2, <1>3, <1>4 DEF Ordered
<1>6. \A i \in 2 .. Len(b) : b[i] > b[1]
  <2> SUFFICES ASSUME NEW i \in 2 .. Len(b) PROVE b[i] > b[1]
    OBVIOUS
  <2>1. b[i] = b[1] + i - 1
    BY <1>2, <1>3 DEF Ordered, Run
  <2> QED
    BY <1>5, <2>1
<1>7. \A i \in 1 .. Len(t) : t[i] > b[1]
  <2> SUFFICES ASSUME NEW i \in 1 .. Len(t) PROVE t[i] > b[1]
    OBVIOUS
  <2>1. t[i] = w - Len(t) + i
    BY <1>2 DEF Ordered
  <2> QED
    BY <1>1, <1>3, <1>5, <2>1
<1>8. ASSUME p.len = "data", Untaken(e), NEW i \in 1 .. Len(p.d)
      PROVE  p.d[i] > b[1]
  <2>1. Packed(w - Len(t), read[e], p.d, b, Untaken(e))
    BY <1>2, <1>8 DEF Ordered
  <2> QED
    BY <1>3, <1>4, <1>8, <2>1 DEF Packed
<1>9. \A m \in Range(Tail(b)) \cup InFlight(e) \cup Range(t) :
         m \in Nat /\ m > b[1]
  BY <1>2, <1>3, <1>4, <1>6, <1>7, <1>8
<1>10. Range(b) = {b[1]} \cup Range(Tail(b))
  <2>1. \A i \in 1 .. Len(b) : i = 1 \/ i \in 2 .. Len(b)
    BY <1>3
  <2>2. 1 \in 1 .. Len(b) /\ \A i \in 2 .. Len(b) : i \in 1 .. Len(b)
    BY <1>3, <1>4
  <2> QED
    BY <1>3, <1>4, <2>1, <2>2
<1>11. b[1] \notin Range(Tail(b)) \cup InFlight(e) \cup Range(t)
  BY <1>5, <1>9
<1>12. \A m \in Pending[e] : b[1] <= m
  BY <1>2, <1>5, <1>9, <1>10
<1>13. Range(Tail(b)) \cup InFlight(e) \cup Range(t) = Pending[e] \ {b[1]}
  BY <1>2, <1>10, <1>11
<1> QED
  BY <1>2, <1>4, <1>5, <1>10, <1>12, <1>13 DEF b, t

LEMMA StreamEnds == \A e \in Ends : Stream!Other(e) = Other(e)
BY TwoEnds DEF Stream!Other

(* Losing bytes while the link is not set up.                              *)
LEMMA LossStep ==
  ASSUME LinkInv, written' = written, read' = read,
         \A f \in Ends : Pending'[f] \subseteq Pending[f],
         InStep => InStep' /\ \A f \in Ends : Pending'[f] = Pending[f]
  PROVE  [Stream!StreamNext]_(Stream!streamVars)
<1>1. /\ Pending = [f \in Ends |-> Pending[f]] /\ DOMAIN Pending' = Ends
      /\ Pending' = [f \in Ends |-> Pending'[f]]
  BY DEF Pending
<1>2. InStep \in BOOLEAN /\ InStep' \in BOOLEAN
  BY DEF InStep
<1>3. CASE InStep
  <2>1. Pending' = Pending /\ InStep' = InStep
    BY <1>1, <1>3
  <2> QED
    BY <2>1 DEF Stream!streamVars
<1>4. CASE ~InStep
  <2>1. Stream!SetUp
    BY <1>1, <1>2, <1>4 DEF Stream!SetUp
  <2> QED
    BY <2>1, Zenon DEF Stream!StreamNext
<1> QED
  BY <1>3, <1>4

LEMMA WriteStep ==
  ASSUME LinkInv, NEW e \in Ends, ao_packet_putchar(e)
  PROVE  Stream!Put(e)
<1>1. /\ written[e] < MaxBytes /\ written[e] \in Nat
      /\ MaxBytes \in Nat
      /\ written' = [written EXCEPT ![e] = @ + 1] /\ written'[e] = written[e] + 1
      /\ tx_data[e] \in Buffers /\ Len(tx_data[e]) < MaxLen
      /\ tx_data' = [tx_data EXCEPT ![e] = Append(@, written'[e])]
      /\ UNCHANGED <<ao_tx_packet, rx_data, rx_seq, ao_packet_restart, read>>
  BY PacketAssumption DEF LinkInv, PacketTypeOK, ao_packet_putchar
<1>2. /\ tx_data'[e] = Append(tx_data[e], written'[e])
      /\ \A f \in Ends \ {e} : tx_data'[f] = tx_data[f]
  BY <1>1 DEF LinkInv, PacketTypeOK
<1>3. Range(tx_data'[e]) = Range(tx_data[e]) \cup {written'[e]}
  <2>1. written'[e] \in Bytes
    BY <1>1 DEF Bytes
  <2> QED
    BY <1>1, <1>2, <2>1, AppendBuffer
<1>4. \A f \in Ends : InFlight(f)' = InFlight(f)
  BY <1>1 DEF InFlight
<1>5. Pending' = [Pending EXCEPT ![e] = @ \cup {written'[e]}]
  <2>1. \A f \in Ends : Pending'[f] = IF f = e THEN Pending[f] \cup {written'[e]}
                                      ELSE Pending[f]
    BY <1>1, <1>2, <1>3, <1>4, PendingParts, PendingNext
  <2>2. DOMAIN Pending' = Ends /\ DOMAIN Pending = Ends
        /\ Pending' = [f \in Ends |-> Pending'[f]]
        /\ Pending = [f \in Ends |-> Pending[f]]
    BY DEF Pending
  <2> QED
    BY <2>1, <2>2
<1>6. InStep' = InStep
  BY <1>1 DEF InStep
<1> QED
  BY <1>1, <1>5, <1>6 DEF Stream!Put

LEMMA ReadStep ==
  ASSUME LinkInv, NEW e \in Ends, _ao_packet_pollchar(e)
  PROVE  Stream!Get(Other(e))
<1> DEFINE o == Other(e)
           n == Head(rx_data[e])
<1>1. o \in Ends /\ o # e /\ Other(o) = e /\ \A f \in Ends : f = e \/ f = o
  BY TwoEnds
<1>2. /\ rx_data[e] # <<>>
      /\ read' = [read EXCEPT ![o] = n]
      /\ rx_data' = [rx_data EXCEPT ![e] = Tail(rx_data[e])]
      /\ UNCHANGED <<ao_tx_packet, tx_data, rx_seq, ao_packet_restart, written>>
  BY DEF LinkInv, PacketTypeOK, _ao_packet_pollchar
<1>3. /\ n \in Pending[o] /\ n > read[o] /\ \A m \in Pending[o] : n <= m
      /\ Range(Tail(rx_data[e])) \cup InFlight(o) \cup Range(tx_data[o])
           = Pending[o] \ {n}
  BY <1>1, <1>2, HeadFirst
<1> HIDE DEF o, n
<1>4. rx_data'[e] = Tail(rx_data[e]) /\ rx_data'[o] = rx_data[o]
  BY <1>1, <1>2 DEF LinkInv, PacketTypeOK
<1>5. \A f \in Ends : InFlight(f)' = InFlight(f)
  BY <1>2 DEF InFlight
<1>6. Pending'[o] = Pending[o] \ {n} /\ Pending'[e] = Pending[e]
  BY <1>1, <1>2, <1>3, <1>4, <1>5, PendingParts, PendingNext DEF o
<1>7. Pending' = [Pending EXCEPT ![o] = @ \ {n}]
  <2>1. /\ Pending' = [f \in Ends |-> Pending'[f]] /\ DOMAIN Pending = Ends
        /\ Pending = [f \in Ends |-> Pending[f]]
    BY DEF Pending
  <2> QED
    BY <1>1, <1>6, <2>1
<1>8. InStep' = InStep
  BY <1>2 DEF InStep
<1> QED
  BY <1>2, <1>3, <1>7, <1>8 DEF Stream!Get, o

LEMMA OpenStep ==
  ASSUME LinkInv, Open
  PROVE  Stream!Restart("master")
<1>1. /\ Other("master") = "slave" /\ Other("slave") = "master"
      /\ "master" \in Ends /\ "slave" \in Ends
      /\ Ends = {"master", "slave"} /\ Stream!Other("master") = "slave"
      /\ Range(<<>>) = {}
  BY TwoEnds, StreamEnds, EmptyBuffer DEF Other
<1>2. /\ ao_tx_packet'["master"].len = "syn"
      /\ ao_tx_packet'["slave"] = ao_tx_packet["slave"]
      /\ tx_data'["master"] = <<>> /\ tx_data'["slave"] = tx_data["slave"]
      /\ UNCHANGED <<rx_data, rx_seq, ao_packet_restart, written, read>>
  <2>1. ao_tx_packet["master"] \in Packets
    BY <1>1 DEF LinkInv, PacketTypeOK
  <2> QED
    BY <1>1, <2>1 DEF Open, LinkInv, PacketTypeOK, ghostVars, Packets
<1>3. Pending'["slave"] = Pending["slave"]
  <2>1. InFlight("slave")' = InFlight("slave")
    BY <1>1, <1>2 DEF InFlight
  <2> QED
    BY <1>1, <1>2, <2>1, PendingParts, PendingNext
<1>4. Pending'["master"] \subseteq Pending["master"]
  <2>1. InFlight("master")' = {}
    BY <1>1, <1>2, PendingNext
  <2>2. Pending'["master"] = Range(rx_data["slave"])
    BY <1>1, <1>2, <2>1, PendingNext
  <2> QED
    BY <1>1, <2>2, PendingParts
<1>5. InStep' = FALSE
  BY <1>1, <1>2 DEF InStep
<1>6. /\ read["slave"] \in 0 .. MaxBytes
      /\ written["slave"] \in Nat /\ MaxLen \in Nat
      /\ read' = [read EXCEPT !["slave"] = read["slave"]]
  BY <1>1, <1>2, PacketAssumption DEF LinkInv, PacketTypeOK
<1>7. Pending'["slave"] \subseteq read["slave"] + 1 .. written["slave"]
  <2>1. \A n \in Pending["slave"] :
          n \in Nat /\ n > read["slave"] /\ n <= written["slave"]
    BY <1>1, PendingBounds
  <2> QED
    BY <1>3, <1>6, <2>1
<1>8. DOMAIN Pending' = Ends
  BY DEF Pending
<1>9. read["slave"] <= read["slave"] /\ read["slave"] >= read["slave"] - MaxLen
  BY <1>6
<1> QED
  BY <1>1, <1>2, <1>4, <1>5, <1>6, <1>7, <1>8, <1>9 DEF Stream!Restart

LEMMA RebootStep ==
  ASSUME LinkInv, NEW e \in Ends, Reboot(e)
  PROVE  Stream!Restart(e)
<1> DEFINE o == Other(e)
           n == IF read[o] > MaxLen THEN read[o] - MaxLen ELSE 0
<1>1. /\ o \in Ends /\ o # e /\ Other(o) = e /\ Stream!Other(e) = o
      /\ \A f \in Ends : f = e \/ f = o
      /\ Range(<<>>) = {} /\ Fresh.len = "syn"
  BY TwoEnds, StreamEnds, EmptyBuffer DEF Fresh
<1>2. /\ ao_tx_packet'[e] = Fresh
      /\ tx_data'[e] = <<>> /\ rx_data'[o] = rx_data[o]
      /\ read' = [read EXCEPT ![o] = n] /\ read'[o] = n
      /\ written' = written
  BY <1>1 DEF Reboot, LinkInv, PacketTypeOK
<1>3. /\ n \in 0 .. MaxBytes /\ n <= read[o] /\ n >= read[o] - MaxLen
      /\ written[o] \in Nat
  BY <1>1, PacketAssumption DEF LinkInv, PacketTypeOK
<1> HIDE DEF o, n
<1>4. LinkInv'
  BY LinkNext DEF PacketNext
<1>5. Pending'[o] \subseteq n + 1 .. written[o]
  <2>1. \A m \in Pending'[o] : m \in Nat /\ m > read'[o] /\ m <= written'[o]
    <3>1. LinkInv' => Bounds'
      BY AllBounds, PTL
    <3> QED
      BY <1>1, <1>4, <3>1 DEF Bounds
  <2> QED
    BY <1>2, <1>3, <2>1
<1>6. Pending'[e] \subseteq Pending[e]
  <2>1. InFlight(e)' = {}
    BY <1>1, <1>2, PendingNext
  <2>2. Pending'[e] = Range(rx_data[o])
    BY <1>1, <1>2, <2>1, PendingNext DEF o
  <2> QED
    BY <2>2, PendingParts DEF o
<1>7. InStep' = FALSE
  BY <1>1, <1>2 DEF InStep
<1>8. DOMAIN Pending' = Ends
  BY DEF Pending
<1> QED
  BY <1>1, <1>2, <1>3, <1>5, <1>6, <1>7, <1>8 DEF Stream!Restart

LEMMA LinkStreams ==
  LinkInv /\ [PacketNext]_packetVars
    => [Stream!StreamNext]_(Stream!streamVars)
<1> SUFFICES ASSUME LinkInv, [PacketNext]_packetVars
             PROVE  [Stream!StreamNext]_(Stream!streamVars)
  OBVIOUS
<1>1. ASSUME UNCHANGED <<ao_tx_packet, tx_data, rx_data, rx_seq,
                         ao_packet_restart, written, read>>
      PROVE  UNCHANGED Stream!streamVars
  <2>1. Pending' = Pending
    BY <1>1 DEF Pending, InFlight
  <2>2. InStep' = InStep
    BY <1>1 DEF InStep
  <2> QED
    BY <1>1, <2>1, <2>2 DEF Stream!streamVars
<1>2. CASE UNCHANGED packetVars
  BY <1>1, <1>2 DEF packetVars, linkVars, ghostVars
<1>3. CASE Close \/ MasterEnds \/ MasterWakes
  BY <1>1, <1>3 DEF Close, MasterEnds, MasterWakes, ghostVars
<1>4. ASSUME NEW e \in Ends, ao_packet_send(e), Delivers(e) \/ SentInVain(e)
      PROVE  [Stream!StreamNext]_(Stream!streamVars)
  <2>1. /\ \A f \in Ends : Pending'[f] \subseteq Pending[f]
        /\ InStep => InStep' /\ \A f \in Ends : Pending'[f] = Pending[f]
        /\ written' = written /\ read' = read
    BY <1>4, DeliversPending, VainPending DEF ao_packet_send
  <2> QED
    BY <2>1, LossStep
<1>5. ASSUME NEW e \in Ends,
             ao_packet_putchar(e) \/ _ao_packet_pollchar(e) \/ Reboot(e)
      PROVE  Stream!StreamNext
  <2>1. \/ Stream!Put(e) \/ Stream!Get(Other(e)) \/ Stream!Restart(e)
    BY <1>5, WriteStep, ReadStep, RebootStep
  <2>2. Other(e) \in Ends
    BY TwoEnds
  <2> QED
    BY <2>1, <2>2, Zenon DEF Stream!StreamNext
<1>6. CASE Open
  <2>1. Stream!Restart("master") /\ "master" \in Ends
    BY <1>6, OpenStep, TwoEnds
  <2> QED
    BY <2>1, Zenon DEF Stream!StreamNext
<1>7. CASE RadioStep
  BY <1>3, <1>4, <1>7, RadioCases
<1> QED
  BY <1>2, <1>3, <1>5, <1>6, <1>7 DEF PacketNext, UserStep

LEMMA StreamStarts == PacketInit => Stream!StreamInit
<1> SUFFICES ASSUME PacketInit PROVE Stream!StreamInit
  OBVIOUS
<1>1. /\ \A e \in Ends : /\ ao_tx_packet[e] = Fresh
                         /\ rx_data[Other(e)] = <<>> /\ tx_data[e] = <<>>
      /\ Fresh.len = "syn" /\ Range(<<>>) = {}
  BY TwoEnds, EmptyBuffer DEF PacketInit, Fresh
<1>2. \A e \in Ends : InFlight(e) = {}
  BY <1>1, InFlightParts
<1>3. Pending = [e \in Ends |-> {}]
  BY <1>1, <1>2 DEF Pending
<1>4. InStep = FALSE
  BY <1>1, TwoEnds DEF InStep
<1> QED
  BY <1>3, <1>4 DEF PacketInit, Stream!StreamInit

(* The link implements the stream: no byte is read twice or out of order,  *)
(* and none is left out, but for what the set-up of the link or a restart  *)
(* may cost.                                                               *)
THEOREM LinkStepsAsStream == PacketSpec => ImplementsStream
BY LinkInvariant, LinkStreams, StreamStarts, PTL
DEF PacketSpec, ImplementsStream
=============================================================================
