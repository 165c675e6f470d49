------------------------------ MODULE AltosPacket ------------------------------
(***************************************************************************)
(* Packet mode: drivers/ao_packet.c with the master's and the slave's      *)
(* tasks, ao_packet_master.c and ao_packet_slave.c.  The master sends,     *)
(* data or nothing, and waits for an answer; the slave only answers.  A    *)
(* packet is delivered when the other end listens, or lost.  A user of the *)
(* master opens and closes the link; either end may lose its power.        *)
(***************************************************************************)
EXTENDS Integers, Sequences, FiniteSets, Functions

CONSTANTS
  SeqMod,       \* sequence numbers wrap here
  MaxLen,       \* AO_PACKET_MAX
  MaxBytes,     \* bound on the bytes that an end writes
  MaxRestarts   \* bound on how often the link is closed or power fails

Ends == {"master", "slave"}
Other(e) == IF e = "master" THEN "slave" ELSE "master"

ASSUME PacketAssumption ==
  /\ SeqMod \in Nat /\ SeqMod > 2
  /\ MaxLen \in Nat \ {0} /\ MaxBytes \in Nat /\ MaxRestarts \in Nat

VARIABLES
  ao_tx_packet,        \* the packet that each end sends until it is answered
  tx_data,             \* what is to be sent after it
  rx_data,             \* what was received and is not read yet
  rx_seq,
  ao_packet_restart,   \* of the slave
  task,                \* what the task of each end does next
  ao_packet_enable,    \* of the master
  closed, reboots,     \* how often the link was closed, the power failed
  written, read        \* ghosts: the last byte written by each end, and the
                       \* last of them that the other end read

linkVars == <<ao_tx_packet, tx_data, rx_data, rx_seq, ao_packet_restart, task,
              ao_packet_enable>>
boundVars == <<closed, reboots>>
ghostVars == <<written, read>>
packetVars == <<linkVars, boundVars, ghostVars>>

Seqs == 0 .. SeqMod - 1
Bytes == 1 .. MaxBytes
Buffers == UNION {[1 .. n -> Bytes] : n \in 0 .. MaxLen}
Packets == [len : {"none", "syn", "data"}, seq : Seqs, ack : Seqs, d : Buffers]
Fresh == [len |-> "syn", seq |-> 0, ack |-> 0, d |-> <<>>]

PacketTypeOK ==
  /\ ao_tx_packet \in [Ends -> Packets]
  /\ tx_data \in [Ends -> Buffers] /\ rx_data \in [Ends -> Buffers]
  /\ rx_seq \in [Ends -> Seqs]
  /\ ao_packet_restart \in BOOLEAN /\ ao_packet_enable \in BOOLEAN
  /\ task \in [Ends -> {"send", "receive", "sleep", "off"}]
  /\ closed \in Nat /\ reboots \in [Ends -> Nat]
  /\ written \in [Ends -> 0 .. MaxBytes] /\ read \in [Ends -> 0 .. MaxBytes]

PacketInit ==
  /\ ao_tx_packet = [e \in Ends |-> Fresh]
  /\ tx_data = [e \in Ends |-> <<>>] /\ rx_data = [e \in Ends |-> <<>>]
  /\ rx_seq = [e \in Ends |-> 0]
  /\ ao_packet_restart = TRUE
  /\ task = [e \in Ends |-> IF e = "master" THEN "send" ELSE "receive"]
  /\ ao_packet_enable = TRUE
  /\ closed = 0 /\ reboots = [e \in Ends |-> 0]
  /\ written = [e \in Ends |-> 0] /\ read = [e \in Ends |-> 0]

(***************************************************************************)
(* Writers and readers.                                                    *)
(***************************************************************************)
(* The slave's console is always there, the master's forwards while the    *)
(* link is open.                                                           *)
Enabled(e) == e = "slave" \/ ao_packet_enable

(* A writer waits while the buffer is full.                                *)
ao_packet_putchar(e) ==
  /\ Enabled(e)
  /\ Len(tx_data[e]) < MaxLen
  /\ written[e] < MaxBytes
  /\ written' = [written EXCEPT ![e] = @ + 1]
  /\ tx_data' = [tx_data EXCEPT ![e] = Append(@, written'[e])]
  /\ UNCHANGED <<ao_tx_packet, rx_data, rx_seq, ao_packet_restart, task,
                 ao_packet_enable, boundVars, read>>

_ao_packet_pollchar(e) ==
  /\ Enabled(e)
  /\ rx_data[e] # <<>>
  /\ read' = [read EXCEPT ![Other(e)] = Head(rx_data[e])]
  /\ rx_data' = [rx_data EXCEPT ![e] = Tail(@)]
  /\ UNCHANGED <<ao_tx_packet, tx_data, rx_seq, ao_packet_restart, task,
                 ao_packet_enable, boundVars, written>>

(***************************************************************************)
(* Packets.                                                                *)
(***************************************************************************)
(* What e sends next: the data that waits if the packet before has been    *)
(* answered, otherwise that packet again.                                  *)
Fills(e) == tx_data[e] # <<>> /\ ao_tx_packet[e].len = "none"
Sent(e) ==
  IF Fills(e)
  THEN [ao_tx_packet[e] EXCEPT !.len = "data", !.d = tx_data[e],
                               !.seq = (@ + 1) % SeqMod]
  ELSE ao_tx_packet[e]

(* A mistake: a packet that comes again is taken again.                    *)
IsAnyNext(e, p) == TRUE

IsNext(e, p) ==
  \/ p.seq = (rx_seq[e] + 1) % SeqMod
  \/ e = "slave" /\ ao_packet_restart

(* End e takes the data of p: it is the next and its buffer is empty.      *)
Takes(e, p) == p.len = "data" /\ IsNext(e, p) /\ rx_data[e] = <<>>

(* A mistake: data is taken and not acknowledged.                          *)
AnswerNoAck(e, p) ==
  LET own == ao_tx_packet[e]
      set == IF p.len = "syn" THEN [own EXCEPT !.seq = p.ack, !.ack = p.seq]
             ELSE own
  IN IF p.ack = set.seq THEN [set EXCEPT !.len = "none", !.d = <<>>] ELSE set

(* The packet that e sends once it has received p, with SYN the sequence   *)
(* numbers that p gives it.                                                *)
Answer(e, p) ==
  LET own == ao_tx_packet[e]
      set == IF p.len = "syn" THEN [own EXCEPT !.seq = p.ack, !.ack = p.seq]
             ELSE IF Takes(e, p) THEN [own EXCEPT !.ack = p.seq]
             ELSE own
  IN IF p.ack = set.seq THEN [set EXCEPT !.len = "none", !.d = <<>>] ELSE set

(* What the other end has not taken of the packet that e sends.            *)
InFlight(e) ==
  IF /\ ao_tx_packet[e].len = "data"
     /\ \/ rx_seq[Other(e)] # ao_tx_packet[e].seq
        \/ e = "master" /\ ao_packet_restart
  THEN Range(ao_tx_packet[e].d) ELSE {}

(* ao_packet_recv at e, of a packet that the other end sends.              *)
ao_packet_recv(e, p) ==
  /\ rx_data' = IF Takes(e, p) THEN [rx_data EXCEPT ![e] = p.d] ELSE rx_data
  /\ rx_seq' = IF p.len = "syn" \/ Takes(e, p)
               THEN [rx_seq EXCEPT ![e] = p.seq] ELSE rx_seq
  /\ ao_tx_packet' = [ao_tx_packet EXCEPT ![e] = Answer(e, p),
                                          ![Other(e)] = p]
  /\ ao_packet_restart' = (ao_packet_restart /\ e # "slave")

(* End e sends a packet that the other one is not there for.               *)
SentInVain(e) ==
  /\ ao_tx_packet' = [ao_tx_packet EXCEPT ![e] = Sent(e)]
  /\ UNCHANGED <<rx_data, rx_seq, ao_packet_restart>>

ao_packet_send(e) ==
  /\ task[e] = "send"
  /\ Enabled(e)
  /\ tx_data' = IF Fills(e) THEN [tx_data EXCEPT ![e] = <<>>] ELSE tx_data
  /\ UNCHANGED <<ao_packet_enable, boundVars, written, read>>

(* The packet of the master arrives: the slave, which listens, answers     *)
(* next.                                                                   *)
MasterSends ==
  /\ ao_packet_send("master")
  /\ task["slave"] = "receive"
  /\ ao_packet_recv("slave", Sent("master"))
  /\ task' = [task EXCEPT !["master"] = "receive", !["slave"] = "send"]

MasterSendsInVain ==
  /\ ao_packet_send("master")
  /\ SentInVain("master")
  /\ task' = [task EXCEPT !["master"] = "receive"]

(* The answer arrives: the master sends at once if it has data and may     *)
(* send it, and sleeps otherwise.                                          *)
SlaveSends ==
  /\ ao_packet_send("slave")
  /\ task["master"] = "receive"
  /\ ao_packet_recv("master", Sent("slave"))
  /\ task' = [task EXCEPT
       !["slave"] = "receive",
       !["master"] = IF tx_data["master"] # <<>>
                        /\ ao_tx_packet'["master"].len = "none"
                     THEN "send" ELSE "sleep"]

SlaveSendsInVain ==
  /\ ao_packet_send("slave")
  /\ SentInVain("slave")
  /\ task' = [task EXCEPT !["slave"] = "receive"]

(* No answer within AO_PACKET_MASTER_RECV_DELAY, or ao_radio_recv_abort;   *)
(* the end of the master's sleep.                                          *)
MasterWakes ==
  /\ task["master"] \in {"receive", "sleep"}
  /\ task' = [task EXCEPT !["master"] = "send"]
  /\ UNCHANGED <<ao_tx_packet, tx_data, rx_data, rx_seq, ao_packet_restart,
                 ao_packet_enable, boundVars, ghostVars>>

(***************************************************************************)
(* The user of the master, and power.                                      *)
(***************************************************************************)
MayRestart == closed + reboots["master"] + reboots["slave"] < MaxRestarts

(* The end of ao_packet_forward, which waits a second for what is pending. *)
Close ==
  /\ ao_packet_enable
  /\ MayRestart
  /\ closed' = closed + 1
  /\ ao_packet_enable' = FALSE
  /\ UNCHANGED <<ao_tx_packet, tx_data, rx_data, rx_seq, ao_packet_restart,
                 task, reboots, ghostVars>>

MasterEnds ==
  /\ task["master"] = "send" /\ ~ao_packet_enable
  /\ task' = [task EXCEPT !["master"] = "off"]
  /\ UNCHANGED <<ao_tx_packet, tx_data, rx_data, rx_seq, ao_packet_restart,
                 ao_packet_enable, boundVars, ghostVars>>

(* The next ao_packet_forward, which keeps the sequence numbers and what   *)
(* is not read yet.                                                        *)
Open ==
  /\ task["master"] = "off"
  /\ ao_packet_enable' = TRUE
  /\ tx_data' = [tx_data EXCEPT !["master"] = <<>>]
  /\ ao_tx_packet' = [ao_tx_packet EXCEPT !["master"].len = "syn",
                                          !["master"].d = <<>>]
  /\ task' = [task EXCEPT !["master"] = "send"]
  /\ UNCHANGED <<rx_data, rx_seq, ao_packet_restart, boundVars, ghostVars>>

Reboot(e) ==
  /\ MayRestart
  /\ reboots' = [reboots EXCEPT ![e] = @ + 1]
  /\ ao_tx_packet' = [ao_tx_packet EXCEPT ![e] = Fresh]
  /\ tx_data' = [tx_data EXCEPT ![e] = <<>>]
  /\ rx_data' = [rx_data EXCEPT ![e] = <<>>]
  /\ rx_seq' = [rx_seq EXCEPT ![e] = 0]
  /\ ao_packet_restart' = (ao_packet_restart \/ e = "slave")
  /\ ao_packet_enable' = (ao_packet_enable \/ e = "master")
  /\ task' = [task EXCEPT ![e] = IF e = "master" THEN "send" ELSE "receive"]
  /\ read' = [read EXCEPT ![Other(e)] = IF @ > MaxLen THEN @ - MaxLen ELSE 0]
  /\ UNCHANGED <<closed, written>>

RadioStep ==
  \/ MasterSends \/ MasterSendsInVain \/ SlaveSends \/ SlaveSendsInVain
  \/ MasterWakes

UserStep ==
  \/ \E e \in Ends : ao_packet_putchar(e) \/ _ao_packet_pollchar(e)
  \/ Close \/ MasterEnds \/ Open

PacketNext == RadioStep \/ UserStep \/ \E e \in Ends : Reboot(e)

(* The tasks run and wake, consoles read, and a packet that is sent again  *)
(* and again is received at last.                                          *)
PacketFairness ==
  /\ WF_packetVars(MasterWakes)
  /\ WF_packetVars(MasterSends \/ MasterSendsInVain)
  /\ WF_packetVars(SlaveSends \/ SlaveSendsInVain)
  /\ SF_packetVars(MasterSends) /\ SF_packetVars(SlaveSends)
  /\ \A e \in Ends : WF_packetVars(_ao_packet_pollchar(e))

PacketSpec == PacketInit /\ [][PacketNext]_packetVars /\ PacketFairness

(***************************************************************************)
(* What packet mode promises.                                              *)
(***************************************************************************)
Pending ==
  [e \in Ends |->
    Range(rx_data[Other(e)]) \cup InFlight(e) \cup Range(tx_data[e])]

(* No end asks for a set-up, and each knows the number of the last packet  *)
(* of the other one, or of the one before that is under way.               *)
InStep ==
  \A e \in Ends :
    /\ ao_tx_packet[e].len # "syn"
    /\ \/ rx_seq[Other(e)] = ao_tx_packet[e].seq
       \/ /\ ao_tx_packet[e].len = "data"
          /\ (rx_seq[Other(e)] + 1) % SeqMod = ao_tx_packet[e].seq

Stream == INSTANCE AltosStream WITH
  written <- written,
  pending <- Pending,
  read <- read,
  up <- InStep

(* The link is a stream of bytes in each direction: no byte is given       *)
(* twice, out of order or left out, but for what a restart costs.          *)
ImplementsStream == Stream!StreamInit /\ [][Stream!StreamNext]_(Stream!streamVars)

(* While the link is open and both ends keep their power, every byte       *)
(* written is read, or given up in a set-up: the link never hangs, however *)
(* often it was closed before.  After a power failure it may, see README.  *)
Delivered ==
  \A e \in Ends :
    []<>(\/ Pending[e] = {}
         \/ ~ao_packet_enable \/ \E o \in Ends : reboots[o] > 0)
=============================================================================
