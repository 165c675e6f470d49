------------------------------ MODULE AltosStream ------------------------------
(***************************************************************************)
(* What packet mode promises: "a reliable duplex byte stream"              *)
(* (doc/altos.txt:1181), and what the set-up of the link and a restart of  *)
(* one end may cost it.  The bytes that an end writes are numbered from 1; *)
(* the other end reads them in that order.  Until the link is up, bytes on *)
(* their way may be lost; an end that has lost its memory may be given     *)
(* again a part of the last packet that it read.                           *)
(***************************************************************************)
EXTENDS Integers

CONSTANTS
  Ends,      \* the two ends of the link
  MaxLen,    \* AO_PACKET_MAX
  MaxBytes   \* bound on the bytes that an end writes

VARIABLES
  written,   \* the number of the last byte that each end wrote
  pending,   \* of each end, the bytes that are to be read by the other one
  read,      \* of each end, the number of the last byte that the other one read
  up         \* the link is set up

streamVars == <<written, pending, read, up>>

Other(e) == CHOOSE o \in Ends : o # e

StreamInit ==
  /\ written = [e \in Ends |-> 0]
  /\ pending = [e \in Ends |-> {}]
  /\ read = [e \in Ends |-> 0]
  /\ up = FALSE

Put(e) ==
  /\ written[e] < MaxBytes
  /\ written' = [written EXCEPT ![e] = @ + 1]
  /\ pending' = [pending EXCEPT ![e] = @ \cup {written'[e]}]
  /\ UNCHANGED <<read, up>>

(* The other end reads the next byte of e.                                 *)
Get(e) ==
  /\ \E n \in pending[e] :
       /\ \A m \in pending[e] : n <= m
       /\ n > read[e]
       /\ read' = [read EXCEPT ![e] = n]
       /\ pending' = [pending EXCEPT ![e] = @ \ {n}]
  /\ UNCHANGED <<written, up>>

(* While the link is set up, what is on its way may be lost.               *)
SetUp ==
  /\ ~up
  /\ up' \in BOOLEAN
  /\ DOMAIN pending' = Ends
  /\ \A e \in Ends : pending'[e] \subseteq pending[e]
  /\ UNCHANGED <<written, read>>

(* End e restarts, with its memory or without.  What it reads then goes    *)
(* back at most to the last packet that it read.                           *)
Restart(e) ==
  LET o == Other(e) IN
  /\ up' = FALSE
  /\ \E n \in 0 .. MaxBytes :
       /\ n <= read[o] /\ n >= read[o] - MaxLen
       /\ read' = [read EXCEPT ![o] = n]
       /\ pending'[o] \subseteq n + 1 .. written[o]
  /\ DOMAIN pending' = Ends
  /\ pending'[e] \subseteq pending[e]
  /\ UNCHANGED written

StreamNext == SetUp \/ \E e \in Ends : Put(e) \/ Get(e) \/ Restart(e)

StreamSpec == StreamInit /\ [][StreamNext]_streamVars
=============================================================================
