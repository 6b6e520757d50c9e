------------------------------ MODULE M2Serial ------------------------------
(***************************************************************************)
(* The serial link between the boards (m2serial/m2serial.c), one direction *)
(* of it: the m2status thread of one board sends frames, the m2serial      *)
(* thread of the other takes the bytes through one after the other.        *)
(*                                                                         *)
(* A frame is a flag (7E), the payload with flags and escapes (7D) in it   *)
(* escaped, and two checksum bytes that are not escaped.  The line loses   *)
(* and alters bytes.  Other threads go on writing the struct while it is   *)
(* sent: a byte that is to be escaped is read again after the escape is    *)
(* put, and need not be a flag or an escape any more; the checksum was     *)
(* taken before, and nobody looks at it: it is any pair of bytes.          *)
(***************************************************************************)
EXTENDS Integers, Sequences, SequencesExt

CONSTANTS
  PayloadSize,  \* sizeof(SystemStatus)
  Bytes,        \* the byte values of the model, closed under ^ 0x20
  Payloads,     \* the payloads that are sent
  Checksums,    \* the checksums that are sent
  LineSize,     \* bytes in the serial queues of the two boards
  MaxFrames,    \* bound of the model: frames sent
  MaxDamage     \* bound of the model: bytes lost or altered

Flag == 126      \* 0x7E
Escape == 125    \* 0x7D

(* b ^ 0x20 *)
Flip(b) == IF (b \div 32) % 2 = 1 THEN b - 32 ELSE b + 32

ASSUME LinkAssumption ==
  /\ PayloadSize \in Nat \ {0} /\ LineSize \in Nat \ {0}
  /\ MaxFrames \in Nat /\ MaxDamage \in Nat
  /\ {Flag, Escape} \subseteq Bytes /\ Bytes \subseteq 0..255
  /\ \A b \in Bytes : Flip(b) \in Bytes
  /\ Payloads \subseteq [1..PayloadSize -> Bytes]
  /\ Checksums \subseteq Bytes \X Bytes

VARIABLES
  tx,        \* what is left to put of the frame that is being sent
  line,      \* bytes on their way
  pc,        \* receiver: the read it waits in, or "shell"
  buf,       \* receiver: the payload so far
  sent,      \* history: payloads whose sending was begun
  received,  \* history: payloads handed to m2status_rx_systemstatus
  damage,    \* history: bytes lost or altered so far
  clean      \* history: see CleanFrame

vars == <<tx, line, pc, buf, sent, received, damage, clean>>

Init ==
  /\ tx = <<>> /\ line = <<>>
  /\ pc = "start" /\ buf = <<>>
  /\ sent = <<>> /\ received = <<>>
  /\ damage = 0 /\ clean = 0

-----------------------------------------------------------------------------
(* Sending: m2serial_send_buffer.  sdPut blocks while the queue is full. *)

(* Fault: flags in the payload are not escaped. *)
Escaped_NotFlag(b, changed) ==
  IF b = Escape \/ changed THEN <<Escape, Flip(b)>> ELSE <<b>>

(* A byte that is a flag or an escape when it is read last, or was one when it was
   tested and is changed since: sdPut of the escape blocks in between.  ^ 0x20 may
   then make a flag of it. *)
Escaped(b, changed) ==
  IF b \in {Flag, Escape} \/ changed THEN <<Escape, Flip(b)>> ELSE <<b>>

Frame(payload, changed, chk) ==
  <<Flag>> \o FlattenSeq([i \in 1..PayloadSize |-> Escaped(payload[i], i \in changed)])
           \o chk

(* Frames begun, one after the other, since a byte was damaged, a shell ended or
   a frame held a flag behind its first byte. *)
CleanFrame(frame) ==
  IF Contains(Tail(frame), Flag) THEN 0 ELSE clean + 1

(* The payload is made of the bytes as they are read last. *)
Send(payload, changed, chk) ==
  /\ tx = <<>> /\ Len(sent) < MaxFrames
  /\ tx' = Frame(payload, changed, chk)
  /\ sent' = Append(sent, payload)
  /\ clean' = CleanFrame(tx')
  /\ UNCHANGED <<line, pc, buf, received, damage>>

Put ==
  /\ tx # <<>> /\ Len(line) < LineSize
  /\ line' = Append(line, Head(tx))
  /\ tx' = Tail(tx)
  /\ UNCHANGED <<pc, buf, sent, received, damage, clean>>

(* The line, or a full receive queue, loses a byte or alters it. *)
Damage ==
  /\ damage < MaxDamage /\ damage' = damage + 1
  /\ \E n \in DOMAIN line :
       \/ line' = RemoveAt(line, n)
       \/ \E b \in Bytes \ {line[n]} : line' = [line EXCEPT ![n] = b]
  /\ clean' = 0
  /\ UNCHANGED <<tx, pc, buf, sent, received>>

-----------------------------------------------------------------------------
(* Receiving: recv_systemstatus. *)

(* sdGet, in the read that the receiver has come to. *)
Get(read) ==
  /\ pc = read /\ line # <<>>
  /\ line' = Tail(line)
  /\ UNCHANGED <<tx, sent, damage, clean>>

Byte == Head(line)

(* Fault: one byte is read and taken for the start. *)
AwaitStart_Any ==
  /\ Get("start")
  /\ pc' = "byte"
  /\ buf' = <<>>
  /\ UNCHANGED received

AwaitStart ==
  /\ Get("start")
  /\ pc' = IF Byte = Flag THEN "byte" ELSE "start"
  /\ buf' = <<>>
  /\ UNCHANGED received

(* ((uint8_t* )status)[i] = b, and on to the next byte or to the checksum. *)
Store(b) ==
  /\ buf' = Append(buf, b)
  /\ pc' = IF Len(buf) + 1 = PayloadSize THEN "chk_l" ELSE "byte"
  /\ UNCHANGED received

GetByte ==
  /\ Get("byte")
  /\ \/ Byte = Escape /\ pc' = "escaped" /\ UNCHANGED <<buf, received>>
     \/ /\ Byte = Flag
        /\ pc' = IF buf = <<>> THEN "third" ELSE "start"
        /\ UNCHANGED <<buf, received>>
     \/ Byte \notin {Flag, Escape} /\ Store(Byte)

GetEscaped == Get("escaped") /\ Store(Flip(Byte))

(* Three flags in a row start a shell; else the frame is given up. *)
GetThird ==
  /\ Get("third")
  /\ pc' = IF Byte = Flag THEN "shell" ELSE "start"
  /\ UNCHANGED <<buf, received>>

(* The shell takes what comes for commands. *)
ShellReads == Get("shell") /\ UNCHANGED <<pc, buf, received>>

(* It exits, and the second of the three flags is stored as a byte. *)
ShellExits ==
  /\ pc = "shell"
  /\ Store(Flag)
  /\ clean' = 0
  /\ UNCHANGED <<tx, line, sent, damage>>

GetChecksumLow ==
  /\ Get("chk_l")
  /\ pc' = "chk_h"
  /\ UNCHANGED <<buf, received>>

(* Fault: a checksum byte that looks like a flag starts the next frame. *)
GetChecksumHigh_AsFlag ==
  /\ Get("chk_h")
  /\ received' = Append(received, buf)
  /\ pc' = IF Byte = Flag THEN "byte" ELSE "start"
  /\ buf' = <<>>

(* Both outcomes of the comparison return true. *)
GetChecksumHigh ==
  /\ Get("chk_h")
  /\ received' = Append(received, buf)
  /\ pc' = "start"
  /\ buf' = <<>>

Receive ==
  \/ AwaitStart \/ GetByte \/ GetEscaped \/ GetThird \/ ShellReads
  \/ GetChecksumLow \/ GetChecksumHigh

(* Nothing is left to send or to read. *)
Quiet == tx = <<>> /\ line = <<>>

Done == Quiet /\ Len(sent) = MaxFrames /\ pc # "shell" /\ UNCHANGED vars

Next ==
  \/ \E payload \in Payloads, changed \in SUBSET (1..PayloadSize), chk \in Checksums :
       Send(payload, changed, chk)
  \/ Put \/ Damage \/ Receive \/ ShellExits \/ Done

Spec == Init /\ [][Next]_vars

(* The queues drain by interrupt, and both threads have the highest priority
   of their boards. *)
FairSpec == Spec /\ WF_vars(Put) /\ WF_vars(Receive)

-----------------------------------------------------------------------------
(***************************************************************************)
(* Properties.                                                             *)
(***************************************************************************)

(* On an undamaged line the receiver gets exactly what was sent, in order, and
   no frame opens the shell, whatever bytes payloads and checksums hold. *)
ExactUntilDamaged ==
  damage = 0 => IsPrefix(received, sent) /\ pc # "shell"

(* Damage costs at most the frame it hits and the next one: once two frames have
   been sent whole, neither with a flag behind its first byte, the second has
   arrived, wherever the receiver had lost its place. *)
ResyncsAfterOneFrame ==
  Quiet /\ clean >= 2 /\ pc # "shell" =>
    /\ pc = "start"
    /\ received # <<>> /\ Last(received) = Last(sent)

(* Until a byte is damaged every frame arrives. *)
FramesArrive ==
  \A n \in 1..MaxFrames :
    Len(sent) >= n ~> Len(received) >= n \/ damage > 0
=============================================================================
