------------------------------- MODULE Radio --------------------------------
(***************************************************************************)
(* The FM transmitter of the radio board (m2r/firmware/radio.c): a timer   *)
(* interrupt plays a text, bit by bit and character by character, and at   *)
(* its end makes the next one, in the same buffer, of the statuses that    *)
(* the threads below it keep writing.                                      *)
(*                                                                         *)
(* Of a text only what it says of the nose and its length are kept, of a   *)
(* character how many of its bits are played.                              *)
(***************************************************************************)
EXTENDS Integers

CONSTANTS
  Unknown,       \* what the first text says of the subsystem
  TextLengths,   \* lengths the text may have, for each status of the subsystem
  InitLength,    \* length of the text that is played first
  Wrap,          \* values of an index of 8 bits
  BitsPerChar    \* start, data and stop bits

VARIABLES
  copy,      \* M2FCNoseStatus
  text,      \* radio_fm_bytebuf
  byteidx,   \* radio_fm_byteidx
  bitidx     \* radio_fm_bitidx

radioVars == <<text, byteidx, bitidx>>

Text(s, n) == [sub |-> s, length |-> n]

RadioInit ==
  /\ text = Text(Unknown, InitLength)
  /\ byteidx = 0 /\ bitidx = 0

(* m2status_write_status_summary: OK, or each subsystem that is not.  The others, of
   both boards, add to the length. *)
Summary(sub) == {Text(sub, n) : n \in TextLengths[sub]}

(* radio_make_telem_string *)
MakeTelemString == text' \in Summary(copy.sub)

NextBit ==
  /\ bitidx + 1 < BitsPerChar
  /\ bitidx' = bitidx + 1
  /\ UNCHANGED <<copy, text, byteidx>>

NextByte == IF byteidx + 1 < Wrap THEN byteidx + 1 ELSE 0

LastBit == bitidx + 1 = BitsPerChar /\ bitidx' = 0

NextChar ==
  /\ LastBit /\ NextByte # text.length
  /\ byteidx' = NextByte
  /\ UNCHANGED <<copy, text>>

(* Fault: the index is left at the end of the last text. *)
EndOfMessage_StaleIndex ==
  /\ LastBit /\ NextByte = text.length
  /\ byteidx' = NextByte
  /\ MakeTelemString
  /\ UNCHANGED copy

(* The terminating zero.  The bits are not read again: those of the last character are
   played once more in place of those of the first one. *)
EndOfMessage ==
  /\ LastBit /\ NextByte = text.length
  /\ byteidx' = 0
  /\ MakeTelemString
  /\ UNCHANGED copy

(* radio_fm_timer, after the last sample of a bit. *)
RadioNext == NextBit \/ NextChar \/ EndOfMessage

RadioFairness == WF_radioVars(RadioNext)

-----------------------------------------------------------------------------
TooLong == text.length >= Wrap

(* Every variable has its type. *)
RadioTypeOK ==
  /\ text.length \in {InitLength} \union UNION {TextLengths[s] : s \in DOMAIN TextLengths}
  /\ byteidx \in 0..(Wrap - 1)
  /\ bitidx \in 0..(BitsPerChar - 1)

(* The index never points behind the text that is being played, although the next one
   may be shorter and leaves the end of an older one in the buffer. *)
NothingPastTheEnd == byteidx < text.length
=============================================================================
