------------------------------ MODULE MCUblox ------------------------------
(* Bytes of eight values and a payload buffer of four, so that damaged lengths
   lie on both sides of its size; every class and id that is told apart, sync
   bytes in payloads. *)
EXTENDS Ublox

Message(c, i, p) == [class |-> c, id |-> i, payload |-> p]

MCMessages ==
  { Message(NAV, PVT, <<SYNC1, SYNC2, 1>>), Message(NAV, PVT, <<0, 4, SYNC1>>),
    Message(NAV, 3, <<>>), Message(ACK, ACKED, <<3, 0>>), Message(ACK, NAK, <<3, 1>>),
    Message(CFG, NAV5, <<Airborne>>), Message(CFG, NAV5, <<0>>),
    Message(CFG, 3, <<2>>), Message(4, 0, <<1>>) }

=============================================================================
