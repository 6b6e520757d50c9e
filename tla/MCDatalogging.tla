---------------------------- MODULE MCDatalogging ----------------------------
(* Two threads that log, a pool of two items, so that it runs dry while the card
   is busy, and a cache of two packets. *)
EXTENDS Datalogging

MCSources == {"accel", "baro"}

=============================================================================
