----------------------------- MODULE MCWakeups -----------------------------
(* One driver that waits without a time-out, one with, and the one with the
   pointer.  The drivers share nothing; the high-g accelerometer has the steps
   of the low-g one and the time-out of the gyroscope. *)
EXTENDS Wakeups

MCDrivers == {"lg", "gyro", "magno"}

=============================================================================
