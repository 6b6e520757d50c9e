------------------------------ MODULE Wakeups ------------------------------
(***************************************************************************)
(* How data-ready interrupts wake the threads of the sensors: the two      *)
(* accelerometers (adxl3x5.c), the gyroscope (l3g4200d.c) and the          *)
(* magnetometer (hmc5883l.c).                                              *)
(*                                                                         *)
(* The first three signal a binary semaphore, on which the low-g           *)
(* accelerometer alone waits without a time-out.  The magnetometer still   *)
(* leaves a pointer to its sleeping thread for the interrupt handler.      *)
(*                                                                         *)
(* An interrupt is an edge.  Accelerometers and gyroscope hold their line  *)
(* up until the sample is read, so an edge that is lost is not repeated;   *)
(* the magnetometer gives a pulse with each sample.  The devices are       *)
(* external, and run on when the board is restarted.                       *)
(***************************************************************************)
EXTENDS Integers

CONSTANT Drivers   \* the drivers whose threads are started

Adxl   == {"lg", "hg"}
Latched == Adxl \union {"gyro"}    \* those with a semaphore
Timed  == {"hg", "gyro", "magno"}

ASSUME DriversAssumption == Drivers \subseteq Latched \union {"magno"}

Signalled == Drivers \cap Latched

VARIABLES
  pc,       \* where the thread of a driver is
  bs,       \* bs345, bs375, bsGyro: 1 when signalled
  tp,       \* tpHMC5883L is not NULL
  status,   \* the driver's status
  enabled,  \* device: its interrupt is enabled
  data,     \* device: an unread sample is there
  missed,   \* history: no interrupt will come for that sample
  broken    \* history: 1 once a thread was readied that was not asleep

vars == <<pc, bs, tp, status, enabled, data, missed, broken>>
device == <<enabled, data, missed>>

Up(d) == enabled[d] /\ data[d]    \* the interrupt line

Init ==
  /\ pc = [d \in Drivers |-> "start"]
  /\ bs = [d \in Signalled |-> 0]
  /\ tp = FALSE
  /\ status = [d \in Drivers |-> "UNKNOWN"]
  /\ enabled \in [Signalled -> BOOLEAN]
  /\ data \in [Signalled -> BOOLEAN]
  /\ missed = [d \in Signalled |-> FALSE]
  /\ broken = 0

Goto(d, from, to) == pc[d] = from /\ pc' = [pc EXCEPT ![d] = to]
Set(d, s) == status' = [status EXCEPT ![d] = s]

-----------------------------------------------------------------------------
(* Semaphores, and the handlers that signal them. *)

(* Fault: the signal is only for a thread that is already waiting. *)
BSemSignal_NotKept(d) ==
  /\ pc' = [pc EXCEPT ![d] = IF @ = "asleep" THEN "awake" ELSE @]
  /\ UNCHANGED bs

(* chBSemSignalI, in adxl345_wakeup, adxl375_wakeup and l3g4200d_wakeup. *)
BSemSignal(d) ==
  /\ pc' = [pc EXCEPT ![d] = IF @ = "asleep" THEN "awake" ELSE @]
  /\ bs' = [bs EXCEPT ![d] = IF pc[d] = "asleep" THEN @ ELSE 1]

(* chBSemInit(taken).  What was signalled before is forgotten. *)
BSemInit(d) ==
  /\ bs' = [bs EXCEPT ![d] = 0]
  /\ missed' = [missed EXCEPT ![d] = Up(d)]

BSemWait(d) ==
  /\ pc[d] = "wait"
  /\ \/ bs[d] = 1 /\ bs' = [bs EXCEPT ![d] = 0] /\ pc' = [pc EXCEPT ![d] = "awake"]
     \/ bs[d] = 0 /\ UNCHANGED bs /\ pc' = [pc EXCEPT ![d] = "asleep"]
  /\ UNCHANGED <<tp, status, device, broken>>

(* The device completes a sample; a line that rises interrupts. *)
Sample(d) ==
  /\ d \in Latched
  /\ data' = [data EXCEPT ![d] = TRUE]
  /\ IF enabled[d] /\ ~data[d] THEN BSemSignal(d) ELSE UNCHANGED <<pc, bs>>
  /\ UNCHANGED <<tp, status, enabled, missed, broken>>

(* The thread enables the interrupt of its device and goes on to its next step:
   a line that rises by it finds the thread awake. *)
Enable(d) ==
  /\ enabled' = [enabled EXCEPT ![d] = TRUE]
  /\ bs' = [bs EXCEPT ![d] = IF ~enabled[d] /\ data[d] THEN 1 ELSE @]

(* A sample is read, which lets go of the line, unless the next is completed
   while the bytes of this one are on the bus. *)
TakeSample(d) ==
  \E again \in {FALSE, data[d]} :
    /\ data' = [data EXCEPT ![d] = again]
    /\ missed' = [missed EXCEPT ![d] = again]

-----------------------------------------------------------------------------
(* adxl345_thread and adxl375_thread. *)

AdxlStart(d) ==
  /\ d \in Adxl
  /\ Goto(d, "start", "init")
  /\ Set(d, "WAIT")
  /\ BSemInit(d)
  /\ UNCHANGED <<tp, enabled, data, broken>>

(* Wrong device, or a self-test that fails: the thread blinks for ever. *)
AdxlSad(d) ==
  /\ d \in Adxl
  /\ Goto(d, "init", "sad")
  /\ \E s \in {"ERR_INVALID_DEVICE_ID", "ERR_SELFTEST_FAIL"} : Set(d, s)
  /\ UNCHANGED <<bs, tp, device, broken>>

AdxlInit(d) ==
  /\ d \in Adxl
  /\ Goto(d, "init", "settle")
  /\ Enable(d)
  /\ UNCHANGED <<tp, status, data, missed, broken>>

(* The last of the samples that adxl3x5_init discards. *)
AdxlSettle(d) ==
  /\ Goto(d, "settle", "read")
  /\ TakeSample(d)
  /\ UNCHANGED <<bs, tp, status, enabled, broken>>

ReadAccel(d) ==
  /\ d \in Adxl
  /\ Goto(d, "read", "wait")
  /\ TakeSample(d)
  /\ UNCHANGED <<bs, tp, status, enabled, broken>>

-----------------------------------------------------------------------------
(* l3g4200d_thread; its identity check is that of hmc5883l_thread too. *)

IdCheck(d) ==
  /\ \/ Goto(d, "check", "init") /\ UNCHANGED status
     \/ pc[d] = "check" /\ Set(d, "ERR_INVALID_DEVICE_ID") /\ UNCHANGED pc
  /\ UNCHANGED <<bs, tp, device, broken>>

GyroStart ==
  /\ Goto("gyro", "start", "check")
  /\ Set("gyro", "WAIT")
  /\ BSemInit("gyro")
  /\ UNCHANGED <<tp, enabled, data, broken>>

(* The transfers may fail part of the way, after the interrupt was enabled. *)
GyroInitFails ==
  /\ pc["gyro"] = "init"
  /\ Set("gyro", "ERR_INITIALISING")
  /\ Enable("gyro") \/ UNCHANGED <<enabled, bs>>
  /\ UNCHANGED <<pc, tp, data, missed, broken>>

GyroInit ==
  /\ Goto("gyro", "init", "wait")
  /\ Enable("gyro")
  /\ UNCHANGED <<tp, status, data, missed, broken>>

GyroReceive ==
  /\ Goto("gyro", "read", "wait")
  /\ \/ TakeSample("gyro") /\ UNCHANGED status
     \/ /\ Set("gyro", "ERR_READING")
        /\ missed' = [missed EXCEPT !["gyro"] = Up("gyro")]
        /\ UNCHANGED data
  /\ UNCHANGED <<bs, tp, enabled, broken>>

-----------------------------------------------------------------------------
(* hmc5883l_thread and its handler. *)

MagnoStart ==
  /\ Goto("magno", "start", "check")
  /\ Set("magno", "WAIT")
  /\ UNCHANGED <<bs, tp, device, broken>>

MagnoInitFails ==
  /\ pc["magno"] = "init"
  /\ Set("magno", "ERR_INITIALISING")
  /\ UNCHANGED <<pc, bs, tp, device, broken>>

MagnoInit ==
  /\ Goto("magno", "init", "wait")
  /\ UNCHANGED <<bs, tp, status, device, broken>>

MagnoSleep ==
  /\ Goto("magno", "wait", "asleep")
  /\ tp' = TRUE
  /\ UNCHANGED <<bs, status, device, broken>>

(* Fault: the handler readies any thread it finds. *)
MagnoWakeup_Always ==
  /\ "magno" \in Drivers
  /\ \/ /\ tp
        /\ pc' = [pc EXCEPT !["magno"] = "awake"]
        /\ broken' = IF pc["magno"] = "asleep" THEN broken ELSE 1
        /\ UNCHANGED status
     \/ ~tp /\ Set("magno", "ERR_CALLBACK_WHILE_ACTIVE") /\ UNCHANGED <<pc, broken>>
  /\ tp' = FALSE
  /\ UNCHANGED <<bs, device>>

(* Awake but not yet running, the thread is in THD_STATE_READY. *)
MagnoWakeup ==
  /\ "magno" \in Drivers
  /\ \/ /\ tp /\ pc["magno"] # "awake"
        /\ pc' = [pc EXCEPT !["magno"] = "awake"]
        /\ broken' = IF pc["magno"] = "asleep" THEN broken ELSE 1
        /\ UNCHANGED status
     \/ /\ ~tp \/ pc["magno"] = "awake"
        /\ Set("magno", "ERR_CALLBACK_WHILE_ACTIVE")
        /\ UNCHANGED <<pc, broken>>
  /\ tp' = FALSE
  /\ UNCHANGED <<bs, device>>

MagnoReceive ==
  /\ Goto("magno", "read", "wait")
  /\ UNCHANGED status \/ Set("magno", "ERR_READING")
  /\ UNCHANGED <<bs, tp, device, broken>>

-----------------------------------------------------------------------------
(* Fault: the gyroscope's thread waits without a time-out too. *)
Timeout_NotGyro(d) ==
  /\ d \in Timed \ {"gyro"}
  /\ Goto(d, "asleep", "awake")
  /\ UNCHANGED <<bs, tp, status, device, broken>>

(* 100 ticks have passed: the kernel readies the thread. *)
Timeout(d) ==
  /\ d \in Timed
  /\ Goto(d, "asleep", "awake")
  /\ UNCHANGED <<bs, tp, status, device, broken>>

(* The thread runs again. *)
Awake(d) ==
  /\ Goto(d, "awake", "read")
  /\ Set(d, "OK")
  /\ tp' = (tp /\ d # "magno")
  /\ UNCHANGED <<bs, device, broken>>

Wait(d) == d \in Latched /\ BSemWait(d)

Step(d) ==
  \/ AdxlStart(d) \/ AdxlSad(d) \/ AdxlInit(d) \/ AdxlSettle(d) \/ ReadAccel(d)
  \/ IdCheck(d) \/ Wait(d) \/ Awake(d)
  \/ d = "gyro" /\ (GyroStart \/ GyroInitFails \/ GyroInit \/ GyroReceive)
  \/ d = "magno" /\ (MagnoStart \/ MagnoInitFails \/ MagnoInit \/ MagnoSleep \/ MagnoReceive)

Next ==
  \/ \E d \in Drivers : Step(d) \/ Timeout(d) \/ Sample(d)
  \/ MagnoWakeup

Spec == Init /\ [][Next]_vars

(* Threads run, time passes, and the low-g accelerometer, which has nothing else
   to wake it, goes on sampling. *)
FairSpec ==
  /\ Spec
  /\ \A d \in Drivers :
       /\ WF_vars(Step(d)) /\ WF_vars(Timeout(d))
       /\ WF_vars(d = "lg" /\ Sample(d))

-----------------------------------------------------------------------------
(***************************************************************************)
(* Properties.                                                             *)
(***************************************************************************)

Where == {"start", "check", "init", "settle", "read", "wait", "asleep", "awake", "sad"}

Statuses ==
  {"UNKNOWN", "WAIT", "OK", "ERR_INVALID_DEVICE_ID", "ERR_SELFTEST_FAIL",
   "ERR_INITIALISING", "ERR_READING", "ERR_CALLBACK_WHILE_ACTIVE"}

(* Every variable has its type; the semaphores are binary. *)
TypeOK ==
  /\ pc \in [Drivers -> Where]
  /\ bs \in [Signalled -> {0, 1}]
  /\ tp \in BOOLEAN
  /\ status \in [Drivers -> Statuses]
  /\ enabled \in [Signalled -> BOOLEAN]
  /\ data \in [Signalled -> BOOLEAN]
  /\ missed \in [Signalled -> BOOLEAN]
  /\ broken \in {0, 1}

(* A thread never sleeps beside an unread sample whose interrupt came after its
   semaphore was initialised: no edge falls between a read and the wait. *)
NoWakeupLost ==
  \A d \in Signalled :
    pc[d] \in {"wait", "asleep"} /\ Up(d) /\ bs[d] = 0 => missed[d]

(* The magnetometer's handler readies only a thread that is asleep: a thread
   put twice into the ready list would corrupt it. *)
ReadyListIntact == broken = 0

(* A thread that sleeps reads again, whatever was lost, except the low-g
   accelerometer's after an interrupt that no one was told of. *)
DriversKeepReading ==
  \A d \in Drivers :
    pc[d] = "asleep" ~> pc[d] = "read" \/ (d \notin Timed /\ missed[d])
=============================================================================
