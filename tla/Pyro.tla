-------------------------------- MODULE Pyro --------------------------------
(***************************************************************************)
(* Firing the pyrotechnic channels (m2fc/firmware/pyro.c).  pyro_fire is   *)
(* ordinary blocking code, and two threads can be inside it at once: the   *)
(* mission thread, which fires the drogue and then the main charges, and   *)
(* the shell thread, whose "pyro fire" command fires every channel.  They  *)
(* share the output pads and the "fired" flags of the status, unlocked.    *)
(*                                                                         *)
(* A step is the code between two points where the scheduler can switch    *)
(* threads: each pad is written on its own, each sleep ends on its own.    *)
(***************************************************************************)
EXTENDS Integers

CONSTANTS
  NumChannels,   \* pyro channels on the board (3)
  Role,          \* conf.pyro_1..3: "unused", "drogue" or "main"
  Pulses,        \* conf.pyro_firetime / 20
  MaxShell       \* bound of the model: "pyro fire" commands typed

Channels == 1..NumChannels
Firers == {"mission", "shell"}

ASSUME PyroAssumption ==
  /\ NumChannels \in Nat
  /\ Role \in [Channels -> {"unused", "drogue", "main"}]
  /\ Pulses \in Nat
  /\ MaxShell \in Nat

VARIABLES
  pad,       \* the channels whose fire pad is high
  pyro_f,    \* the channels flagged as fired in the local status
  pulse,     \* per thread: "idle", or where it is in a pulse of pyro_fire
  want,      \* per thread: the channels of its current call
  pos,       \* per thread: the channel whose pad it writes next
  left,      \* per thread: pulses still to go, this one included
  stage,     \* how far the mission is: "ascent", "drogue", "main"
  commands   \* "pyro fire" commands so far

pyroVars == <<pad, pyro_f, pulse, want, pos, left, stage, commands>>

-----------------------------------------------------------------------------

PyroInit ==
  /\ pad = {} /\ pyro_f = {}
  /\ pulse = [f \in Firers |-> "idle"]
  /\ want = [f \in Firers |-> {}]
  /\ pos = [f \in Firers |-> 1]
  /\ left = [f \in Firers |-> 0]
  /\ stage = "ascent"
  /\ commands = 0

(* Entry of pyro_fire: overwrite the flags; no pulse fits a short firetime. *)
PyroFire(f, channels) ==
  /\ pulse[f] = "idle"
  /\ pyro_f' = channels
  /\ want' = [want EXCEPT ![f] = channels]
  /\ left' = [left EXCEPT ![f] = Pulses]
  /\ pos' = [pos EXCEPT ![f] = 1]
  /\ pulse' = IF Pulses = 0 THEN pulse ELSE [pulse EXCEPT ![f] = "set"]
  /\ UNCHANGED pad

WithRole(r) == {c \in Channels : Role[c] = r}

(* Fault: the roles are mixed up. *)
PyroFireDrogue_Main ==
  /\ stage = "ascent" /\ stage' = "drogue"
  /\ PyroFire("mission", WithRole("main"))
  /\ UNCHANGED commands

PyroFireDrogue ==
  /\ stage = "ascent" /\ stage' = "drogue"
  /\ PyroFire("mission", WithRole("drogue"))
  /\ UNCHANGED commands

PyroFireMain ==
  /\ stage = "drogue" /\ stage' = "main"
  /\ PyroFire("mission", WithRole("main"))
  /\ UNCHANGED commands

(* The shell command, after its countdown of five seconds. *)
CmdPyro ==
  /\ commands < MaxShell /\ commands' = commands + 1
  /\ PyroFire("shell", Channels)
  /\ UNCHANGED stage

Same == UNCHANGED <<pyro_f, want, stage, commands>>

(* palSetPad on the next channel of the call, in channel order. *)
SetPad(f) ==
  /\ pulse[f] = "set" /\ pos[f] <= NumChannels
  /\ pad' = pad \union (want[f] \intersect {pos[f]})
  /\ pos' = [pos EXCEPT ![f] = @ + 1]
  /\ UNCHANGED <<pulse, left>> /\ Same

(* All pads written: sleep for 10 ms with them high. *)
HoldHigh(f) ==
  /\ pulse[f] = "set" /\ pos[f] > NumChannels
  /\ pulse' = [pulse EXCEPT ![f] = "high"]
  /\ UNCHANGED <<pad, pos, left>> /\ Same

StartClear(f) ==
  /\ pulse[f] = "high"
  /\ pulse' = [pulse EXCEPT ![f] = "clear"]
  /\ pos' = [pos EXCEPT ![f] = 1]
  /\ UNCHANGED <<pad, left>> /\ Same

(* Fault: the last channel is forgotten. *)
ClearPad_NotLast(f) ==
  /\ pulse[f] = "clear" /\ pos[f] <= NumChannels
  /\ pad' = pad \ (want[f] \intersect ({pos[f]} \ {NumChannels}))
  /\ pos' = [pos EXCEPT ![f] = @ + 1]
  /\ UNCHANGED <<pulse, left>> /\ Same

(* palClearPad on the next channel of the call. *)
ClearPad(f) ==
  /\ pulse[f] = "clear" /\ pos[f] <= NumChannels
  /\ pad' = pad \ (want[f] \intersect {pos[f]})
  /\ pos' = [pos EXCEPT ![f] = @ + 1]
  /\ UNCHANGED <<pulse, left>> /\ Same

(* All pads written: sleep for 10 ms with them low. *)
HoldLow(f) ==
  /\ pulse[f] = "clear" /\ pos[f] > NumChannels
  /\ pulse' = [pulse EXCEPT ![f] = "low"]
  /\ UNCHANGED <<pad, pos, left>> /\ Same

(* The loop test: another pulse, or return to the caller. *)
NextPulse(f) ==
  /\ pulse[f] = "low"
  /\ left' = [left EXCEPT ![f] = @ - 1]
  /\ pulse' = [pulse EXCEPT ![f] = IF left[f] > 1 THEN "set" ELSE "idle"]
  /\ pos' = [pos EXCEPT ![f] = 1]
  /\ UNCHANGED pad /\ Same

Pulse(f) ==
  SetPad(f) \/ HoldHigh(f) \/ StartClear(f) \/ ClearPad(f) \/ HoldLow(f) \/ NextPulse(f)

(* Nobody calls any more: the mission has fired both, the operator stops. *)
AllFired ==
  /\ stage = "main" /\ commands = MaxShell
  /\ \A f \in Firers : pulse[f] = "idle"
  /\ UNCHANGED pyroVars

PyroNext ==
  \/ PyroFireDrogue \/ PyroFireMain \/ CmdPyro
  \/ \E f \in Firers : Pulse(f)
  \/ AllFired

PyroSpec == PyroInit /\ [][PyroNext]_pyroVars

-----------------------------------------------------------------------------
(***************************************************************************)
(* Properties.                                                             *)
(***************************************************************************)

(* Every variable has its type. *)
PyroTypeOK ==
  /\ pad \in SUBSET Channels /\ pyro_f \in SUBSET Channels
  /\ pulse \in [Firers -> {"idle", "set", "high", "clear", "low"}]
  /\ want \in [Firers -> SUBSET Channels]
  /\ pos \in [Firers -> 1..(NumChannels + 1)]
  /\ left \in [Firers -> 0..Pulses]
  /\ stage \in {"ascent", "drogue", "main"}
  /\ commands \in 0..MaxShell

(* Thread f has not yet cleared channel c in the pulse it is in. *)
Driving(f, c) ==
  /\ c \in want[f]
  /\ \/ pulse[f] = "set"
     \/ pulse[f] = "high"
     \/ pulse[f] = "clear" /\ pos[f] <= c

(* A pad is high only while some thread is in a pulse on that channel and will
   still clear it: with both threads out of pyro_fire, no igniter is driven,
   however their pulses overlapped. *)
NoPadLeftHigh == \A c \in pad : \E f \in Firers : Driving(f, c)

(* Unless the operator fires by hand, a main charge is driven only once the
   mission has come to the main, and an unused channel never. *)
ChargesInTurn ==
  commands = 0 =>
    /\ stage = "ascent" => pad = {}
    /\ stage = "drogue" => pad \subseteq WithRole("drogue")
    /\ pad \intersect WithRole("unused") = {}
=============================================================================
