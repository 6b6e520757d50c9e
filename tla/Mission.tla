------------------------------ MODULE Mission ------------------------------
(***************************************************************************)
(* The mission state machine of the flight computer                        *)
(* (m2fc/firmware/mission.c): one thread that, about every millisecond,    *)
(* samples the state estimate, runs the function of its current state and  *)
(* sleeps.  Two of the states block for the length of a pyro firing.       *)
(*                                                                         *)
(* Time is the kernel's tick count.  The thread is not the most urgent one *)
(* of the board, so a wake-up, or the rest of a loop body, may come late;  *)
(* MaxLag bounds how late.  Accelerations and heights are integers,        *)
(* velocities are in units of the 0.5 m/s of the landing test.             *)
(***************************************************************************)
EXTENDS Integers, Sequences

CONSTANTS
  Estimates,      \* the values state_estimation_get_state may return
  ArmTime,        \* ticks before which the pad ignores acceleration (30000)
  IgnitionAccel,  \* conf.ignition_accel
  BurnoutTime,    \* conf.burnout_time
  ApogeeTime,     \* conf.apogee_time
  MainAltitude,   \* conf.main_altitude
  MainTime,       \* conf.main_time
  LandingTime,    \* conf.landing_time
  FireTime,       \* ticks pyro_fire blocks for
  FireLag,        \* lateness that the sleeps of one pyro_fire may add up to
  MaxLag,         \* lateness of one wake-up of the thread
  LaunchBy,       \* bound of the model: no launch is sensed after this tick
  MaxTime         \* bound of the model: the clock stops here

ASSUME EstimatesAssumption == Estimates \subseteq [h : Int, v : Int, a : Int]

ASSUME TimesAssumption ==
  /\ ArmTime \in Nat /\ BurnoutTime \in Nat /\ ApogeeTime \in Nat
  /\ MainTime \in Nat /\ LandingTime \in Nat
  /\ FireTime \in Nat /\ FireLag \in Nat /\ MaxLag \in Nat
  /\ LaunchBy \in Nat /\ MaxTime \in Nat

ASSUME ThresholdsAssumption == IgnitionAccel \in Nat /\ MainAltitude \in Nat

States == {"PAD", "IGNITION", "POWERED_ASCENT", "FREE_ASCENT", "APOGEE",
           "DROGUE_DESCENT", "RELEASE_MAIN", "MAIN_DESCENT", "LAND", "LANDED"}

VARIABLES
  now,        \* chTimeNow()
  cur_state,
  pc,         \* where the thread is: "sample", "run", "fire" or "sleep"
  wake,       \* the tick at which the loop body was, or is, due to go on
  state,      \* data.state, the last sample
  h_ground, t_launch, t_apogee,
  trust,      \* state_estimation_trust_barometer, a uint8_t
  fired       \* history: the charges pyro_fire_* was called for

vars == <<now, cur_state, pc, wake, state, h_ground, t_launch, t_apogee,
          trust, fired>>

-----------------------------------------------------------------------------

Init ==
  /\ now = 0
  /\ cur_state = "PAD"
  /\ pc = "sample"
  /\ wake = 0
  /\ state \in Estimates
  /\ h_ground = 0 /\ t_launch = 0 /\ t_apogee = 0
  /\ trust = 0              \* state_estimation_init
  /\ fired = <<>>

Elapsed(start) == now - start          \* chTimeElapsedSince

(* The top of the loop: copy the current estimate. *)
Sample ==
  /\ pc = "sample"
  /\ \E e \in Estimates :
       /\ (cur_state = "PAD" /\ e.a > IgnitionAccel) => now <= LaunchBy
       /\ state' = e
  /\ pc' = "run"
  /\ UNCHANGED <<now, cur_state, wake, h_ground, t_launch, t_apogee, trust,
                 fired>>

-----------------------------------------------------------------------------
(***************************************************************************)
(* The state functions, each with the rest of the loop body: move to the   *)
(* state returned and sleep for a millisecond.  Every one of them writes   *)
(* the barometer flag.                                                     *)
(***************************************************************************)

Return(next) ==
  /\ pc = "run"
  /\ cur_state' = next
  /\ pc' = "sleep"
  /\ wake' = now + 1
  /\ UNCHANGED <<now, state>>

DoPad ==
  /\ cur_state = "PAD"
  /\ Return(IF now >= ArmTime /\ state.a > IgnitionAccel
              THEN "IGNITION" ELSE "PAD")
  /\ trust' = 1
  /\ h_ground' = state.h
  /\ UNCHANGED <<t_launch, t_apogee, fired>>

DoIgnition ==
  /\ cur_state = "IGNITION"
  /\ Return("POWERED_ASCENT")
  /\ trust' = 0
  /\ t_launch' = now
  /\ UNCHANGED <<h_ground, t_apogee, fired>>

(* Fault: no timeout for a burnout that is never sensed. *)
BurntOut_NoTimeout == state.a < 0

BurntOut == state.a < 0 \/ Elapsed(t_launch) > BurnoutTime

(* Fault: the barometer is trusted during the burn. *)
DoPoweredAscent_Trusting ==
  /\ cur_state = "POWERED_ASCENT"
  /\ Return(IF BurntOut THEN "FREE_ASCENT" ELSE "POWERED_ASCENT")
  /\ trust' = 1
  /\ UNCHANGED <<h_ground, t_launch, t_apogee, fired>>

DoPoweredAscent ==
  /\ cur_state = "POWERED_ASCENT"
  /\ Return(IF BurntOut THEN "FREE_ASCENT" ELSE "POWERED_ASCENT")
  /\ trust' = 0
  /\ UNCHANGED <<h_ground, t_launch, t_apogee, fired>>

(* Fault: no timeout for an apogee that is never sensed. *)
PastApogee_NoTimeout == state.v < 0

PastApogee == state.v < 0 \/ Elapsed(t_launch) > ApogeeTime

(* Fault: the state that fires the drogue is skipped. *)
DoFreeAscent_NoDrogue ==
  /\ cur_state = "FREE_ASCENT"
  /\ Return(IF PastApogee THEN "DROGUE_DESCENT" ELSE "FREE_ASCENT")
  /\ trust' = 1
  /\ UNCHANGED <<h_ground, t_launch, t_apogee, fired>>

DoFreeAscent ==
  /\ cur_state = "FREE_ASCENT"
  /\ Return(IF PastApogee THEN "APOGEE" ELSE "FREE_ASCENT")
  /\ trust' = 1
  /\ UNCHANGED <<h_ground, t_launch, t_apogee, fired>>

(* Fault: no timeout for an altitude that never falls. *)
BelowMain_NoTimeout == state.h - h_ground < MainAltitude

BelowMain == (state.h - h_ground < MainAltitude) \/ Elapsed(t_apogee) > MainTime

DoDrogueDescent ==
  /\ cur_state = "DROGUE_DESCENT"
  /\ Return(IF BelowMain THEN "RELEASE_MAIN" ELSE "DROGUE_DESCENT")
  /\ trust' = 1
  /\ UNCHANGED <<h_ground, t_launch, t_apogee, fired>>

Settled == Elapsed(t_apogee) > LandingTime \/ (-1 < state.v /\ state.v < 1)

DoMainDescent ==
  /\ cur_state = "MAIN_DESCENT"
  /\ Return(IF Settled THEN "LAND" ELSE "MAIN_DESCENT")
  /\ trust' = 1
  /\ UNCHANGED <<h_ground, t_launch, t_apogee, fired>>

DoLand ==
  /\ cur_state \in {"LAND", "LANDED"}
  /\ Return("LANDED")
  /\ trust' = 1
  /\ UNCHANGED <<h_ground, t_launch, t_apogee, fired>>

-----------------------------------------------------------------------------
(* The two states that fire: the call, which blocks, and its return. *)

Fire(charge) ==
  /\ pc = "run"
  /\ pc' = "fire"
  /\ wake' = now + FireTime
  /\ trust' = 1
  /\ fired' = Append(fired, charge)
  /\ UNCHANGED <<now, cur_state, state, h_ground, t_launch>>

DoApogee ==
  /\ cur_state = "APOGEE"
  /\ Fire("drogue")
  /\ t_apogee' = now

DoReleaseMain ==
  /\ cur_state = "RELEASE_MAIN"
  /\ Fire("main")
  /\ UNCHANGED t_apogee

(* Fault: both firings return to the drogue descent. *)
FireReturns_ToDrogue ==
  /\ pc = "fire"
  /\ now >= wake
  /\ cur_state' = "DROGUE_DESCENT"
  /\ pc' = "sleep"
  /\ wake' = now + 1
  /\ UNCHANGED <<now, state, h_ground, t_launch, t_apogee, trust, fired>>

FireReturns ==
  /\ pc = "fire"
  /\ now >= wake
  /\ cur_state' = IF cur_state = "APOGEE" THEN "DROGUE_DESCENT" ELSE "MAIN_DESCENT"
  /\ pc' = "sleep"
  /\ wake' = now + 1
  /\ UNCHANGED <<now, state, h_ground, t_launch, t_apogee, trust, fired>>

Wake ==
  /\ pc = "sleep"
  /\ now >= wake
  /\ pc' = "sample"
  /\ UNCHANGED <<now, cur_state, wake, state, h_ground, t_launch, t_apogee, trust,
                 fired>>

-----------------------------------------------------------------------------
(* Time passes, as long as the thread is not later than the bound allows. *)
Tick ==
  /\ now < MaxTime
  /\ now < wake + (IF pc = "fire" THEN FireLag ELSE MaxLag)
  /\ now' = now + 1
  /\ UNCHANGED <<cur_state, pc, wake, state, h_ground, t_launch, t_apogee, trust,
                 fired>>

(* The thread never ends; only the model's clock does. *)
ClockStops ==
  /\ now = MaxTime
  /\ UNCHANGED vars

RunState ==
  \/ DoPad \/ DoIgnition \/ DoPoweredAscent \/ DoFreeAscent \/ DoApogee
  \/ DoDrogueDescent \/ DoReleaseMain \/ DoMainDescent \/ DoLand

Thread == Sample \/ RunState \/ FireReturns \/ Wake

Next == Thread \/ Tick \/ ClockStops

Spec == Init /\ [][Next]_vars

(***************************************************************************)
(* Fairness: the kernel's tick keeps coming, and a ready thread runs in    *)
(* the end: everything more urgent than it blocks.                         *)
(***************************************************************************)
FairSpec == Spec /\ WF_vars(Thread) /\ WF_vars(Tick)

-----------------------------------------------------------------------------
(***************************************************************************)
(* Properties.                                                             *)
(***************************************************************************)

(* Every variable has its type (the types of mission.c's instance_data). *)
TypeOK ==
  /\ now \in Nat /\ wake \in Nat
  /\ cur_state \in States
  /\ pc \in {"sample", "run", "fire", "sleep"}
  /\ state \in Estimates
  /\ h_ground \in Int /\ t_launch \in Nat /\ t_apogee \in Nat
  /\ trust \in {0, 1}
  /\ fired \in Seq({"drogue", "main"})

Ready(s)  == cur_state = s /\ pc # "fire"
Firing(s) == cur_state = s /\ pc = "fire"

(* How much of the recovery system is out, read off the thread's position. *)
NoneOut ==
  \/ cur_state \in {"PAD", "IGNITION", "POWERED_ASCENT", "FREE_ASCENT"}
  \/ Ready("APOGEE")
DrogueOut ==
  Firing("APOGEE") \/ cur_state = "DROGUE_DESCENT" \/ Ready("RELEASE_MAIN")
BothOut ==
  Firing("RELEASE_MAIN") \/ cur_state \in {"MAIN_DESCENT", "LAND", "LANDED"}

(* The charges fired are determined by the state: none before APOGEE calls
   pyro_fire_drogue, only the drogue until RELEASE_MAIN calls pyro_fire_main,
   and then drogue and main, once each and in this order, for good. *)
DeploymentOrder ==
  /\ NoneOut   => fired = <<>>
  /\ DrogueOut => fired = <<"drogue">>
  /\ BothOut   => fired = <<"drogue", "main">>

(* No charge is fired in the first ArmTime ticks after power-up, nor in the
   three loop bodies after a launch is sensed, whatever the estimates say. *)
NoChargeBeforeArming ==
  fired # <<>> => t_launch > ArmTime /\ t_apogee >= t_launch + 3

(* The barometer is not trusted while the motor burns (transonic pressure), and
   is trusted again whenever its altitude decides about a parachute. *)
BarometerTrust ==
  /\ cur_state = "POWERED_ASCENT" => trust = 0
  /\ fired # <<>> => trust = 1

Later(a, b) == IF a > b THEN a ELSE b

(* The longest that one loop body, with the sleep before it, can take. *)
Loop == MaxLag + 1

FireBound == FireTime + FireLag

(* How long after launch coasting, and after apogee each descent, can last. *)
CoastLimit  == Later(BurnoutTime + Loop, ApogeeTime)
DrogueLimit == Later(FireBound, MainTime)
DrogueBound == CoastLimit + Loop + Loop
MainBound   == DrogueLimit + Loop + Loop
MainLimit   == Later(MainBound + FireBound, LandingTime)
LandBound   == MainLimit + Loop

(* With sensors that never show apogee, the timeouts still fire the drogue at
   most DrogueBound ticks after the launch was sensed. *)
DrogueByTimeout ==
  cur_state \in {"POWERED_ASCENT", "FREE_ASCENT", "APOGEE"} /\ fired = <<>>
     => now <= t_launch + DrogueBound

(* With an altitude that never falls, main_time still fires the main parachute
   at most MainBound ticks after apogee, the blocking drogue firing included. *)
MainByTimeout == fired = <<"drogue">> => now <= t_apogee + MainBound

(* With a velocity that never settles, landing_time still ends the flight. *)
LandedByTimeout ==
  fired = <<"drogue", "main">> /\ cur_state \in {"RELEASE_MAIN", "MAIN_DESCENT"}
     => now <= t_apogee + LandBound

(* Whatever the sensors say, a sensed launch ends in LANDED: no state of the
   flight can hold the machine for ever. *)
LaunchEndsLanded == cur_state = "IGNITION" ~> cur_state = "LANDED"

-----------------------------------------------------------------------------
(* The thread implements the flight plan. *)

Phase ==
  CASE cur_state \in {"PAD", "IGNITION"}                 -> "pad"
    [] cur_state = "POWERED_ASCENT"                      -> "boost"
    [] cur_state = "FREE_ASCENT" \/ Ready("APOGEE")      -> "coast"
    [] DrogueOut                                         -> "drogue"
    [] cur_state \in {"LAND", "LANDED"}                   -> "down"
    [] OTHER                                             -> "main"

Plan == INSTANCE FlightPlan WITH phase <- Phase, charges <- fired

(* Every step of the thread is a step of the plan or invisible to it. *)
ImplementsPlan == Plan!PlanSpec
=============================================================================
