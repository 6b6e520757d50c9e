---------------------------- MODULE FlightProofs ----------------------------
(***************************************************************************)
(* Proofs about the flight: the mission thread and the charges it fires.   *)
(*                                                                         *)
(* Mission: its safety invariants for every configuration, and that it     *)
(* implements FlightPlan.                                                  *)
(*                                                                         *)
(* Pyro: for any number of channels, assignment of roles and length of a   *)
(* firing, two overlapping calls of pyro_fire never leave an igniter       *)
(* energised, and the mission drives only the charge it is at.             *)
(***************************************************************************)
EXTENDS Mission, Pyro, SequenceTheorems, TLAPS

(* The lateness of a wake-up that Tick allows in the thread's position. *)
Lag == IF pc = "fire" THEN FireLag ELSE MaxLag

(* The thread is never later than its bound, and runs only when it is due. *)
OnTime ==
  /\ now <= wake + Lag
  /\ pc \in {"sample", "run"} => wake <= now
  /\ pc = "fire" => cur_state \in {"APOGEE", "RELEASE_MAIN"}

(* How late after launch, or after apogee, the loop body of each state may be
   due: the strengthening that makes the three timeouts inductive. *)
DueAfterLaunch ==
  /\ cur_state = "IGNITION" => wake > ArmTime
  /\ cur_state = "POWERED_ASCENT" =>
       /\ wake <= t_launch + BurnoutTime + 1
       /\ wake >= t_launch + 1
  /\ cur_state = "FREE_ASCENT" =>
       /\ wake <= t_launch + CoastLimit + 1
       /\ wake >= t_launch + 2
  /\ Ready("APOGEE") =>
       /\ wake <= t_launch + CoastLimit + 1 + Loop
       /\ wake >= t_launch + 3
  /\ cur_state \notin {"PAD", "IGNITION"} => t_launch > ArmTime

DueAfterApogee ==
  /\ Firing("APOGEE") => wake = t_apogee + FireTime
  /\ cur_state = "DROGUE_DESCENT" =>
       wake <= t_apogee + DrogueLimit + 1
  /\ Ready("RELEASE_MAIN") =>
       wake <= t_apogee + DrogueLimit + 1 + Loop
  /\ Firing("RELEASE_MAIN") => wake <= t_apogee + MainBound + FireTime
  /\ cur_state = "MAIN_DESCENT" =>
       wake <= t_apogee + MainLimit + 1

Recovery ==
  /\ DeploymentOrder
  /\ BarometerTrust
  /\ ~NoneOut => trust = 1 /\ t_apogee >= t_launch + 3

IInv == TypeOK /\ OnTime /\ DueAfterLaunch /\ DueAfterApogee /\ Recovery

-----------------------------------------------------------------------------
(* The initial state satisfies the inductive invariant. *)
LEMMA InitIInv == Init => IInv
<1> SUFFICES ASSUME Init PROVE IInv
  OBVIOUS
<1> USE TimesAssumption DEF Init
<1>1. TypeOK
  BY DEF TypeOK, States
<1>2. OnTime
  BY DEF OnTime, Lag
<1>3. DueAfterLaunch /\ DueAfterApogee
  BY DEF DueAfterLaunch, DueAfterApogee, Ready, Firing
<1>4. Recovery
  BY DEF Recovery, DeploymentOrder, BarometerTrust, NoneOut, DrogueOut,
         BothOut, Ready, Firing
<1> QED
  BY <1>1, <1>2, <1>3, <1>4 DEF IInv

(* Every step preserves the types. *)
LEMMA TypeStep == TypeOK /\ [Next]_vars => TypeOK'
<1> SUFFICES ASSUME TypeOK, [Next]_vars PROVE TypeOK'
  OBVIOUS
<1> USE DEF TypeOK, States
<1>1. CASE Sample
  BY <1>1 DEF Sample
<1>2. CASE RunState
  <2>1. CASE DoPad
    <3>1. state.h \in Int
      BY EstimatesAssumption
    <3> QED
      BY <2>1, <3>1 DEF DoPad, Return
  <2>2. CASE DoIgnition
    BY <2>2 DEF DoIgnition, Return
  <2>3. CASE DoPoweredAscent
    BY <2>3 DEF DoPoweredAscent, BurntOut, Return
  <2>4. CASE DoFreeAscent
    BY <2>4 DEF DoFreeAscent, PastApogee, Return
  <2>5. CASE DoDrogueDescent \/ DoMainDescent \/ DoLand
    BY <2>5 DEF DoDrogueDescent, DoMainDescent, DoLand, BelowMain, Settled, Return
  <2>6. CASE DoApogee \/ DoReleaseMain
    BY <2>6, TimesAssumption DEF DoApogee, DoReleaseMain, Fire
  <2> QED
    BY <1>2, <2>1, <2>2, <2>3, <2>4, <2>5, <2>6 DEF RunState
<1>3. CASE FireReturns \/ Wake
  BY <1>3, TimesAssumption DEF FireReturns, Wake
<1>4. CASE Tick
  BY <1>4, TimesAssumption DEF Tick
<1>5. CASE UNCHANGED vars
  BY <1>5 DEF vars
<1> QED
  BY <1>1, <1>2, <1>3, <1>4, <1>5 DEF Next, Thread, ClockStops

-----------------------------------------------------------------------------
(* Arithmetic of the bounds, so that later steps need not open them. *)
LEMMA Bounds ==
  /\ Loop \in Nat /\ Loop >= 1 /\ Loop = MaxLag + 1
  /\ FireBound \in Nat /\ FireBound = FireTime + FireLag
  /\ CoastLimit \in Nat
  /\ CoastLimit >= BurnoutTime + Loop
  /\ CoastLimit >= ApogeeTime
  /\ DrogueLimit \in Nat
  /\ DrogueLimit >= FireBound
  /\ DrogueLimit >= MainTime
  /\ MainBound \in Nat
  /\ MainBound = DrogueLimit + Loop + Loop
  /\ MainLimit \in Nat
  /\ MainLimit >= MainBound + FireBound
  /\ MainLimit >= LandingTime
  BY TimesAssumption DEF Loop, FireBound, Later, CoastLimit, DrogueLimit, MainBound, MainLimit

(* How late the drogue descent can still be looking at its sensors. *)
LEMMA DrogueDescentInTime ==
  ASSUME IInv, cur_state = "DROGUE_DESCENT"
  PROVE  now <= t_apogee + DrogueLimit + Loop
<1>1. now <= wake + MaxLag
  BY DEF IInv, OnTime, Lag
<1>2. wake <= t_apogee + DrogueLimit + 1
  BY DEF IInv, DueAfterApogee
<1>3. now \in Nat /\ wake \in Nat /\ t_apogee \in Nat
  BY DEF IInv, TypeOK
<1> QED
  BY <1>1, <1>2, <1>3, Bounds, TimesAssumption

(* The state functions that only choose the next state keep the invariant. *)
LEMMA SensorStep ==
  ASSUME IInv, TypeOK',
         DoPad \/ DoIgnition \/ DoPoweredAscent \/ DoFreeAscent
           \/ DoDrogueDescent \/ DoMainDescent \/ DoLand
  PROVE  IInv'
<1> USE Bounds, TimesAssumption
    DEF IInv, TypeOK, OnTime, Lag, DueAfterLaunch, DueAfterApogee, Recovery,
        DeploymentOrder, BarometerTrust, NoneOut, DrogueOut, BothOut, Ready,
        Firing, Elapsed, Return
<1>1. CASE DoPad
  BY <1>1 DEF DoPad
<1>2. CASE DoIgnition
  BY <1>2 DEF DoIgnition
<1>3. CASE DoPoweredAscent
  BY <1>3 DEF DoPoweredAscent, BurntOut
<1>4. CASE DoFreeAscent
  BY <1>4 DEF DoFreeAscent, PastApogee
<1>5. CASE DoDrogueDescent
  <2>1. BelowMain \/ now <= t_apogee + MainTime
    BY DEF BelowMain
  <2>2. CASE BelowMain
    <3>1. wake' <= t_apogee' + DrogueLimit + 1 + Loop
      BY <1>5, DrogueDescentInTime DEF DoDrogueDescent
    <3>2. cur_state' = "RELEASE_MAIN" /\ pc' = "sleep"
      BY <1>5, <2>2 DEF DoDrogueDescent
    <3> QED
      BY <1>5, <3>1, <3>2 DEF DoDrogueDescent
  <2>3. CASE ~BelowMain
    BY <1>5, <2>1, <2>3 DEF DoDrogueDescent
  <2> QED
    BY <2>2, <2>3
<1>6. CASE DoMainDescent
  <2>1. Settled \/ now <= t_apogee + LandingTime
    BY DEF Settled
  <2>2. CASE Settled
    BY <1>6, <2>2 DEF DoMainDescent
  <2>3. CASE ~Settled
    BY <1>6, <2>1, <2>3 DEF DoMainDescent
  <2> QED
    BY <2>2, <2>3
<1>7. CASE DoLand
  BY <1>7 DEF DoLand
<1> QED
  BY <1>1, <1>2, <1>3, <1>4, <1>5, <1>6, <1>7

(* Firing the main after the drogue makes the full history of charges. *)
LEMMA Appended == Append(<<"drogue">>, "main") = <<"drogue", "main">>
<1> DEFINE C == {"drogue", "main"}
           s == Append(<<"drogue">>, "main")
           t == <<"drogue", "main">>
<1>1. s \in Seq(C) /\ Len(s) = 2 /\ s[1] = "drogue" /\ s[2] = "main"
  BY AppendProperties
<1>2. t \in Seq(C) /\ Len(t) = 2 /\ t[1] = "drogue" /\ t[2] = "main"
  OBVIOUS
<1>3. \A i \in 1..Len(s) : s[i] = t[i]
  BY <1>1, <1>2
<1> HIDE DEF s, t
<1>4. s = t
  BY <1>1, <1>2, <1>3, SeqEqual
<1> QED
  BY <1>4 DEF s, t

(* The timers' part of the two firings: when they are called, when they end. *)
LEMMA DrogueCallInTime ==
  ASSUME IInv, Ready("APOGEE")
  PROVE  now <= t_launch + DrogueBound
<1>1. now <= wake + MaxLag
  BY DEF IInv, OnTime, Lag, Ready
<1>2. wake <= t_launch + CoastLimit + 1 + Loop
  BY DEF IInv, DueAfterLaunch
<1>3. now \in Nat /\ wake \in Nat /\ t_launch \in Nat
  BY DEF IInv, TypeOK
<1> QED
  BY <1>1, <1>2, <1>3, Bounds, TimesAssumption DEF DrogueBound

LEMMA MainCallInTime ==
  ASSUME IInv, Ready("RELEASE_MAIN")
  PROVE  now <= t_apogee + MainBound
<1>1. now <= wake + MaxLag
  BY DEF IInv, OnTime, Lag, Ready
<1>2. wake <= t_apogee + DrogueLimit + 1 + Loop
  BY DEF IInv, DueAfterApogee
<1>3. now \in Nat /\ wake \in Nat /\ t_apogee \in Nat
  BY DEF IInv, TypeOK
<1> QED
  BY <1>1, <1>2, <1>3, Bounds, TimesAssumption

LEMMA MainDoneInTime ==
  ASSUME IInv, Firing("RELEASE_MAIN")
  PROVE  now <= t_apogee + MainLimit
<1>1. now <= wake + FireLag
  BY DEF IInv, OnTime, Lag, Firing
<1>2. wake <= t_apogee + MainBound + FireTime
  BY DEF IInv, DueAfterApogee
<1>3. now \in Nat /\ wake \in Nat /\ t_apogee \in Nat
  BY DEF IInv, TypeOK
<1> QED
  BY <1>1, <1>2, <1>3, Bounds, TimesAssumption

(* A charge is appended only where the order allows it. *)
LEMMA FireStep ==
  ASSUME IInv, TypeOK', DoApogee \/ DoReleaseMain
  PROVE  IInv'
<1> USE Bounds, TimesAssumption
    DEF IInv, TypeOK, OnTime, Lag, DueAfterLaunch, DueAfterApogee, Recovery,
        DeploymentOrder, BarometerTrust, NoneOut, DrogueOut, BothOut, Ready,
        Firing, Fire
<1>1. CASE DoApogee
  <2>1. fired' = <<"drogue">>
    BY <1>1 DEF DoApogee
  <2> QED
    BY <1>1, <2>1 DEF DoApogee
<1>2. CASE DoReleaseMain
  <2>1. fired' = <<"drogue", "main">>
    BY <1>2, Appended DEF DoReleaseMain
  <2>2. now <= t_apogee + MainBound
    BY <1>2, MainCallInTime DEF DoReleaseMain
  <2>3. wake' <= t_apogee' + MainBound + FireTime
    BY <1>2, <2>2 DEF DoReleaseMain
  <2>4. OnTime' /\ DueAfterLaunch' /\ DueAfterApogee'
    BY <1>2, <2>3 DEF DoReleaseMain
  <2>5. Recovery'
    BY <1>2, <2>1 DEF DoReleaseMain
  <2> QED
    BY <2>4, <2>5
<1> QED
  BY <1>1, <1>2

(* Sampling, waking up, returning from a firing and the clock. *)
LEMMA OtherStep ==
  ASSUME IInv, TypeOK', Sample \/ FireReturns \/ Wake \/ Tick \/ UNCHANGED vars
  PROVE  IInv'
<1> USE Bounds, TimesAssumption
    DEF IInv, TypeOK, OnTime, Lag, DueAfterLaunch, DueAfterApogee, Recovery,
        DeploymentOrder, BarometerTrust, NoneOut, DrogueOut, BothOut, Ready, Firing
<1>1. CASE Sample
  BY <1>1 DEF Sample
<1>2. CASE FireReturns
  <2>1. CASE cur_state = "APOGEE"
    BY <1>2, <2>1 DEF FireReturns
  <2>2. CASE cur_state = "RELEASE_MAIN"
    <3>1. now <= t_apogee + MainLimit
      BY <1>2, <2>2, MainDoneInTime DEF FireReturns
    <3>2. wake' <= t_apogee' + MainLimit + 1
      BY <1>2, <3>1 DEF FireReturns
    <3> QED
      BY <1>2, <2>2, <3>2 DEF FireReturns
  <2> QED
    BY <1>2, <2>1, <2>2 DEF FireReturns
<1>3. CASE Wake
  BY <1>3 DEF Wake
<1>4. CASE Tick
  BY <1>4 DEF Tick
<1>5. CASE UNCHANGED vars
  BY <1>5 DEF vars
<1> QED
  BY <1>1, <1>2, <1>3, <1>4, <1>5

(* The inductive invariant holds in every reachable state. *)
THEOREM Invariance == Spec => []IInv
<1>1. IInv /\ [Next]_vars => IInv'
  <2> SUFFICES ASSUME IInv, [Next]_vars PROVE IInv'
    OBVIOUS
  <2>1. TypeOK'
    BY TypeStep DEF IInv
  <2> QED
    BY <2>1, SensorStep, FireStep, OtherStep DEF Next, Thread, RunState, ClockStops
<1> QED
  BY InitIInv, <1>1, PTL DEF Spec

(* Type correctness of the mission thread for every configuration. *)
THEOREM TypeCorrect == Spec => []TypeOK
<1>1. IInv => TypeOK
  BY DEF IInv
<1> QED
  BY Invariance, <1>1, PTL

(* Drogue before main, each once, whatever the sensors and the timing do. *)
THEOREM DeploymentIsOrdered == Spec => []DeploymentOrder
<1>1. IInv => DeploymentOrder
  BY DEF IInv, Recovery
<1> QED
  BY Invariance, <1>1, PTL

(* No pyro is fired in the first ArmTime ticks, nor in the first three loops of
   a flight. *)
THEOREM SafeOnPad == Spec => []NoChargeBeforeArming
<1>1. IInv => NoChargeBeforeArming
  BY DEF IInv, TypeOK, States, Recovery, DueAfterLaunch, DeploymentOrder, NoneOut,
         NoChargeBeforeArming
<1> QED
  BY Invariance, <1>1, PTL

(* The barometer is masked while the motor burns and trusted for every recovery
   decision. *)
THEOREM BarometerIsMasked == Spec => []BarometerTrust
<1>1. IInv => BarometerTrust
  BY DEF IInv, Recovery
<1> QED
  BY Invariance, <1>1, PTL

(* The drogue fires in time on the timers alone. *)
THEOREM DrogueInTime == Spec => []DrogueByTimeout
<1>1. IInv => DrogueByTimeout
  <2> SUFFICES ASSUME IInv, fired = <<>>,
                      cur_state \in {"POWERED_ASCENT", "FREE_ASCENT", "APOGEE"}
               PROVE  now <= t_launch + DrogueBound
    BY DEF DrogueByTimeout
  <2>1. CASE cur_state = "APOGEE"
    <3>1. Ready("APOGEE")
      BY <2>1 DEF IInv, Recovery, DeploymentOrder, DrogueOut, Ready, Firing
    <3> QED
      BY <3>1, DrogueCallInTime
  <2>2. CASE cur_state # "APOGEE"
    <3>1. now <= wake + MaxLag
      BY <2>2 DEF IInv, OnTime, Lag
    <3>2. now \in Nat /\ wake \in Nat /\ t_launch \in Nat
      BY DEF IInv, TypeOK
    <3>3. wake <= t_launch + CoastLimit + 1
      <4>1. CASE cur_state = "FREE_ASCENT"
        BY <4>1 DEF IInv, DueAfterLaunch
      <4>2. CASE cur_state = "POWERED_ASCENT"
        <5>1. wake <= t_launch + BurnoutTime + 1
          BY <4>2 DEF IInv, DueAfterLaunch
        <5> QED
          BY <5>1, <3>2, Bounds, TimesAssumption
      <4> QED
        BY <2>2, <4>1, <4>2
    <3> QED
      BY <3>1, <3>2, <3>3, Bounds, TimesAssumption DEF DrogueBound
  <2> QED
    BY <2>1, <2>2
<1> QED
  BY Invariance, <1>1, PTL

(* The main parachute is released in time on the timers alone. *)
THEOREM MainInTime == Spec => []MainByTimeout
<1>1. IInv => MainByTimeout
  <2> SUFFICES ASSUME IInv, fired = <<"drogue">>
               PROVE  now <= t_apogee + MainBound
    BY DEF MainByTimeout
  <2>1. Firing("APOGEE") \/ cur_state = "DROGUE_DESCENT" \/ Ready("RELEASE_MAIN")
    BY DEF IInv, TypeOK, States, OnTime, Recovery, DeploymentOrder, NoneOut, DrogueOut,
           BothOut, Ready, Firing
  <2> QED
    BY <2>1, Bounds, TimesAssumption
    DEF IInv, TypeOK, OnTime, Lag, DueAfterApogee, Ready, Firing
<1> QED
  BY Invariance, <1>1, PTL

(* The landing is declared in time on the timers alone. *)
THEOREM LandingInTime == Spec => []LandedByTimeout
<1>1. IInv => LandedByTimeout
  BY Bounds, TimesAssumption
  DEF IInv, TypeOK, OnTime, Lag, DueAfterApogee, Recovery, DeploymentOrder, DrogueOut,
      Ready, Firing, LandedByTimeout, LandBound
<1> QED
  BY Invariance, <1>1, PTL

-----------------------------------------------------------------------------
(* Mission implements FlightPlan: each step of the thread is a step of the plan
   or leaves the phase and the charges alone. *)
THEOREM Refinement == Spec => ImplementsPlan
<1>1. Init => Plan!PlanInit
  BY DEF Init, Plan!PlanInit, Phase, DrogueOut, Ready, Firing
<1>2. IInv /\ [Next]_vars => [Plan!PlanNext]_(Plan!planVars)
  <2> SUFFICES ASSUME IInv, [Next]_vars
               PROVE  Plan!PlanNext \/ (Phase' = Phase /\ fired' = fired)
    BY DEF Plan!planVars
  <2> USE DEF Plan!PlanNext, Plan!Launch, Plan!Burnout, Plan!Drogue, Plan!Main,
              Plan!Land, Phase, Ready, Firing, DrogueOut
  <2>1. CASE DoPad \/ DoIgnition \/ DoPoweredAscent \/ DoFreeAscent
    BY <2>1 DEF DoPad, DoIgnition, DoPoweredAscent, DoFreeAscent, BurntOut,
                PastApogee, Return
  <2>2. CASE DoDrogueDescent \/ DoMainDescent \/ DoLand
    BY <2>2 DEF DoDrogueDescent, DoMainDescent, DoLand, BelowMain, Settled, Return
  <2>3. CASE DoApogee \/ DoReleaseMain
    BY <2>3 DEF DoApogee, DoReleaseMain, Fire
  <2>4. CASE FireReturns
    BY <2>4 DEF FireReturns, IInv, OnTime
  <2>5. CASE Sample \/ Wake \/ Tick
    BY <2>5 DEF Sample, Wake, Tick, IInv, OnTime
  <2>6. CASE UNCHANGED vars
    BY <2>6 DEF vars
  <2> QED
    BY <2>1, <2>2, <2>3, <2>4, <2>5, <2>6 DEF Next, Thread, RunState, ClockStops
<1> QED
  BY <1>1, <1>2, Invariance, PTL DEF Spec, ImplementsPlan, Plan!PlanSpec

-----------------------------------------------------------------------------
(* Pyro. *)

(* What the mission thread's current call is for, as long as nobody has typed
   the shell command. *)
Wants ==
  /\ commands = 0 => pulse["shell"] = "idle"
  /\ stage = "ascent" => pulse["mission"] = "idle"
  /\ stage = "drogue" => want["mission"] = WithRole("drogue")
  /\ stage = "main" => want["mission"] = WithRole("main")

(* A thread inside pyro_fire has a pulse to finish. *)
Busy == \A f \in Firers : pulse[f] # "idle" => left[f] > 0

PyroIInv == PyroTypeOK /\ NoPadLeftHigh /\ Wants /\ Busy

-----------------------------------------------------------------------------
(* The initial state satisfies the invariant. *)
LEMMA PyroInitIInv == PyroInit => PyroIInv
  BY PyroAssumption DEF PyroInit, PyroIInv, PyroTypeOK, NoPadLeftHigh, Wants, Busy, Firers, Channels

(* A call of pyro_fire keeps the types and drives no pad yet. *)
LEMMA PyroFireStep ==
  ASSUME PyroTypeOK, NoPadLeftHigh, NEW f \in Firers, NEW channels \in SUBSET Channels,
         PyroFire(f, channels)
  PROVE  /\ NoPadLeftHigh'
         /\ pad' \in SUBSET Channels /\ pyro_f' \in SUBSET Channels
         /\ pulse' \in [Firers -> {"idle", "set", "high", "clear", "low"}]
         /\ want' \in [Firers -> SUBSET Channels]
         /\ pos' \in [Firers -> 1..(NumChannels + 1)]
         /\ left' \in [Firers -> 0..Pulses]
         /\ want'[f] = channels
         /\ \A g \in Firers \ {f} : pulse'[g] = pulse[g] /\ want'[g] = want[g]
<1> USE PyroAssumption DEF PyroFire, PyroTypeOK
<1>1. 1 \in 1..(NumChannels + 1) /\ Pulses \in 0..Pulses
  OBVIOUS
<1>2. NoPadLeftHigh'
  <2> SUFFICES ASSUME NEW c \in pad PROVE \E g \in Firers : Driving(g, c)'
    BY DEF NoPadLeftHigh
  <2>1. PICK g \in Firers : Driving(g, c)
    BY DEF NoPadLeftHigh
  <2>2. g # f
    BY <2>1 DEF Driving
  <2>3. pulse'[g] = pulse[g] /\ want'[g] = want[g] /\ pos'[g] = pos[g]
    BY <2>2
  <2> QED
    BY <2>1, <2>3 DEF Driving
<1> QED
  BY <1>1, <1>2

(* Every step preserves the types. *)
LEMMA PyroTypeStep == PyroTypeOK /\ NoPadLeftHigh /\ Busy /\ [PyroNext]_pyroVars => PyroTypeOK'
<1> SUFFICES ASSUME PyroTypeOK, NoPadLeftHigh, Busy, [PyroNext]_pyroVars PROVE PyroTypeOK'
  OBVIOUS
<1>0. "mission" \in Firers /\ "shell" \in Firers
      /\ \A r : WithRole(r) \in SUBSET Channels
  BY DEF Firers, WithRole
<1>1. CASE PyroFireDrogue
  BY <1>0, <1>1, PyroFireStep DEF PyroFireDrogue, PyroTypeOK
<1>2. CASE PyroFireMain
  BY <1>0, <1>2, PyroFireStep DEF PyroFireMain, PyroTypeOK
<1>3. CASE CmdPyro
  <2>1. commands' \in 0..MaxShell
    BY <1>3, PyroAssumption DEF CmdPyro, PyroTypeOK
  <2> QED
    BY <1>0, <1>3, <2>1, PyroFireStep DEF CmdPyro, PyroTypeOK
<1>4. ASSUME NEW f \in Firers, Pulse(f) PROVE PyroTypeOK'
  <2> USE PyroAssumption DEF PyroTypeOK, Same
  <2>0. /\ pos[f] \in 1..(NumChannels + 1) /\ left[f] \in 0..Pulses
        /\ pos[f] <= NumChannels => pos[f] + 1 \in 1..(NumChannels + 1)
        /\ 1 \in 1..(NumChannels + 1)
    OBVIOUS
  <2>1. CASE SetPad(f)
    <3>1. pos' \in [Firers -> 1..(NumChannels + 1)]
      BY <2>0, <2>1 DEF SetPad
    <3>2. pad' \in SUBSET Channels
      BY <2>1 DEF SetPad
    <3> QED
      BY <2>1, <3>1, <3>2 DEF SetPad
  <2>2. CASE HoldHigh(f)
    BY <2>2 DEF HoldHigh
  <2>3. CASE StartClear(f)
    BY <2>3 DEF StartClear
  <2>4. CASE ClearPad(f)
    <3>1. pos' \in [Firers -> 1..(NumChannels + 1)]
      BY <2>0, <2>4 DEF ClearPad
    <3>2. pad' \in SUBSET Channels
      BY <2>4 DEF ClearPad
    <3> QED
      BY <2>4, <3>1, <3>2 DEF ClearPad
  <2>5. CASE HoldLow(f)
    BY <2>5 DEF HoldLow
  <2>6. CASE NextPulse(f)
    <3>1. left' \in [Firers -> 0..Pulses]
      BY <2>0, <2>6 DEF NextPulse, Busy
    <3>2. pos' \in [Firers -> 1..(NumChannels + 1)]
      BY <2>0, <2>6 DEF NextPulse
    <3> QED
      BY <2>6, <3>1, <3>2 DEF NextPulse
  <2> QED
    BY <1>4, <2>1, <2>2, <2>3, <2>4, <2>5, <2>6 DEF Pulse
<1>5. CASE UNCHANGED pyroVars
  BY <1>5 DEF pyroVars, PyroTypeOK
<1> QED
  BY <1>1, <1>2, <1>3, <1>4, <1>5 DEF PyroNext, AllFired

(* Every step keeps a busy thread with a pulse to finish. *)
LEMMA BusyStep == PyroTypeOK /\ Busy /\ [PyroNext]_pyroVars => Busy'
<1> SUFFICES ASSUME PyroTypeOK, Busy, [PyroNext]_pyroVars PROVE Busy'
  OBVIOUS
<1> USE PyroAssumption DEF PyroTypeOK, Busy
<1>1. CASE PyroFireDrogue \/ PyroFireMain \/ CmdPyro
  BY <1>1 DEF PyroFireDrogue, PyroFireMain, CmdPyro, PyroFire, Firers
<1>2. ASSUME NEW f \in Firers, Pulse(f) PROVE Busy'
  <2>1. CASE SetPad(f) \/ HoldHigh(f) \/ StartClear(f) \/ ClearPad(f) \/ HoldLow(f)
    BY <2>1 DEF SetPad, HoldHigh, StartClear, ClearPad, HoldLow
  <2>2. CASE NextPulse(f)
    BY <2>2 DEF NextPulse
  <2> QED
    BY <1>2, <2>1, <2>2 DEF Pulse
<1>3. CASE UNCHANGED pyroVars
  BY <1>3 DEF pyroVars
<1> QED
  BY <1>1, <1>2, <1>3 DEF PyroNext, AllFired

-----------------------------------------------------------------------------
(* Within a pulse, the thread that steps keeps driving each pad it has not just
   cleared, and the other thread is not disturbed. *)
LEMMA PulseKeepsDriving ==
  ASSUME PyroTypeOK, NoPadLeftHigh, NEW f \in Firers, Pulse(f)
  PROVE  NoPadLeftHigh'
<1> SUFFICES ASSUME NEW c \in pad' PROVE \E g \in Firers : Driving(g, c)'
  BY DEF NoPadLeftHigh
<1>1. ASSUME NEW g \in Firers, g # f, Driving(g, c) PROVE Driving(g, c)'
  <2>1. pulse'[g] = pulse[g] /\ want'[g] = want[g] /\ pos'[g] = pos[g]
    BY <1>1 DEF Pulse, SetPad, HoldHigh, StartClear, ClearPad, HoldLow,
                NextPulse, Same, PyroTypeOK
  <2> QED
    BY <1>1, <2>1 DEF Driving
<1>2. c \in pad => \E g \in Firers : Driving(g, c)
  BY DEF NoPadLeftHigh
<1>3. c \in Int /\ (c \in pad \/ c \in Channels)
  <2>1. pad' \subseteq Channels
    BY PyroAssumption DEF Pulse, SetPad, HoldHigh, StartClear, ClearPad, HoldLow,
                          NextPulse, PyroTypeOK, Channels
  <2> QED
    BY <2>1 DEF Channels
<1>4. CASE SetPad(f)
  <2>1. /\ pulse[f] = "set" /\ pulse' = pulse /\ want' = want
        /\ pad' = pad \union (want[f] \intersect {pos[f]})
    BY <1>4 DEF SetPad, Same
  <2>2. c \in want[f] => Driving(f, c)'
    BY <2>1 DEF Driving
  <2>3. c \notin want[f] => c \in pad /\ ~Driving(f, c)
    BY <2>1 DEF Driving
  <2> QED
    BY <1>1, <1>2, <2>2, <2>3
<1>5. CASE HoldHigh(f)
  <2>1. /\ pad' = pad
        /\ Driving(f, c) => Driving(f, c)'
    BY <1>5 DEF HoldHigh, Same, Driving, PyroTypeOK
  <2> QED
    BY <1>1, <1>2, <2>1
<1>6. CASE StartClear(f)
  <2>1. pad' = pad /\ pos'[f] = 1 /\ want' = want /\ pulse'[f] = "clear"
    BY <1>6 DEF StartClear, Same, PyroTypeOK
  <2>2. 1 <= c
    BY <2>1, <1>3 DEF PyroTypeOK, Channels
  <2>3. Driving(f, c) => Driving(f, c)'
    BY <2>1, <2>2 DEF Driving
  <2> QED
    BY <1>1, <1>2, <2>1, <2>3
<1>7. CASE ClearPad(f)
  <2>1. /\ pulse[f] = "clear" /\ pulse' = pulse /\ want' = want /\ pos'[f] = pos[f] + 1
        /\ c \in pad /\ ~(c \in want[f] /\ c = pos[f]) /\ pos[f] \in Int
    BY <1>7, PyroAssumption DEF ClearPad, Same, PyroTypeOK
  <2>2. Driving(f, c) => Driving(f, c)'
    BY <2>1, <1>3 DEF Driving
  <2> QED
    BY <1>1, <1>2, <2>1, <2>2
<1>8. CASE HoldLow(f)
  <2>1. pad' = pad /\ pulse[f] = "clear" /\ pos[f] > NumChannels
    BY <1>8 DEF HoldLow
  <2>2. ~Driving(f, c)
    BY <2>1, PyroAssumption DEF Driving, PyroTypeOK, Channels
  <2> QED
    BY <1>1, <1>2, <2>1, <2>2
<1>9. CASE NextPulse(f)
  <2>1. pad' = pad /\ ~Driving(f, c)
    BY <1>9 DEF NextPulse, Driving
  <2> QED
    BY <1>1, <1>2, <2>1
<1> QED
  BY <1>4, <1>5, <1>6, <1>7, <1>8, <1>9 DEF Pulse

(* Every step keeps each high pad in the hands of a thread that clears it. *)
LEMMA PadStep == PyroTypeOK /\ NoPadLeftHigh /\ [PyroNext]_pyroVars => NoPadLeftHigh'
<1> SUFFICES ASSUME PyroTypeOK, NoPadLeftHigh, [PyroNext]_pyroVars PROVE NoPadLeftHigh'
  OBVIOUS
<1>0. "mission" \in Firers /\ "shell" \in Firers /\ Channels \in SUBSET Channels
      /\ \A r : WithRole(r) \in SUBSET Channels
  BY DEF Firers, WithRole
<1>1. CASE PyroFireDrogue \/ PyroFireMain \/ CmdPyro
  BY <1>0, <1>1, PyroFireStep DEF PyroFireDrogue, PyroFireMain, CmdPyro
<1>2. CASE \E f \in Firers : Pulse(f)
  BY <1>2, PulseKeepsDriving
<1>3. CASE UNCHANGED pyroVars
  BY <1>3 DEF pyroVars, NoPadLeftHigh, Driving
<1> QED
  BY <1>1, <1>2, <1>3 DEF PyroNext, AllFired

(* Every step keeps the mission's call to the stage it is at. *)
LEMMA WantsStep ==
  PyroTypeOK /\ NoPadLeftHigh /\ Wants /\ [PyroNext]_pyroVars => Wants'
<1> SUFFICES ASSUME PyroTypeOK, NoPadLeftHigh, Wants, [PyroNext]_pyroVars PROVE Wants'
  OBVIOUS
<1>0. "mission" \in Firers /\ "shell" \in Firers /\ Channels \in SUBSET Channels
      /\ \A r : WithRole(r) \in SUBSET Channels
  BY DEF Firers, WithRole
<1>1. CASE PyroFireDrogue
  BY <1>0, <1>1, PyroFireStep DEF PyroFireDrogue, Wants, Firers, WithRole
<1>2. CASE PyroFireMain
  BY <1>0, <1>2, PyroFireStep DEF PyroFireMain, Wants, Firers, WithRole
<1>3. CASE CmdPyro
  <2>1. /\ pulse'["mission"] = pulse["mission"] /\ want'["mission"] = want["mission"]
        /\ stage' = stage
    BY <1>0, <1>3, PyroFireStep DEF CmdPyro, Firers
  <2>2. commands' # 0
    BY <1>3, PyroAssumption DEF CmdPyro, PyroTypeOK
  <2> QED
    BY <2>1, <2>2 DEF Wants, WithRole
<1>4. ASSUME NEW f \in Firers, Pulse(f) PROVE Wants'
  <2>1. /\ want' = want /\ stage' = stage /\ commands' = commands
        /\ pulse[f] # "idle" /\ \A g \in Firers \ {f} : pulse'[g] = pulse[g]
    BY <1>4 DEF Pulse, SetPad, HoldHigh, StartClear, ClearPad, HoldLow,
                NextPulse, Same, PyroTypeOK
  <2> QED
    BY <1>0, <2>1 DEF Wants, WithRole
<1>5. CASE UNCHANGED pyroVars
  BY <1>5 DEF pyroVars, Wants, WithRole
<1> QED
  BY <1>1, <1>2, <1>3, <1>4, <1>5 DEF PyroNext, AllFired

-----------------------------------------------------------------------------
(* The inductive invariant holds in every reachable state. *)
THEOREM PyroInvariance == PyroSpec => []PyroIInv
<1>1. PyroIInv /\ [PyroNext]_pyroVars => PyroIInv'
  BY PyroTypeStep, BusyStep, PadStep, WantsStep DEF PyroIInv
<1> QED
  BY <1>1, PyroInitIInv, PTL DEF PyroSpec

(* The variables of the firing keep their types. *)
THEOREM PyroTypeCorrect == PyroSpec => []PyroTypeOK
<1>1. PyroIInv => PyroTypeOK
  BY DEF PyroIInv
<1> QED
  BY <1>1, PyroInvariance, PTL

(* Whatever the overlap of two calls of pyro_fire, a pad that is high is one
   that some thread is about to clear. *)
THEOREM PadsAreCleared == PyroSpec => []NoPadLeftHigh
<1>1. PyroIInv => NoPadLeftHigh
  BY DEF PyroIInv
<1> QED
  BY <1>1, PyroInvariance, PTL

(* Unless the operator fires by hand, only the charge the mission has come to
   is ever driven. *)
THEOREM MissionFiresInTurn == PyroSpec => []ChargesInTurn
<1>1. PyroIInv => ChargesInTurn
  <2> SUFFICES ASSUME PyroIInv, commands = 0
               PROVE  /\ stage = "ascent" => pad = {}
                      /\ stage = "drogue" => pad \subseteq WithRole("drogue")
                      /\ pad \intersect WithRole("unused") = {}
    BY DEF ChargesInTurn
  <2>1. \A c \in pad : c \in want["mission"] /\ pulse["mission"] # "idle"
    BY DEF PyroIInv, NoPadLeftHigh, Wants, Driving, Firers
  <2>2. stage \in {"ascent", "drogue", "main"}
    BY DEF PyroIInv, PyroTypeOK
  <2> QED
    BY <2>1, <2>2 DEF PyroIInv, Wants, WithRole
<1> QED
  BY <1>1, PyroInvariance, PTL
=============================================================================
