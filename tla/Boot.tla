-------------------------------- MODULE Boot --------------------------------
(***************************************************************************)
(* The start of a flight computer (main in m2fc/firmware/main.c): the      *)
(* estimator and the mutexes are initialised, a thread reads the           *)
(* configuration from the card, then the others are created one by one,    *)
(* some of a higher priority than main, which run at once.  What they      *)
(* share is initialised by one of them and used by the rest, unprotected   *)
(* but for the order.  The heartbeat, below all, feeds the watchdog.       *)
(*                                                                         *)
(* A thread runs from one place where it can block to the next.  It is     *)
(* blocked while it sleeps and while the card transfers data; connecting   *)
(* to a card that is not there does not block.  Each thread is followed    *)
(* through its first iteration, after which it is asleep.                  *)
(***************************************************************************)
EXTENDS Integers, Sequences

CONSTANT Attributes    \* lines of config.txt: 14

ASSUME BootAssumption == Attributes \in Nat \ {0}

(* The threads in the order in which main creates them.  One driver stands for those
   that read over the bus with the mutex, one for those that config.txt can leave out. *)
Order == <<"m2serial", "m2status", "logger", "mission", "baro", "gyro">>

Threads == {"main", "config"} \union {Order[i] : i \in DOMAIN Order}

Subsystems == {"stateestimation", "microsd", "config", "datalogging", "missioncontrol",
               "baro", "gyro"}

(* What is initialised before it is used. *)
Shared == {"kalman_lock", "dma1_stream0_mutex", "uart_mtx", "log_pool"}

VARIABLES
  pc,       \* per thread: where it is
  created,  \* how many threads of Order main is through with
  nose,     \* conf.location
  lines,    \* attributes of conf that have been read
  loaded,   \* conf.config_loaded
  card,     \* "absent", "bare" (files cannot be opened) or "good"
  set,      \* LocalStatus is set
  status,   \* LocalStatus->...
  inited,   \* what has been initialised
  led,      \* toggled by the heartbeat when it feeds the watchdog
  lost,     \* history: subsystems whose last report went through a null pointer
  early     \* history: what was used before it was initialised

confVars == <<nose, lines, loaded>>
statusVars == <<set, status, lost>>
sharedVars == <<inited, early>>
vars == <<pc, created, confVars, card, statusVars, sharedVars, led>>

Init ==
  /\ pc = [t \in Threads |-> IF t = "main" THEN "init" ELSE "none"]
  /\ created = 0
  /\ nose \in BOOLEAN /\ lines = 0 /\ loaded = FALSE
  /\ card \in {"absent", "bare", "good"}
  /\ set = FALSE /\ status = [s \in Subsystems |-> "UNKNOWN"] /\ lost = {}
  /\ inited = {} /\ early = {}
  /\ led = FALSE

-----------------------------------------------------------------------------
(* The scheduler. *)

(* Fault: the logger has the priority of the threads that log. *)
Prio_LoggerNormal == [t \in Threads |-> IF t \in {"m2serial", "m2status"} THEN 2 ELSE 1]

Prio == [t \in Threads |-> IF t \in {"m2serial", "m2status", "logger"} THEN 2 ELSE 1]

(* Fault: main looks for the end of the configuration without a sleep in between. *)
Ready_MainPolls(t) == pc[t] \in {"init", "create", "begin", "run", "connect", "wait"}

(* main sleeps between two looks, but for a moment that changes nothing. *)
Ready(t) == pc[t] \in {"init", "create", "begin", "run", "connect"}

MayRun(p) == \A t \in Threads : Ready(t) => Prio[t] <= p

Goto(t, place) == MayRun(Prio[t]) /\ pc' = [pc EXCEPT ![t] = place]

-----------------------------------------------------------------------------
(* Reports of a step, and what it needs. *)

(* m2status_*_status: through a null pointer, which points to the flash, they are lost. *)
Reports(news) ==
  /\ status' = [s \in Subsystems |-> IF set /\ s \in DOMAIN news THEN news[s] ELSE status[s]]
  /\ lost' = IF set THEN lost \ DOMAIN news ELSE lost \union DOMAIN news
  /\ UNCHANGED set

Uses(objects) == early' = early \union (objects \ inited) /\ UNCHANGED inited

Initialises(objects) == inited' = inited \union objects /\ UNCHANGED early

-----------------------------------------------------------------------------
(* main *)

MainInit ==
  /\ pc["main"] = "init" /\ MayRun(Prio["main"])
  /\ pc' = [pc EXCEPT !["main"] = "wait", !["config"] = "connect"]
  /\ Initialises({"kalman_lock", "dma1_stream0_mutex"})
  /\ Reports([stateestimation |-> "OK"])
  /\ UNCHANGED <<created, confVars, card, led>>

(* Fault: the configuration is looked at before its thread has ended. *)
PollConfig_NoWait ==
  /\ pc["main"] = "wait" /\ Goto("main", "create")
  /\ set' = TRUE
  /\ status' = [status EXCEPT !["config"] = IF loaded THEN "OK" ELSE "ERR"]
  /\ UNCHANGED <<created, confVars, card, lost, sharedVars, led>>

(* config_loaded says that all lines were read.  Whether the values are sane, which
   check_config finds out, does not get here: config_thread drops its verdict. *)
PollConfig ==
  /\ pc["main"] = "wait" /\ pc["config"] = "final" /\ Goto("main", "create")
  /\ set' = TRUE
  /\ status' = [status EXCEPT !["config"] = IF loaded THEN "OK" ELSE "ERR"]
  /\ UNCHANGED <<created, confVars, card, lost, sharedVars, led>>

(* use_gyro is the last attribute: if it is set, all are. *)
CreateThread ==
  /\ pc["main"] = "create" /\ created < Len(Order) /\ MayRun(Prio["main"])
  /\ created' = created + 1
  /\ LET t == Order[created + 1] IN
     \/ /\ t = "gyro" => lines = Attributes
        /\ pc' = [pc EXCEPT ![t] = "begin"] /\ UNCHANGED statusVars
     \/ /\ t = "gyro"
        /\ Reports([gyro |-> "OK"]) /\ UNCHANGED pc
  /\ UNCHANGED <<confVars, card, sharedVars, led>>

MainSleeps ==
  /\ pc["main"] = "create" /\ created = Len(Order) /\ Goto("main", "asleep")
  /\ UNCHANGED <<created, confVars, card, statusVars, sharedVars, led>>

-----------------------------------------------------------------------------
(* The card, for the configuration and for the logger. *)

CardUsers == {"config", "logger"}

(* microsd_card_try_init *)
Connect(t) ==
  /\ pc[t] = "connect" /\ card # "absent" /\ Goto(t, "open")
  /\ Reports([microsd |-> "OK"])
  /\ UNCHANGED <<created, confVars, card, sharedVars, led>>

(* Fault: the pause between two attempts is left out. *)
ConnectFails_NoPause(t) ==
  /\ pc[t] = "connect" /\ card = "absent" /\ Goto(t, "connect")
  /\ Reports([microsd |-> "ERR"])
  /\ UNCHANGED <<created, confVars, card, sharedVars, led>>

ConnectFails(t) ==
  /\ pc[t] = "connect" /\ card = "absent" /\ Goto(t, "pause")
  /\ Reports([microsd |-> "ERR"])
  /\ UNCHANGED <<created, confVars, card, sharedVars, led>>

Retry(t) ==
  /\ pc[t] = "pause" /\ pc' = [pc EXCEPT ![t] = "connect"]
  /\ UNCHANGED <<created, confVars, card, statusVars, sharedVars, led>>

(* microsd_open_file and microsd_open_file_inc.  What follows a failure differs. *)
Open(t, next) ==
  /\ pc[t] = "open" /\ card = "good" /\ Goto(t, next)
  /\ UNCHANGED <<created, confVars, card>>

OpenFails(t, next) ==
  /\ pc[t] = "open" /\ card # "good" /\ Goto(t, next)
  /\ Reports([microsd |-> "ERR"])
  /\ UNCHANGED <<created, confVars, card, sharedVars, led>>

(* Someone inserts a card, or a contact is loose. *)
CardChanges ==
  /\ card' \in {"absent", "bare", "good"} \ {card}
  /\ UNCHANGED <<pc, created, confVars, statusVars, sharedVars, led>>

-----------------------------------------------------------------------------
(* config_thread.  The file is closed in either case. *)

OpenConfig == Open("config", "read") /\ UNCHANGED <<statusVars, sharedVars, led>>

NoConfig == OpenFails("config", "final")

ReadLine ==
  /\ pc["config"] = "read" /\ card = "good"
  /\ lines' = lines + 1 /\ loaded' = (lines' = Attributes)
  /\ Goto("config", IF loaded' THEN "final" ELSE "read")
  /\ UNCHANGED <<created, nose, card, statusVars, sharedVars, led>>

(* A line that is not as it should be, the end of the file, or an error of the card,
   which is reported: the attributes before it stay. *)
ReadFails ==
  /\ pc["config"] = "read" /\ Goto("config", "final")
  /\ \/ Reports([microsd |-> "ERR"])
     \/ card = "good" /\ UNCHANGED statusVars
  /\ UNCHANGED <<created, confVars, card, sharedVars, led>>

-----------------------------------------------------------------------------
(* The threads that main creates. *)

LoggerBegins ==
  /\ pc["logger"] = "begin" /\ Goto("logger", "connect")
  /\ Initialises({"log_pool"})
  /\ Reports([datalogging |-> "WAIT"])
  /\ UNCHANGED <<created, confVars, card, led>>

OpenLog ==
  /\ Open("logger", "fetch") /\ UNCHANGED led
  /\ Uses({"log_pool"})
  /\ Reports([datalogging |-> "OK"])

NoLog == OpenFails("logger", "connect")

M2SerialBegins ==
  /\ pc["m2serial"] = "begin" /\ Goto("m2serial", "get")
  /\ Initialises({"uart_mtx"})
  /\ UNCHANGED <<created, confVars, card, statusVars, led>>

(* m2status_thread: only the nose has something to send over the serial line. *)
M2StatusRuns ==
  /\ pc["m2status"] = "begin" /\ Goto("m2status", "asleep")
  /\ Uses(IF nose THEN {"uart_mtx"} ELSE {})
  /\ UNCHANGED <<created, confVars, card, statusVars, led>>

Sensors == {"baro", "gyro"}

SensorBegins(t) ==
  /\ pc[t] = "begin" /\ Goto(t, "run")
  /\ Reports([s \in {t} |-> "WAIT"])
  /\ UNCHANGED <<created, confVars, card, sharedVars, led>>

(* ms5611_thread and l3g4200d_thread: a measurement is taken, logged and made use of. *)
SensorRuns(t) ==
  /\ pc[t] = "run" /\ Goto(t, "asleep")
  /\ Uses({"log_pool"} \union
          (IF t = "baro" THEN {"kalman_lock", "dma1_stream0_mutex"} ELSE {}))
  /\ \E level \in {"OK", "ERR"} : Reports([s \in {t} |-> level])
  /\ UNCHANGED <<created, confVars, card, led>>

MissionBegins ==
  /\ pc["mission"] = "begin" /\ Goto("mission", "run")
  /\ Reports([missioncontrol |-> "WAIT"])
  /\ UNCHANGED <<created, confVars, card, sharedVars, led>>

(* Fault: the estimator reports itself when it is initialised and not again. *)
MissionRuns_NoReport ==
  /\ pc["mission"] = "run" /\ Goto("mission", "asleep")
  /\ Uses({"kalman_lock", "log_pool"})
  /\ Reports([missioncontrol |-> "OK"])
  /\ UNCHANGED <<created, confVars, card, led>>

(* An iteration: state_estimation_get_state, a state function, a log entry. *)
MissionRuns ==
  /\ pc["mission"] = "run" /\ Goto("mission", "asleep")
  /\ Uses({"kalman_lock", "log_pool"})
  /\ Reports([stateestimation |-> "OK", missioncontrol |-> "OK"])
  /\ UNCHANGED <<created, confVars, card, led>>

(* The heartbeat runs when nothing else does. *)
Beat ==
  /\ MayRun(0) /\ led' = ~led
  /\ UNCHANGED <<pc, created, confVars, card, statusVars, sharedVars>>

-----------------------------------------------------------------------------
Main == MainInit \/ PollConfig \/ CreateThread \/ MainSleeps
CardTries(t) == Connect(t) \/ ConnectFails(t) \/ Retry(t)
Config == CardTries("config") \/ OpenConfig \/ NoConfig \/ ReadLine \/ ReadFails
Logger == LoggerBegins \/ CardTries("logger") \/ OpenLog \/ NoLog
Mission == MissionBegins \/ MissionRuns
Sensor(t) == SensorBegins(t) \/ SensorRuns(t)

Next ==
  \/ Main \/ Config \/ Logger \/ Mission
  \/ M2SerialBegins \/ M2StatusRuns
  \/ \E t \in Sensors : Sensor(t)
  \/ CardChanges \/ Beat

Spec == Init /\ [][Next]_vars

(* A thread that is ready again and again is run in the end: those above it sleep and
   wait for the card for longer than it needs, those beside it take turns. *)
FairSpec ==
  /\ Spec
  /\ SF_vars(Main) /\ SF_vars(Config) /\ SF_vars(Mission)
  /\ WF_vars(Logger) /\ WF_vars(M2SerialBegins) /\ WF_vars(M2StatusRuns)
  /\ \A t \in Sensors : SF_vars(Sensor(t))
  /\ SF_vars(Beat)

-----------------------------------------------------------------------------
(***************************************************************************)
(* Properties.                                                             *)
(***************************************************************************)

(* Every variable has its type. *)
TypeOK ==
  /\ pc \in [Threads -> {"none", "init", "wait", "create", "asleep", "begin", "run",
                          "connect", "pause", "open", "read", "final", "fetch", "get"}]
  /\ created \in 0..Len(Order)
  /\ nose \in BOOLEAN /\ lines \in 0..Attributes /\ loaded \in BOOLEAN
  /\ card \in {"absent", "bare", "good"}
  /\ set \in BOOLEAN /\ status \in [Subsystems -> {"UNKNOWN", "OK", "WAIT", "ERR"}]
  /\ lost \subseteq Subsystems
  /\ inited \subseteq Shared /\ early \subseteq Shared
  /\ led \in BOOLEAN

(* Locks and pool are initialised before anyone uses them, which the priorities and the
   order of creation see to: nothing waits for an initialisation. *)
InitBeforeUse == early = {}

(* Once the threads that fly are being created, which read conf without a lock, it does
   not change any more, and OK is not said of one that was read in part. *)
ConfigSettled ==
  [][pc["main"] \in {"create", "asleep"} =>
       UNCHANGED confVars /\ (status["config"] = "OK" => lines = Attributes)]_vars

(* The watchdog is fed again and again, whatever the card does or if there is none. *)
WatchdogIsFed == []<><<Beat>>_vars

(* Once the configuration has been read, or turned out not to be there, the mission runs,
   although the log may never be opened. *)
FliesWithoutLog == pc["config"] = "final" ~> pc["mission"] = "asleep"

(* If there comes to be a card, be it without files, the board starts, and what was
   reported before LocalStatus was set is reported again. *)
LostReportsAreMadeGood ==
  <>[](card # "absent") => \A s \in Subsystems : s \in lost ~> s \notin lost
=============================================================================
