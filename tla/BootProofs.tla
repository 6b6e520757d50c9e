----------------------------- MODULE BootProofs -----------------------------
(***************************************************************************)
(* Proofs about Boot, for a configuration of any number of lines: the      *)
(* order of creation and the priorities initialise everything before it is *)
(* used, and the configuration does not change under the threads that fly. *)
(***************************************************************************)
EXTENDS Boot, TLAPS

LEMMA ThreadsOfOrder ==
  /\ Len(Order) = 6 /\ DOMAIN Order = 1..6
  /\ Order[1] = "m2serial" /\ Order[2] = "m2status" /\ Order[3] = "logger"
  /\ Order[4] = "mission" /\ Order[5] = "baro" /\ Order[6] = "gyro"
  /\ Threads = {"main", "config", "m2serial", "m2status", "logger", "mission", "baro", "gyro"}
<1>1. /\ Len(Order) = 6 /\ DOMAIN Order = 1..6
      /\ Order[1] = "m2serial" /\ Order[2] = "m2status" /\ Order[3] = "logger"
      /\ Order[4] = "mission" /\ Order[5] = "baro" /\ Order[6] = "gyro"
  BY DEF Order
<1>2. {Order[i] : i \in DOMAIN Order} =
        {"m2serial", "m2status", "logger", "mission", "baro", "gyro"}
  BY <1>1
<1> QED
  BY <1>1, <1>2 DEF Threads

(* How far the threads are that the start waits for. *)
Progress ==
  /\ pc["main"] \in {"init", "wait", "create", "asleep"}
  /\ pc["main"] \in {"init", "wait"} => created = 0
  /\ pc["main"] = "init" => pc["config"] = "none"
  /\ pc["main"] \in {"create", "asleep"} => pc["config"] = "final"
  /\ pc["config"] \in {"none", "connect", "pause", "open", "read", "final"}

(* A thread that main has not come to does not run. *)
NotBefore ==
  /\ created < 1 => pc["m2serial"] = "none"
  /\ created < 2 => pc["m2status"] = "none"
  /\ created < 3 => pc["logger"] = "none"
  /\ created < 4 => pc["mission"] = "none"
  /\ created < 5 => pc["baro"] = "none"
  /\ created < 6 => pc["gyro"] = "none"

(* Threads of a higher priority than main have begun as soon as main goes on. *)
Begun ==
  /\ created >= 1 => pc["m2serial"] \in {"begin", "get"}
  /\ created >= 3 => pc["logger"] \notin {"none", "run"}
  /\ created >= 2 => pc["m2serial"] = "get"
  /\ created >= 4 => pc["logger"] # "begin"

(* What has been initialised. *)
Prepared ==
  /\ pc["main"] # "init" => {"kalman_lock", "dma1_stream0_mutex"} \subseteq inited
  /\ pc["m2serial"] = "get" => "uart_mtx" \in inited
  /\ pc["logger"] \notin {"none", "begin"} => "log_pool" \in inited

(* The lines of the configuration that have been read. *)
LinesInv ==
  /\ pc["config"] \in {"none", "connect", "pause", "open"} => lines = 0
  /\ pc["config"] = "read" => lines < Attributes
  /\ loaded <=> lines = Attributes

(* OK is not said of a configuration that was read in part. *)
VerdictInv ==
  pc["main"] \in {"create", "asleep"} =>
    (status["config"] = "OK" => lines = Attributes)

IInv == TypeOK /\ Progress /\ NotBefore /\ Begun /\ Prepared /\ LinesInv /\ InitBeforeUse /\ VerdictInv

-----------------------------------------------------------------------------
(* The initial state satisfies the invariant. *)
LEMMA InitIInv == Init => IInv
<1> SUFFICES ASSUME Init PROVE IInv
  OBVIOUS
<1> USE BootAssumption, ThreadsOfOrder DEF Init
<1>1. TypeOK
  <2>1. pc \in [Threads -> {"none", "init", "wait", "create", "asleep", "begin", "run",
                            "connect", "pause", "open", "read", "final", "fetch", "get"}]
    OBVIOUS
  <2>2. /\ created \in 0..Len(Order) /\ lines \in 0..Attributes
        /\ card \in {"absent", "bare", "good"}
        /\ inited \subseteq Shared /\ early \subseteq Shared /\ lost \subseteq Subsystems
    OBVIOUS
  <2>3. status \in [Subsystems -> {"UNKNOWN", "OK", "WAIT", "ERR"}]
    OBVIOUS
  <2>4. nose \in BOOLEAN /\ loaded \in BOOLEAN /\ set \in BOOLEAN /\ led \in BOOLEAN
    OBVIOUS
  <2> QED
    BY <2>1, <2>2, <2>3, <2>4, Zenon DEF TypeOK
<1>2. pc["main"] = "init" /\ \A t \in Threads \ {"main"} : pc[t] = "none"
  OBVIOUS
<1>3. Progress /\ Begun /\ Prepared /\ LinesInv
  BY <1>2 DEF Progress, Begun, Prepared, LinesInv
<1>4. NotBefore
  BY <1>2 DEF NotBefore
<1>5. InitBeforeUse /\ VerdictInv
  BY DEF InitBeforeUse, VerdictInv
<1> QED
  BY <1>1, <1>3, <1>4, <1>5 DEF IInv

(* A report changes only what is said of the subsystems it names. *)
LEMMA ReportsType ==
  ASSUME TypeOK, NEW news, DOMAIN news \subseteq Subsystems,
         \A s \in DOMAIN news : news[s] \in {"UNKNOWN", "OK", "WAIT", "ERR"},
         Reports(news)
  PROVE  /\ set' = set
         /\ status' \in [Subsystems -> {"UNKNOWN", "OK", "WAIT", "ERR"}]
         /\ lost' \subseteq Subsystems
         /\ "config" \notin DOMAIN news => status'["config"] = status["config"]
  BY DEF Reports, TypeOK, Subsystems

Places == {"none", "init", "wait", "create", "asleep", "begin", "run",
           "connect", "pause", "open", "read", "final", "fetch", "get"}

(* Every step preserves the types. *)
LEMMA TypeStep == TypeOK /\ LinesInv /\ [Next]_vars => TypeOK'
<1> SUFFICES ASSUME TypeOK, LinesInv, [Next]_vars PROVE TypeOK'
  OBVIOUS
<1> DEFINE StatusOK == /\ set' \in BOOLEAN /\ lost' \subseteq Subsystems
                       /\ status' \in [Subsystems -> {"UNKNOWN", "OK", "WAIT", "ERR"}]
           ConfOK == nose' \in BOOLEAN /\ lines' \in 0..Attributes /\ loaded' \in BOOLEAN
           SharedOK == inited' \subseteq Shared /\ early' \subseteq Shared
           RestOK == created' \in 0..Len(Order) /\ card' \in {"absent", "bare", "good"}
<1> USE BootAssumption, ThreadsOfOrder, ReportsType
    DEF Places, TypeOK, Goto, Shared, confVars, statusVars, sharedVars, Uses, Initialises
<1>s. Subsystems = {"stateestimation", "microsd", "config", "datalogging", "missioncontrol",
                    "baro", "gyro"}
  BY DEF Subsystems
<1>1. CASE MainInit
  <2>1. StatusOK
    BY <1>1, <1>s DEF MainInit
  <2>2. pc' \in [Threads -> Places] /\ ConfOK /\ SharedOK /\ RestOK /\ led' \in BOOLEAN
    BY <1>1 DEF MainInit
  <2> QED
    BY <2>1, <2>2, Zenon
<1>2. CASE PollConfig
  <2>1. StatusOK
    BY <1>2, <1>s DEF PollConfig
  <2>2. pc' \in [Threads -> Places] /\ ConfOK /\ SharedOK /\ RestOK /\ led' \in BOOLEAN
    BY <1>2 DEF PollConfig
  <2> QED
    BY <2>1, <2>2, Zenon
<1>3. CASE CreateThread
  <2>1. StatusOK
    <3>1. CASE Reports([gyro |-> "OK"])
      BY <3>1, <1>s
    <3>2. CASE UNCHANGED statusVars
      BY <3>2
    <3> QED
      BY <1>3, <3>1, <3>2 DEF CreateThread
  <2>2. pc' \in [Threads -> Places] /\ ConfOK /\ SharedOK /\ RestOK /\ led' \in BOOLEAN
    BY <1>3 DEF CreateThread
  <2> QED
    BY <2>1, <2>2, Zenon
<1>4. CASE MainSleeps
  <2>1. StatusOK
    BY <1>4, <1>s DEF MainSleeps
  <2>2. pc' \in [Threads -> Places] /\ ConfOK /\ SharedOK /\ RestOK /\ led' \in BOOLEAN
    BY <1>4 DEF MainSleeps
  <2> QED
    BY <2>1, <2>2, Zenon
<1>5. ASSUME NEW t \in CardUsers, Connect(t) PROVE TypeOK'
  <2>1. StatusOK
    BY <1>5, <1>s DEF Connect, CardUsers
  <2>2. pc' \in [Threads -> Places] /\ ConfOK /\ SharedOK /\ RestOK /\ led' \in BOOLEAN
    BY <1>5 DEF Connect, CardUsers
  <2> QED
    BY <2>1, <2>2, Zenon
<1>6. ASSUME NEW t \in CardUsers, ConnectFails(t) PROVE TypeOK'
  <2>1. StatusOK
    BY <1>6, <1>s DEF ConnectFails, CardUsers
  <2>2. pc' \in [Threads -> Places] /\ ConfOK /\ SharedOK /\ RestOK /\ led' \in BOOLEAN
    BY <1>6 DEF ConnectFails, CardUsers
  <2> QED
    BY <2>1, <2>2, Zenon
<1>7. ASSUME NEW t \in CardUsers, Retry(t) PROVE TypeOK'
  <2>1. StatusOK
    BY <1>7, <1>s DEF Retry, CardUsers
  <2>2. pc' \in [Threads -> Places] /\ ConfOK /\ SharedOK /\ RestOK /\ led' \in BOOLEAN
    BY <1>7 DEF Retry, CardUsers
  <2> QED
    BY <2>1, <2>2, Zenon
<1>8. CASE OpenConfig
  <2>1. StatusOK
    BY <1>8, <1>s DEF OpenConfig, Open
  <2>2. pc' \in [Threads -> Places] /\ ConfOK /\ SharedOK /\ RestOK /\ led' \in BOOLEAN
    BY <1>8 DEF OpenConfig, Open
  <2> QED
    BY <2>1, <2>2, Zenon
<1>9. CASE NoConfig \/ NoLog
  <2>1. StatusOK
    BY <1>9, <1>s DEF NoConfig, NoLog, OpenFails
  <2>2. pc' \in [Threads -> Places] /\ ConfOK /\ SharedOK /\ RestOK /\ led' \in BOOLEAN
    BY <1>9 DEF NoConfig, NoLog, OpenFails
  <2> QED
    BY <2>1, <2>2, Zenon
<1>10. CASE ReadLine
  <2>1. StatusOK
    BY <1>10, <1>s DEF ReadLine, LinesInv
  <2>2. pc' \in [Threads -> Places] /\ ConfOK /\ SharedOK /\ RestOK /\ led' \in BOOLEAN
    BY <1>10 DEF ReadLine, LinesInv
  <2> QED
    BY <2>1, <2>2, Zenon
<1>11. CASE ReadFails
  <2>1. StatusOK
    <3>1. CASE Reports([microsd |-> "ERR"])
      BY <3>1, <1>s
    <3>2. CASE UNCHANGED statusVars
      BY <3>2
    <3> QED
      BY <1>11, <3>1, <3>2 DEF ReadFails
  <2>2. pc' \in [Threads -> Places] /\ ConfOK /\ SharedOK /\ RestOK /\ led' \in BOOLEAN
    BY <1>11 DEF ReadFails
  <2> QED
    BY <2>1, <2>2, Zenon
<1>12. CASE LoggerBegins
  <2>1. StatusOK
    BY <1>12, <1>s DEF LoggerBegins
  <2>2. pc' \in [Threads -> Places] /\ ConfOK /\ SharedOK /\ RestOK /\ led' \in BOOLEAN
    BY <1>12 DEF LoggerBegins
  <2> QED
    BY <2>1, <2>2, Zenon
<1>13. CASE OpenLog
  <2>1. StatusOK
    BY <1>13, <1>s DEF OpenLog, Open
  <2>2. pc' \in [Threads -> Places] /\ ConfOK /\ SharedOK /\ RestOK /\ led' \in BOOLEAN
    BY <1>13 DEF OpenLog, Open
  <2> QED
    BY <2>1, <2>2, Zenon
<1>14. CASE M2SerialBegins
  <2>1. StatusOK
    BY <1>14, <1>s DEF M2SerialBegins
  <2>2. pc' \in [Threads -> Places] /\ ConfOK /\ SharedOK /\ RestOK /\ led' \in BOOLEAN
    BY <1>14 DEF M2SerialBegins
  <2> QED
    BY <2>1, <2>2, Zenon
<1>14b. CASE M2StatusRuns
  <2>1. StatusOK
    BY <1>14b, <1>s DEF M2StatusRuns
  <2>2. pc' \in [Threads -> Places] /\ ConfOK /\ SharedOK /\ RestOK /\ led' \in BOOLEAN
    BY <1>14b DEF M2StatusRuns
  <2> QED
    BY <2>1, <2>2, Zenon
<1>15. ASSUME NEW t \in Sensors, SensorBegins(t) PROVE TypeOK'
  <2>1. StatusOK
    BY <1>15, <1>s DEF SensorBegins, Sensors
  <2>2. pc' \in [Threads -> Places] /\ ConfOK /\ SharedOK /\ RestOK /\ led' \in BOOLEAN
    BY <1>15 DEF SensorBegins, Sensors
  <2> QED
    BY <2>1, <2>2, Zenon
<1>16. ASSUME NEW t \in Sensors, SensorRuns(t) PROVE TypeOK'
  <2>1. StatusOK
    BY <1>16, <1>s DEF SensorRuns, Sensors
  <2>2. pc' \in [Threads -> Places] /\ ConfOK /\ SharedOK /\ RestOK /\ led' \in BOOLEAN
    BY <1>16 DEF SensorRuns, Sensors
  <2> QED
    BY <2>1, <2>2, Zenon
<1>17. CASE MissionBegins
  <2>1. StatusOK
    BY <1>17, <1>s DEF MissionBegins
  <2>2. pc' \in [Threads -> Places] /\ ConfOK /\ SharedOK /\ RestOK /\ led' \in BOOLEAN
    BY <1>17 DEF MissionBegins
  <2> QED
    BY <2>1, <2>2, Zenon
<1>17b. CASE MissionRuns
  <2>1. StatusOK
    BY <1>17b, <1>s DEF MissionRuns
  <2>2. pc' \in [Threads -> Places] /\ ConfOK /\ SharedOK /\ RestOK /\ led' \in BOOLEAN
    BY <1>17b DEF MissionRuns
  <2> QED
    BY <2>1, <2>2, Zenon
<1>18. CASE CardChanges \/ Beat
  <2>1. StatusOK
    BY <1>18, <1>s DEF CardChanges, Beat
  <2>2. pc' \in [Threads -> Places] /\ ConfOK /\ SharedOK /\ RestOK /\ led' \in BOOLEAN
    BY <1>18 DEF CardChanges, Beat
  <2> QED
    BY <2>1, <2>2, Zenon
<1>19. CASE UNCHANGED vars
  <2>1. StatusOK
    BY <1>19, <1>s DEF vars
  <2>2. pc' \in [Threads -> Places] /\ ConfOK /\ SharedOK /\ RestOK /\ led' \in BOOLEAN
    BY <1>19 DEF vars
  <2> QED
    BY <2>1, <2>2, Zenon
<1> QED
  BY <1>1, <1>2, <1>3, <1>4, <1>5, <1>6, <1>7, <1>8, <1>9, <1>10, <1>11, <1>12, <1>13, <1>14, <1>14b, <1>15, <1>16, <1>17, <1>17b, <1>18, <1>19
     DEF Next, Main, Config, Logger, Mission, Sensor, CardTries, CardUsers

-----------------------------------------------------------------------------
(* The priorities: main and the threads of its priority run when the two threads
   above them that initialise something have done so. *)
LEMMA Priorities ==
  /\ Prio["main"] = 1 /\ Prio["m2serial"] = 2 /\ Prio["logger"] = 2
  /\ MayRun(1) => pc["m2serial"] # "begin" /\ pc["logger"] # "begin"
  BY ThreadsOfOrder DEF Prio, MayRun, Ready

Control == Progress /\ NotBefore /\ Begun /\ Prepared /\ LinesInv

(* Every step keeps what is known of the places of the threads, of what has been
   initialised and of the lines that have been read. *)
LEMMA ControlStep == TypeOK /\ Control /\ [Next]_vars => Control'
<1> SUFFICES ASSUME TypeOK, Control, [Next]_vars PROVE Control'
  OBVIOUS
<1>t. /\ pc \in [Threads -> Places] /\ created \in 0..6
      /\ lines \in 0..Attributes /\ loaded \in BOOLEAN
  BY ThreadsOfOrder DEF TypeOK, Places
<1> USE BootAssumption, ThreadsOfOrder, Priorities, <1>t
    DEF Control, Progress, NotBefore, Begun, Prepared, LinesInv, Goto,
        confVars, statusVars, sharedVars, Uses, Initialises
<1>1. CASE MainInit
  BY <1>1 DEF MainInit
<1>2. CASE PollConfig
  BY <1>2 DEF PollConfig
<1>3. CASE CreateThread
  BY <1>3 DEF CreateThread
<1>4. CASE MainSleeps
  BY <1>4 DEF MainSleeps
<1>5. ASSUME NEW t \in CardUsers, Connect(t) PROVE Control'
  BY <1>5 DEF Connect, CardUsers
<1>6. ASSUME NEW t \in CardUsers, ConnectFails(t) PROVE Control'
  BY <1>6 DEF ConnectFails, CardUsers
<1>7. ASSUME NEW t \in CardUsers, Retry(t) PROVE Control'
  BY <1>7 DEF Retry, CardUsers
<1>8. CASE OpenConfig
  BY <1>8 DEF OpenConfig, Open
<1>9. CASE NoConfig
  BY <1>9 DEF NoConfig, OpenFails
<1>10. CASE NoLog
  BY <1>10 DEF NoLog, OpenFails
<1>11. CASE ReadLine
  <2>0. loaded' <=> lines' = Attributes
    BY <1>11, Zenon DEF ReadLine
  <2>1. /\ lines' = lines + 1 /\ lines' <= Attributes
        /\ UNCHANGED <<created, inited>> /\ pc["config"] = "read"
    BY <1>11 DEF ReadLine
  <2>2. pc' = [pc EXCEPT !["config"] = IF loaded' THEN "final" ELSE "read"]
    BY <1>11 DEF ReadLine
  <2>3. pc'["config"] = (IF lines' = Attributes THEN "final" ELSE "read")
    BY <2>0, <2>2
  <2>4. \A t \in Threads \ {"config"} : pc'[t] = pc[t]
    BY <2>2
  <2> QED
    BY <2>0, <2>1, <2>3, <2>4
<1>12. CASE ReadFails
  BY <1>12 DEF ReadFails
<1>13. CASE LoggerBegins
  BY <1>13 DEF LoggerBegins
<1>14. CASE OpenLog
  BY <1>14 DEF OpenLog, Open
<1>15. CASE M2SerialBegins
  BY <1>15 DEF M2SerialBegins
<1>16. CASE M2StatusRuns
  BY <1>16 DEF M2StatusRuns
<1>17. ASSUME NEW t \in Sensors, SensorBegins(t) PROVE Control'
  BY <1>17 DEF SensorBegins, Sensors
<1>18. ASSUME NEW t \in Sensors, SensorRuns(t) PROVE Control'
  BY <1>18 DEF SensorRuns, Sensors
<1>19. CASE MissionBegins
  BY <1>19 DEF MissionBegins
<1>20. CASE MissionRuns
  BY <1>20 DEF MissionRuns
<1>21. CASE CardChanges \/ Beat
  BY <1>21 DEF CardChanges, Beat
<1>22. CASE UNCHANGED vars
  BY <1>22 DEF vars
<1> QED
  BY <1>1, <1>2, <1>3, <1>4, <1>5, <1>6, <1>7, <1>8, <1>9, <1>10, <1>11, <1>12, <1>13, <1>14, <1>15, <1>16, <1>17, <1>18, <1>19, <1>20, <1>21, <1>22
     DEF Next, Main, Config, Logger, Mission, Sensor, CardTries, CardUsers

-----------------------------------------------------------------------------
(* Who uses something finds it initialised. *)
LEMMA EarlyStep ==
  TypeOK /\ Control /\ InitBeforeUse /\ [Next]_vars => InitBeforeUse'
<1> SUFFICES ASSUME TypeOK, Control, InitBeforeUse, [Next]_vars PROVE early' = {}
  BY DEF InitBeforeUse
<1>e. early = {} /\ created \in 0..6
  BY ThreadsOfOrder DEF InitBeforeUse, TypeOK
<1>1. CASE OpenLog
  BY <1>1, <1>e DEF OpenLog, Open, Uses, Control, Prepared
<1>2. CASE M2StatusRuns
  <2>1. created >= 2 /\ pc["m2serial"] = "get" /\ "uart_mtx" \in inited
    BY <1>2, <1>e DEF M2StatusRuns, Control, Prepared, NotBefore, Begun
  <2> QED
    BY <2>1, <1>2, <1>e DEF M2StatusRuns, Uses
<1>3. ASSUME created >= 4 PROVE {"kalman_lock", "dma1_stream0_mutex", "log_pool"} \subseteq inited
  BY <1>3, <1>e DEF Control, Progress, Prepared, Begun
<1>4. ASSUME NEW t \in Sensors, SensorRuns(t) PROVE early' = {}
  <2>1. created >= 4
    BY <1>4, <1>e DEF SensorRuns, Sensors, Control, NotBefore
  <2> QED
    BY <2>1, <1>3, <1>4, <1>e DEF SensorRuns, Uses
<1>5. CASE MissionRuns
  <2>1. created >= 4
    BY <1>5, <1>e DEF MissionRuns, Control, NotBefore
  <2> QED
    BY <2>1, <1>3, <1>5, <1>e DEF MissionRuns, Uses
<1>6. CASE UNCHANGED early
  BY <1>6, <1>e
<1>7. CASE Main \/ CardChanges \/ Beat \/ UNCHANGED vars
  BY <1>7, <1>6 DEF Main, MainInit, PollConfig, CreateThread, MainSleeps, CardChanges, Beat,
       vars, sharedVars, Initialises
<1>8. ASSUME NEW t \in CardUsers, CardTries(t) PROVE early' = {}
  BY <1>8, <1>6 DEF CardTries, Connect, ConnectFails, Retry, sharedVars
<1>9. CASE OpenConfig \/ NoConfig \/ ReadLine \/ ReadFails \/ NoLog
  BY <1>9, <1>6 DEF OpenConfig, NoConfig, ReadLine, ReadFails, NoLog, OpenFails, sharedVars
<1>10. CASE LoggerBegins \/ MissionBegins \/ M2SerialBegins
  BY <1>10, <1>6 DEF LoggerBegins, MissionBegins, M2SerialBegins, sharedVars, Initialises
<1>11. ASSUME NEW t \in Sensors, SensorBegins(t) PROVE early' = {}
  BY <1>11, <1>6 DEF SensorBegins, sharedVars
<1> QED
  BY <1>1, <1>2, <1>4, <1>5, <1>7, <1>8, <1>9, <1>10, <1>11
     DEF Next, Config, Logger, Mission, Sensor, CardUsers

(* The verdict is given when the configuration is not read any more, and of the threads
   that report, none reports on the configuration. *)
LEMMA VerdictStep ==
  TypeOK /\ Control /\ VerdictInv /\ [Next]_vars => VerdictInv'
<1> SUFFICES ASSUME TypeOK, Control, VerdictInv, [Next]_vars PROVE VerdictInv'
  OBVIOUS
<1>t. /\ pc \in [Threads -> Places] /\ Threads \ {"main"} # {} /\ "main" \in Threads
      /\ "config" \in Subsystems /\ status \in [Subsystems -> {"UNKNOWN", "OK", "WAIT", "ERR"}]
  BY ThreadsOfOrder DEF TypeOK, Places, Subsystems
<1>r. ASSUME NEW news, "config" \notin DOMAIN news, Reports(news)
      PROVE  status'["config"] = status["config"]
  BY <1>r, <1>t DEF Reports
<1>k. ASSUME status'["config"] = status["config"], lines' = lines,
             pc'["main"] = pc["main"] \/ (pc["main"] = "create" /\ pc'["main"] = "asleep")
      PROVE  VerdictInv'
  BY <1>k DEF VerdictInv
<1> USE ThreadsOfOrder, <1>t DEF Goto, confVars, statusVars
<1>1. CASE MainInit
  BY <1>1 DEF MainInit, VerdictInv
<1>2. CASE PollConfig
  BY <1>2 DEF PollConfig, VerdictInv, Control, LinesInv
<1>3. CASE CreateThread
  <2>1. pc'["main"] = pc["main"] /\ lines' = lines
    BY <1>3 DEF CreateThread, TypeOK
  <2>2. CASE UNCHANGED statusVars
    BY <2>1, <2>2, <1>k
  <2>3. CASE Reports([gyro |-> "OK"])
    BY <2>1, <2>3, <1>k, <1>r
  <2> QED
    BY <1>3, <2>2, <2>3 DEF CreateThread
<1>4. CASE MainSleeps
  BY <1>4, <1>k DEF MainSleeps
<1>5. ASSUME NEW t \in CardUsers, CardTries(t) PROVE VerdictInv'
  <2>1. pc'["main"] = pc["main"] /\ lines' = lines
    BY <1>5 DEF CardTries, Connect, ConnectFails, Retry, CardUsers
  <2>2. status'["config"] = status["config"]
    BY <1>5, <1>r DEF CardTries, Connect, ConnectFails, Retry
  <2> QED
    BY <2>1, <2>2, <1>k
<1>6. CASE OpenConfig \/ NoConfig \/ NoLog \/ OpenLog
  <2>1. pc'["main"] = pc["main"] /\ lines' = lines
    BY <1>6 DEF OpenConfig, NoConfig, NoLog, OpenLog, OpenFails, Open
  <2>2. status'["config"] = status["config"]
    BY <1>6, <1>r DEF OpenConfig, NoConfig, NoLog, OpenLog, OpenFails, Open
  <2> QED
    BY <2>1, <2>2, <1>k
<1>7. CASE ReadLine \/ ReadFails
  <2>1. pc["config"] = "read" /\ pc'["main"] = pc["main"]
    BY <1>7 DEF ReadLine, ReadFails
  <2> QED
    BY <2>1 DEF Control, Progress, VerdictInv
<1>8. CASE LoggerBegins \/ M2SerialBegins \/ M2StatusRuns \/ MissionBegins \/ MissionRuns
  <2>1. pc'["main"] = pc["main"] /\ lines' = lines
    BY <1>8 DEF LoggerBegins, M2SerialBegins, M2StatusRuns, MissionBegins, MissionRuns
  <2>2. status'["config"] = status["config"]
    BY <1>8, <1>r DEF LoggerBegins, M2SerialBegins, M2StatusRuns, MissionBegins, MissionRuns
  <2> QED
    BY <2>1, <2>2, <1>k
<1>9. ASSUME NEW t \in Sensors, Sensor(t) PROVE VerdictInv'
  <2>1. pc'["main"] = pc["main"] /\ lines' = lines
    BY <1>9 DEF Sensor, SensorBegins, SensorRuns, Sensors
  <2>2. ASSUME NEW level PROVE "config" \notin DOMAIN [s \in {t} |-> level]
    BY DEF Sensors
  <2>3. status'["config"] = status["config"]
    BY <1>9, <2>2, <1>r DEF Sensor, SensorBegins, SensorRuns
  <2> QED
    BY <2>1, <2>3, <1>k
<1>10. CASE CardChanges \/ Beat \/ UNCHANGED vars
  BY <1>10, <1>k DEF CardChanges, Beat, vars
<1> QED
  BY <1>1, <1>2, <1>3, <1>4, <1>5, <1>6, <1>7, <1>8, <1>9, <1>10
     DEF Next, Main, Config, Logger, Mission, CardUsers

-----------------------------------------------------------------------------
(* Every step preserves the invariant. *)
LEMMA StepIInv == IInv /\ [Next]_vars => IInv'
  BY TypeStep, ControlStep, EarlyStep, VerdictStep, Zenon DEF IInv, Control

LEMMA Invariance == Spec => []IInv
  BY InitIInv, StepIInv, PTL DEF Spec

(* Every variable has its type in every reachable state. *)
THEOREM TypeCorrect == Spec => []TypeOK
<1>1. IInv => TypeOK
  BY DEF IInv
<1> QED
  BY <1>1, Invariance, PTL

(* No thread uses a lock or the pool of log entries before it has been initialised,
   however long the configuration is and whatever happens to the card. *)
THEOREM InitialisedBeforeUse == Spec => []InitBeforeUse
<1>1. IInv => InitBeforeUse
  BY DEF IInv
<1> QED
  BY <1>1, Invariance, PTL

(* From the creation of the first thread on conf stays as config_thread left it, and main
   has said OK of it only if all its lines were read. *)
THEOREM ConfigIsSettled == Spec => ConfigSettled
<1>1. IInv /\ [Next]_vars =>
        [pc["main"] \in {"create", "asleep"} =>
           UNCHANGED confVars /\ (status["config"] = "OK" => lines = Attributes)]_vars
  <2> SUFFICES ASSUME IInv, Next, pc["main"] \in {"create", "asleep"}
               PROVE  UNCHANGED confVars /\ (status["config"] = "OK" => lines = Attributes)
    BY DEF vars
  <2>1. status["config"] = "OK" => lines = Attributes
    BY DEF IInv, VerdictInv
  <2>2. ~ReadLine
    BY DEF IInv, Progress, ReadLine
  <2>3. UNCHANGED confVars
    BY <2>2 DEF Next, Main, Config, Logger, Mission, Sensor, CardTries, MainInit, PollConfig,
      CreateThread, MainSleeps, Connect, ConnectFails, Retry, OpenConfig, NoConfig, ReadFails,
      OpenLog, NoLog, Open, OpenFails, LoggerBegins, M2SerialBegins, M2StatusRuns, SensorBegins,
      SensorRuns, MissionBegins, MissionRuns, CardChanges, Beat
  <2> QED
    BY <2>1, <2>3
<1> QED
  BY <1>1, Invariance, PTL DEF Spec, ConfigSettled
=============================================================================
