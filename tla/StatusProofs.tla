---------------------------- MODULE StatusProofs ----------------------------
(***************************************************************************)
(* Proofs about the status of a board and its way to the ground.           *)
(*                                                                         *)
(* Rollup: for any number of subsystems, statuses, threads and priorities  *)
(* the roll-up is safe although it is neither locked nor atomic.           *)
(* StatusRollup: and the LED of a board tells the truth about it.          *)
(* Downlink: and so do the frames that are sent while nobody reports; for  *)
(* any lengths of the texts and any width of the index.                    *)
(***************************************************************************)
EXTENDS StatusRollup, Downlink, TLAPS

(* A sequence of one is not empty. *)
LEMMA OneLong ==
  ASSUME NEW S, NEW q \in Seq(S), Len(q) = 1
  PROVE  q # <<>>
  OBVIOUS

USE RollupAssumption DEF RollupAssumption

(* Thread t is inside an update that has yet to look at field f in a way that
   will raise overall to at least that field's status. *)
Covers(t, f) ==
  \/ pc[t] = "reset"
  \/ pc[t] \in {"scan", "write"} /\ level[t] < field[f]
  \/ pc[t] = "write" /\ level[t] = field[f]
  \/ pc[t] = "scan" /\ level[t] = field[f] /\ pos[t] <= f

(* Each field is already accounted for, or some thread will account for it. *)
Accounted ==
  rolled = 1 => \A f \in Fields : overall >= field[f] \/ \E t \in Threads : Covers(t, f)

(* Statuses are numbers. *)
LEMMA Statuses ==
  /\ \A s \in Status : s \in Int /\ s >= OK /\ s <= Worst
  /\ \A s \in Scanned : s \in Status /\ s >= Unknown
  /\ OK \in Status /\ Unknown \in Scanned /\ Worst \in Scanned
  BY DEF Status, Scanned, OK, Unknown

LEMMA RollupTypes ==
  RollupTypeOK =>
    /\ overall \in Int
    /\ \A f \in Fields : f \in Int /\ 1 <= f /\ f <= NumFields /\ field[f] \in 0..Worst
    /\ \A t \in Threads : level[t] \in 1..Worst /\ pos[t] \in Int
  BY DEF RollupTypeOK, Status, Scanned, OK, Fields

(* Storing a status and every step of an update preserve the types. *)
LEMMA StoreType ==
  ASSUME RollupTypeOK, NEW t \in Threads, NEW f \in Fields, NEW s \in Status,
         StoreStatus(t, f, s), pc' = pc \/ pc' = [pc EXCEPT ![t] = "reset"]
  PROVE  RollupTypeOK'
  BY DEF StoreStatus, RollupTypeOK

LEMMA NextLevelType ==
  ASSUME RollupTypeOK, NEW t \in Threads, NextLevel(t), overall' \in Status
  PROVE  RollupTypeOK'
  <1>1. \A l \in Scanned : l # Worst => l + 1 \in Scanned
    BY DEF Scanned, Status, OK
  <1>2. level' \in [Threads -> Scanned]
    BY <1>1 DEF NextLevel, RollupTypeOK
  <1>3. pos' \in [Threads -> 1..(NumFields + 1)]
    BY DEF NextLevel, RollupTypeOK
  <1> QED BY <1>2, <1>3 DEF NextLevel, RollupTypeOK

LEMMA UpdateType ==
  ASSUME RollupTypeOK, NEW t \in Threads, Update(t)
  PROVE  RollupTypeOK'
  <1>1. CASE Reset(t)
    BY <1>1, Statuses DEF Reset, RollupTypeOK
  <1>2. CASE Compare(t)
    BY <1>2 DEF Compare, RollupTypeOK
  <1>3. CASE NoneFound(t)
    BY <1>3, NextLevelType DEF NoneFound, RollupTypeOK
  <1>4. CASE Write(t)
    BY <1>4, NextLevelType, Statuses DEF Write, RollupTypeOK
  <1> QED BY <1>1, <1>2, <1>3, <1>4 DEF Update

-----------------------------------------------------------------------------
(* A thread that goes on to its next level accounts for every field worse than
   the level it leaves. *)
LEMMA NextLevelCovers ==
  ASSUME RollupTypeOK, NEW t \in Threads, NextLevel(t), NEW f \in Fields,
         level[t] < field[f]
  PROVE  Covers(t, f)'
  <1>1. /\ level[t] \in 1..Worst /\ field[f] \in 0..Worst /\ 1 <= f
        /\ field' = field
    BY RollupTypes DEF NextLevel
  <1>2. level[t] # Worst
    BY <1>1
  <1>3. pc'[t] = "scan" /\ pos'[t] = 1 /\ level'[t] = level[t] + 1
    BY <1>2 DEF NextLevel, RollupTypeOK
  <1>4. level'[t] = field'[f] \/ level'[t] < field'[f]
    BY <1>1, <1>3
  <1> QED BY <1>1, <1>3, <1>4 DEF Covers

(* A step of one thread leaves what another accounts for. *)
LEMMA OthersCover ==
  ASSUME RollupTypeOK, NEW t \in Threads, NEW u \in Threads, u # t, NEW f \in Fields,
         Covers(u, f), field' = field, Update(t)
  PROVE  Covers(u, f)'
  <1>1. pc'[u] = pc[u] /\ level'[u] = level[u] /\ pos'[u] = pos[u]
    BY DEF Update, Reset, Compare, NoneFound, Write, NextLevel, RollupTypeOK
  <1> QED BY <1>1 DEF Covers

(* A report accounts for all fields, and every step of an update leaves them so. *)
LEMMA StoreAccounts ==
  ASSUME RollupTypeOK, NEW t \in Threads, pc' = [pc EXCEPT ![t] = "reset"]
  PROVE  Accounted'
  BY DEF RollupTypeOK, Accounted, Covers

LEMMA UpdateAccounts ==
  ASSUME RollupTypeOK, Accounted, NEW t \in Threads, Update(t)
  PROVE  Accounted'
  <1> SUFFICES ASSUME rolled' = 1, NEW f \in Fields
               PROVE  overall' >= field'[f] \/ \E u \in Threads : Covers(u, f)'
    BY DEF Accounted
  <1>t. /\ overall \in Int /\ f \in Int /\ 1 <= f /\ f <= NumFields /\ field[f] \in 0..Worst
        /\ level[t] \in 1..Worst /\ pos[t] \in Int
    BY RollupTypes
  <1>1. CASE Reset(t)
    <2>1. /\ overall' = OK /\ field' = field
          /\ pc'[t] = "scan" /\ level'[t] = Unknown /\ pos'[t] = 1
      BY <1>1 DEF Reset, RollupTypeOK
    <2>2. field[f] = OK \/ Unknown <= field[f]
      BY <1>t DEF OK, Unknown
    <2> QED BY <1>t, <2>1, <2>2 DEF Covers, OK, Unknown
  <1>2. CASE Compare(t)
    <2>1. field' = field /\ overall' = overall /\ rolled = 1
      BY <1>2 DEF Compare
    <2>2. Covers(t, f) => Covers(t, f)'
      <3>1. /\ level' = level /\ pc[t] = "scan"
            /\ \/ pc'[t] = "write"
               \/ pc'[t] = "scan" /\ pos'[t] = pos[t] + 1 /\ field[pos[t]] # level[t]
        BY <1>2 DEF Compare, RollupTypeOK
      <3> QED BY <1>t, <2>1, <3>1 DEF Covers
    <2> QED BY <2>1, <2>2, OthersCover DEF Accounted
  <1>3. CASE NoneFound(t)
    <2>1. field' = field /\ overall' = overall /\ rolled = 1 /\ NextLevel(t)
      BY <1>3 DEF NoneFound, NextLevel
    <2>2. Covers(t, f) => level[t] < field[f]
      <3>1. pc[t] = "scan" /\ ~(pos[t] <= f)
        BY <1>3, <1>t DEF NoneFound
      <3> QED BY <3>1 DEF Covers
    <2> QED BY <2>1, <2>2, OthersCover, NextLevelCovers DEF Accounted
  <1>4. CASE Write(t)
    <2>1. field' = field /\ overall' = level[t] /\ NextLevel(t)
      BY <1>4 DEF Write, NextLevel
    <2>2. level[t] >= field[f] \/ level[t] < field[f]
      BY <1>t
    <2> QED BY <2>1, <2>2, NextLevelCovers
  <1> QED BY <1>1, <1>2, <1>3, <1>4 DEF Update

(* With no update under way the board's status is not better than any of its subsystems. *)
LEMMA RestIsAccounted ==
  ASSUME RollupTypeOK, Accounted, AtRest, rolled = 1, NEW f \in Fields
  PROVE  overall >= field[f]
  <1>1. ~ \E t \in Threads : Covers(t, f)
    BY DEF AtRest, Covers
  <1> QED BY <1>1 DEF Accounted

-----------------------------------------------------------------------------
(* StatusRollup. *)

(* Nothing is rolled up before the status has an origin. *)
BootOrder ==
  /\ rolled = 1 => boot = "origin"
  /\ rolled = 0 => overall = Unknown
  /\ \A t \in Threads :
       /\ pc[t] # "idle" => boot = "origin"
       /\ pc[t] \in {"scan", "write"} => rolled = 1

(* What the heartbeat has copied and what it shows. *)
LookInv ==
  /\ mystatus = OK => \A f \in Fields : field[f] = OK \/ f \in since
  /\ led = "green" => beat = "lit" /\ mystatus = OK

IInv == TypeOK /\ BootOrder /\ Accounted /\ LookInv

(* The initial state satisfies the invariant. *)
LEMMA InitIInv == StatusInit => IInv
  <1> SUFFICES ASSUME StatusInit PROVE IInv
    OBVIOUS
  <1>1. TypeOK
    BY Statuses DEF StatusInit, TypeOK, RollupTypeOK
  <1>2. BootOrder /\ Accounted /\ LookInv
    BY DEF StatusInit, BootOrder, Accounted, LookInv
  <1> QED BY <1>1, <1>2 DEF IInv

(* A report before the status has an origin is stored, and not rolled up. *)
LEMMA ReportStep ==
  ASSUME IInv, NEW t \in Threads, NEW f \in Fields, NEW s \in Status, Report(t, f, s)
  PROVE  IInv'
  <1>t. TypeOK /\ RollupTypeOK /\ BootOrder /\ Accounted /\ LookInv
    BY DEF IInv, TypeOK
  <1>1. /\ StoreStatus(t, f, s)
        /\ pc' = IF boot = "origin" THEN [pc EXCEPT ![t] = "reset"] ELSE pc
        /\ since' = since \union {f} /\ UNCHANGED <<boot, beat, mystatus, led>>
        /\ UNCHANGED <<overall, rolled>> /\ field' = [field EXCEPT ![f] = s]
    BY DEF Report, StoreStatus, heartbeatVars
  <1>2. TypeOK'
    BY <1>1, <1>t, StoreType DEF TypeOK
  <1>3. BootOrder'
    BY <1>1, <1>t DEF BootOrder, RollupTypeOK
  <1>4. Accounted'
    <2>1. CASE boot = "origin"
      BY <1>1, <1>t, <2>1, StoreAccounts
    <2>2. CASE boot # "origin"
      BY <1>1, <1>t, <2>2 DEF BootOrder, Accounted
    <2> QED BY <2>1, <2>2
  <1>5. LookInv'
    BY <1>1, <1>t DEF LookInv, RollupTypeOK
  <1> QED BY <1>2, <1>3, <1>4, <1>5 DEF IInv

LEMMA RollStep ==
  ASSUME IInv, NEW t \in Threads, Roll(t)
  PROVE  IInv'
  <1>t. TypeOK /\ RollupTypeOK /\ BootOrder /\ Accounted /\ LookInv
    BY DEF IInv, TypeOK
  <1>1. Update(t) /\ UNCHANGED <<boot, beat, mystatus, led, since>>
    BY DEF Roll, heartbeatVars
  <1>2. TypeOK' /\ Accounted'
    BY <1>1, <1>t, UpdateType, UpdateAccounts DEF TypeOK
  <1>3. BootOrder'
    <2>1. CASE Reset(t)
      BY <1>1, <1>t, <2>1 DEF Reset, BootOrder, RollupTypeOK
    <2>2. CASE Compare(t)
      BY <1>1, <1>t, <2>2 DEF Compare, BootOrder, RollupTypeOK
    <2>3. CASE NoneFound(t)
      BY <1>1, <1>t, <2>3 DEF NoneFound, NextLevel, BootOrder, RollupTypeOK
    <2>4. CASE Write(t)
      BY <1>1, <1>t, <2>4 DEF Write, NextLevel, BootOrder, RollupTypeOK
    <2> QED BY <1>1, <2>1, <2>2, <2>3, <2>4 DEF Update
  <1>4. field' = field
    BY <1>1 DEF Update, Reset, Compare, NoneFound, Write, NextLevel
  <1> QED BY <1>1, <1>2, <1>3, <1>4, <1>t DEF IInv, LookInv

(* The heartbeat is below all other threads: it looks when no update is under way. *)
LEMMA LookStep ==
  ASSUME IInv, Look
  PROVE  LookInv'
  <1>t. TypeOK /\ RollupTypeOK /\ BootOrder /\ Accounted /\ LookInv
    BY DEF IInv, TypeOK
  <1>1. /\ beat = "dark" /\ MayRun(0) /\ UNCHANGED <<field, led>>
        /\ \/ UNCHANGED <<mystatus, since>>
           \/ mystatus' = overall
    BY DEF Look, rollupVars
  <1>2. led' # "green"
    BY <1>1, <1>t DEF LookInv
  <1>3. ASSUME mystatus' = overall, mystatus' = OK, NEW f \in Fields PROVE field[f] = OK
    <2>1. AtRest
      BY <1>1, <1>t DEF MayRun, AtRest, RollupTypeOK
    <2>2. rolled = 1
      BY <1>3, <1>t DEF BootOrder, RollupTypeOK, OK, Unknown
    <2>3. overall >= field[f] /\ field[f] \in 0..Worst
      BY <1>t, <2>1, <2>2, RestIsAccounted, RollupTypes
    <2> QED BY <1>3, <2>3 DEF OK
  <1> QED BY <1>1, <1>2, <1>3, <1>t DEF LookInv

LEMMA IInvStep == IInv /\ [StatusNext]_statusVars => IInv'
  <1> SUFFICES ASSUME IInv, [StatusNext]_statusVars PROVE IInv'
    OBVIOUS
  <1>1. ASSUME NEW t \in Threads, NEW f \in Owns[t], NEW s \in Says[t], Report(t, f, s) PROVE IInv'
    BY <1>1, ReportStep
  <1>2. ASSUME NEW t \in Threads, Roll(t) PROVE IInv'
    BY <1>2, RollStep
  <1>3. CASE SetLocal \/ SetOrigin \/ Look \/ Show \/ LedOff \/ UNCHANGED statusVars
    <2>1. UNCHANGED <<field, overall, pc, level, pos, rolled>>
      BY <1>3 DEF SetLocal, SetOrigin, Look, Show, LedOff, statusVars, rollupVars
    <2>2. TypeOK' /\ BootOrder' /\ Accounted'
      <3>1. RollupTypeOK' /\ Accounted'
        BY <2>1 DEF IInv, TypeOK, RollupTypeOK, Accounted, Covers
      <3>2. /\ boot' \in {"null", "local", "origin"} /\ beat' \in {"dark", "looked", "lit"}
            /\ mystatus' \in Status /\ led' \in {"off", "green", "red"} /\ since' \subseteq Fields
            /\ boot = "origin" => boot' = "origin"
        BY <1>3 DEF IInv, TypeOK, RollupTypeOK, SetLocal, SetOrigin, Look, Show, LedOff, statusVars,
                    heartbeatVars
      <3> QED BY <2>1, <3>1, <3>2 DEF IInv, TypeOK, BootOrder
    <2>3. CASE Look
      BY <2>3, LookStep, <2>2 DEF IInv
    <2>4. CASE SetLocal \/ SetOrigin \/ Show \/ LedOff \/ UNCHANGED statusVars
      <3>1. LookInv'
        BY <2>1, <2>4 DEF IInv, LookInv, SetLocal, SetOrigin, Show, LedOff, statusVars, heartbeatVars
      <3> QED BY <2>2, <3>1 DEF IInv
    <2> QED BY <1>3, <2>3, <2>4
  <1> QED BY <1>1, <1>2, <1>3 DEF StatusNext

(* The inductive invariant holds in every reachable state. *)
THEOREM Invariance == StatusSpec => []IInv
  BY InitIInv, IInvStep, PTL DEF StatusSpec

(* The variables of a board's status keep their types. *)
THEOREM RollupTypeCorrect == StatusSpec => []TypeOK
  <1>1. IInv => TypeOK
    BY DEF IInv
  <1> QED BY <1>1, Invariance, PTL

(* With no update under way the board's status is never better than that of its
   worst subsystem: racing updates cannot lose one another's errors. *)
THEOREM RollupIsSafe == StatusSpec => []NeverBetterThanWorst
  <1>1. IInv => NeverBetterThanWorst
    BY RestIsAccounted DEF IInv, TypeOK, NeverBetterThanWorst
  <1> QED BY <1>1, Invariance, PTL

(* The LED is green only if every subsystem was OK when the heartbeat copied the board's
   status, or has reported since: it takes no lock, but runs below every thread that
   reports, and so never copies the OK from which a roll-up starts. *)
THEOREM GreenIsOk == StatusSpec => []GreenMeansOk
  <1>1. IInv => GreenMeansOk
    BY DEF IInv, LookInv, GreenMeansOk
  <1> QED BY <1>1, Invariance, PTL

-----------------------------------------------------------------------------
(* Downlink. *)

USE ExchangeAssumption, DownlinkAssumption DEF ExchangeAssumption, DownlinkAssumption

(* The frame that is being copied stays where it is. *)
CopyInv == copying => line # <<>> /\ line[1].origin = "nose"

TypeInv == ExchangeTypeOK /\ RadioTypeOK

LEMMA TypeInvInit == Init => TypeInv
  <1> SUFFICES ASSUME Init PROVE TypeInv
    OBVIOUS
  <1>1. ExchangeTypeOK
    <2>1. RollupTypeOK
      <3>1. level \in [Threads -> Scanned] /\ pos \in [Threads -> 1..(NumFields + 1)]
        BY Statuses DEF Init, ExchangeInit
      <3>2. field \in [Fields -> Status] /\ overall \in Status /\ rolled \in {0, 1}
        BY Statuses DEF Init, ExchangeInit
      <3>3. pc \in [Threads -> {"idle", "reset", "scan", "write"}]
        BY DEF Init, ExchangeInit
      <3> QED BY <3>1, <3>2, <3>3 DEF RollupTypeOK
    <2>2. copy \in Struct
      BY Statuses DEF Init, ExchangeInit, Zero, Struct
    <2>3. mtx = "free" /\ turn = "body" /\ tx = <<>> /\ line = <<>> /\ damage = 0
      BY DEF Init, ExchangeInit
    <2>4. copying \in BOOLEAN /\ ready \in BOOLEAN /\ steady \in BOOLEAN
      BY DEF Init, ExchangeInit
    <2>5. tx \in Seq(Status) /\ Len(tx) = 0
          /\ line \in Seq([struct : Struct, origin : {"body", "nose"}]) /\ Len(line) = 0
      BY <2>3
    <2> QED BY <2>1, <2>2, <2>3, <2>4, <2>5 DEF ExchangeTypeOK
  <1>2. RadioTypeOK
    BY DEF Init, RadioInit, RadioTypeOK, Text
  <1> QED BY <1>1, <1>2 DEF TypeInv

(* The exchange leaves the radio alone. *)
LEMMA ExchangeStep == TypeInv /\ CopyInv /\ ExchangeNext => ExchangeTypeOK'
  <1> SUFFICES ASSUME TypeInv, CopyInv, ExchangeNext PROVE ExchangeTypeOK'
    OBVIOUS
  <1> USE DEF TypeInv, ExchangeTypeOK, sendVars, radioBoardVars
  <1>u. ASSUME UNCHANGED rollupVars PROVE RollupTypeOK'
    BY <1>u DEF rollupVars, RollupTypeOK
  <1> DEFINE Frames == [struct : Struct, origin : {"body", "nose"}]
  <1>z. Zero \in Struct
    BY Statuses DEF Zero, Struct
  <1>f. \A f \in Frames : <<f>> \in Seq(Frames) /\ Len(<<f>>) = 1
    OBVIOUS
  <1>n. ASSUME tx # <<>> PROVE tx[1] \in Status
    BY <1>n
  <1>l. ASSUME line # <<>>
        PROVE  line[1] \in Frames /\ line[1].struct \in Struct /\ line[1].origin \in {"body", "nose"}
    <2>1. line \in Seq(Frames) /\ Len(line) >= 1
      BY <1>l
    <2>2. line[1] \in Frames
      <3> HIDE DEF Frames
      <3> QED BY <2>1
    <2> QED BY <2>2
  <1>1. ASSUME NEW t \in Threads, ReportAny(t) PROVE ExchangeTypeOK'
    <2>1. PICK f \in Owns[t], s \in Says[t] : ReportOnNose(t, f, s)
      BY <1>1 DEF ReportAny
    <2>2. f \in Fields /\ s \in Status
      BY <2>1, RollupAssumption DEF RollupAssumption
    <2>3. RollupTypeOK'
      BY <2>1, <2>2, StoreType DEF ReportOnNose
    <2> QED BY <2>1, <2>3 DEF ReportOnNose
  <1>2. ASSUME NEW t \in Threads, UpdateOnNose(t) PROVE ExchangeTypeOK'
    <2>1. RollupTypeOK'
      BY <1>2, UpdateType DEF UpdateOnNose
    <2> QED BY <1>2, <2>1 DEF UpdateOnNose
  <1>4. CASE SendBody
    <2>1. Frame(Zero, "body") \in Frames
      BY <1>z DEF Frame
    <2> QED BY <1>4, <1>f, <1>u, <2>1 DEF SendBody
  <1>5. CASE BeginNose
    <2>1. <<overall>> \in Seq(Status) /\ Len(<<overall>>) = 1
      BY DEF RollupTypeOK
    <2>2. steady' \in BOOLEAN
      BY <1>5 DEF BeginNose
    <2> QED BY <1>5, <1>u, <2>1, <2>2 DEF BeginNose
  <1>6. CASE EndNose
    <2>1. mtx = "sender"
      BY <1>6 DEF EndNose
    <2>2. tx # <<>> /\ line' = <<Frame([overall |-> tx[1], sub |-> field[1]], "nose")>>
      <3>1. Len(tx) = 1 /\ tx \in Seq(Status)
        BY <2>1
      <3>2. tx # <<>>
        BY <3>1, OneLong
      <3>3. line' = <<Frame([overall |-> tx[1], sub |-> field[1]], "nose")>>
        BY <1>6 DEF EndNose
      <3> QED BY <3>2, <3>3
    <2>3. field[1] \in Status
      BY DEF RollupTypeOK, Fields
    <2>4. Frame([overall |-> tx[1], sub |-> field[1]], "nose") \in Frames
      BY <1>n, <2>2, <2>3 DEF Frame, Struct
    <2>5. /\ line' \in Seq(Frames) /\ Len(line') = 1 /\ RollupTypeOK'
          /\ tx' = <<>> /\ tx' \in Seq(Status) /\ Len(tx') = 0
      BY <1>6, <1>f, <1>u, <2>2, <2>4 DEF EndNose
    <2>6. /\ mtx' = "free" /\ turn' = "body" /\ steady' = FALSE
          /\ UNCHANGED <<copy, copying, ready, damage>>
      BY <1>6 DEF EndNose
    <2>7. copy' \in Struct /\ copying' \in BOOLEAN /\ ready' \in BOOLEAN /\ steady' \in BOOLEAN
          /\ damage' \in 0..MaxDamage
      BY <2>6
    <2> QED BY <2>5, <2>6, <2>7
  <1>7. CASE OpenShell \/ ExitShell
    BY <1>7, <1>u DEF OpenShell, ExitShell
  <1>8. CASE Damage
    <2>1. line # <<>> /\ damage' \in 0..MaxDamage
      BY <1>8 DEF Damage
    <2>u. RollupTypeOK' /\ UNCHANGED <<sendVars, radioBoardVars>> /\ steady' \in BOOLEAN
      BY <1>8, <1>u DEF Damage
    <2>2. CASE line' = <<>>
      BY <2>u, <2>1, <2>2
    <2>3. ASSUME NEW s \in Status, line' = <<[line[1] EXCEPT !.struct.overall = s]>>
          PROVE  ExchangeTypeOK'
      <3>1. [line[1] EXCEPT !.struct.overall = s] \in Frames
        BY <1>l, <2>1 DEF Struct
      <3> QED BY <1>f, <2>u, <2>1, <2>3, <3>1
    <2>4. ASSUME NEW s \in Status, line' = <<[line[1] EXCEPT !.struct.sub = s]>>
          PROVE  ExchangeTypeOK'
      <3>1. [line[1] EXCEPT !.struct.sub = s] \in Frames
        BY <1>l, <2>1 DEF Struct
      <3> QED BY <1>f, <2>u, <2>1, <2>4, <3>1
    <2>5. ASSUME NEW origin \in {"body", "nose"}, line' = <<[line[1] EXCEPT !.origin = origin]>>
          PROVE  ExchangeTypeOK'
      <3>1. [line[1] EXCEPT !.origin = origin] \in Frames
        BY <1>l, <2>1
      <3> QED BY <1>f, <2>u, <2>1, <2>5, <3>1
    <2> QED BY <1>8, <2>2, <2>3, <2>4, <2>5 DEF Damage
  <1>9. CASE RxOther
    BY <1>9, <1>u DEF RxOther
  <1>10. CASE RxFirst
    <2>1. line # <<>>
      BY <1>10 DEF RxFirst
    <2>2. line[1].struct.overall \in Status
      BY <1>l, <2>1 DEF Struct
    <2>3. copy' \in Struct
      BY <1>10, <2>2 DEF RxFirst, Struct
    <2>4. UNCHANGED <<sendVars, line, ready, steady, damage>> /\ copying' \in BOOLEAN /\ RollupTypeOK'
      BY <1>10, <1>u DEF RxFirst
    <2> QED BY <2>3, <2>4
  <1>11. CASE RxRest
    <2>0. line # <<>>
      BY <1>11 DEF RxRest, CopyInv
    <2>1. line[1].struct.sub \in Status
      BY <1>l, <2>0 DEF Struct
    <2>2. copy' \in Struct
      BY <1>11, <2>1 DEF RxRest, Struct
    <2>3. line' = <<>> /\ UNCHANGED <<sendVars, ready, steady, damage>> /\ RollupTypeOK'
      BY <1>11, <1>u DEF RxRest
    <2>4. copying' \in BOOLEAN
      BY <1>11 DEF RxRest
    <2> QED BY <2>2, <2>3, <2>4
  <1>12. CASE Sound
    <2>1. ready' \in BOOLEAN
      BY <1>12 DEF Sound
    <2> QED BY <1>12, <1>u, <2>1 DEF Sound
  <1> QED
    BY <1>1, <1>2, <1>4, <1>5, <1>6, <1>7, <1>8, <1>9, <1>10, <1>11, <1>12
       DEF ExchangeNext

LEMMA CopyInvStep == TypeInv /\ CopyInv /\ ExchangeNext => CopyInv'
  <1> SUFFICES ASSUME TypeInv, CopyInv, ExchangeNext PROVE CopyInv'
    OBVIOUS
  <1>1. UNCHANGED <<line, copying>> \/ ~copying'
        \/ (line' = line /\ line # <<>> /\ line[1].origin = "nose")
    <2>1. CASE RxFirst
      BY <2>1 DEF RxFirst
    <2>2. CASE SendBody \/ EndNose
      BY <2>2 DEF SendBody, EndNose, CopyInv, radioBoardVars
    <2>3. CASE RxOther
      BY <2>3 DEF RxOther, CopyInv, radioBoardVars
    <2>4. CASE Damage
      BY <2>4 DEF Damage, radioBoardVars
    <2>5. CASE RxRest
      BY <2>5 DEF RxRest
    <2>6. CASE (\E t \in Threads : ReportAny(t) \/ UpdateOnNose(t)) \/ BeginNose
               \/ OpenShell \/ ExitShell \/ Sound
      BY <2>6 DEF ReportAny, ReportOnNose, UpdateOnNose, BeginNose, OpenShell, ExitShell, Sound,
                  radioBoardVars
    <2> QED BY <2>1, <2>2, <2>3, <2>4, <2>5, <2>6 DEF ExchangeNext
  <1> QED BY <1>1 DEF CopyInv

-----------------------------------------------------------------------------
(* The radio: whatever is read of a copy that the other side is writing. *)
LEMMA RadioStep ==
  ASSUME TypeInv, NothingPastTheEnd, RadioNext
  PROVE  RadioTypeOK' /\ NothingPastTheEnd'
  <1> DEFINE Lengths == {InitLength} \union UNION {TextLengths[s] : s \in DOMAIN TextLengths}
  <1>t. /\ text.length \in Lengths /\ byteidx \in 0..(Wrap - 1)
        /\ bitidx \in 0..(BitsPerChar - 1)
        /\ copy.sub \in DOMAIN TextLengths
    BY DEF TypeInv, RadioTypeOK, ExchangeTypeOK, Struct
  <1>l. Lengths \subseteq Nat \ {0}
    OBVIOUS
  <1>n. NextByte \in 0..(Wrap - 1) /\ NextByte <= byteidx + 1
    BY <1>t DEF NextByte
  <1>1. CASE NextBit
    <2>1. bitidx' \in 0..(BitsPerChar - 1) /\ UNCHANGED <<text, byteidx>>
      BY <1>1, <1>t DEF NextBit
    <2> QED BY <2>1, <1>t DEF RadioTypeOK, NothingPastTheEnd
  <1>2. CASE NextChar
    <2>1. /\ bitidx' = 0 /\ byteidx' = NextByte /\ text' = text
          /\ NextByte # text.length
      BY <1>2 DEF NextChar, LastBit
    <2>2. byteidx < text.length /\ text.length \in Nat
      BY <1>t, <1>l DEF NothingPastTheEnd
    <2>3. NextByte < text.length
      BY <2>1, <2>2, <1>n, <1>t
    <2> QED BY <2>1, <2>3, <1>n, <1>t DEF RadioTypeOK, NothingPastTheEnd
  <1>3. CASE EndOfMessage
    <2>1. bitidx' = 0 /\ byteidx' = 0
      BY <1>3 DEF EndOfMessage, LastBit
    <2>2. PICK n \in TextLengths[copy.sub] : text' = Text(copy.sub, n)
      BY <1>3 DEF EndOfMessage, MakeTelemString, Summary
    <2>3. text'.length = n /\ n \in Lengths
      BY <2>2, <1>t DEF Text
    <2>4. n \in Nat \ {0}
      BY <2>3, <1>l
    <2> QED BY <2>1, <2>3, <2>4, <1>t DEF RadioTypeOK, NothingPastTheEnd
  <1> QED BY <1>1, <1>2, <1>3 DEF RadioNext

(* A frame is steady only as long as nobody reports, and never says better of the board
   than its subsystems are. *)
SteadyInv ==
  mtx = "sender" /\ steady => AtRest /\ \A f \in Fields : tx[1] >= field[f]

LEMMA SteadyStep ==
  ASSUME TypeInv, Accounted, SteadyInv, ExchangeNext
  PROVE  Accounted' /\ SteadyInv'
  <1>t. RollupTypeOK
    BY DEF TypeInv, ExchangeTypeOK
  <1>0. UNCHANGED rollupVars => Accounted'
    BY DEF rollupVars, Accounted, Covers
  <1>1. ASSUME NEW t \in Threads, ReportAny(t) PROVE Accounted' /\ SteadyInv'
    <2>1. pc' = [pc EXCEPT ![t] = "reset"] /\ steady' = FALSE
      BY <1>1 DEF ReportAny, ReportOnNose
    <2> QED BY <1>t, <2>1, StoreAccounts DEF SteadyInv
  <1>2. ASSUME NEW t \in Threads, UpdateOnNose(t) PROVE Accounted' /\ SteadyInv'
    <2>1. Update(t) /\ UNCHANGED <<mtx, tx, steady>>
      BY <1>2 DEF UpdateOnNose, sendVars
    <2>2. pc[t] # "idle"
      BY <2>1 DEF Update, Reset, Compare, NoneFound, Write
    <2>3. ~(mtx = "sender" /\ steady)
      BY <2>2 DEF SteadyInv, AtRest
    <2> QED BY <1>t, <2>1, <2>3, UpdateAccounts DEF SteadyInv
  <1>3. CASE BeginNose
    <2>1. /\ tx' = <<overall>> /\ steady' = (AtRest /\ rolled = 1) /\ UNCHANGED rollupVars
      BY <1>3 DEF BeginNose
    <2>2. steady' => AtRest /\ \A f \in Fields : overall >= field[f]
      BY <1>t, <2>1, RestIsAccounted
    <2>3. SteadyInv'
      BY <2>1, <2>2 DEF SteadyInv, AtRest, rollupVars
    <2> QED BY <1>0, <2>1, <2>3
  <1>4. CASE EndNose
    BY <1>0, <1>4 DEF EndNose, SteadyInv
  <1>5. CASE OpenShell \/ ExitShell
    BY <1>0, <1>5 DEF OpenShell, ExitShell, SteadyInv
  <1>6. CASE SendBody \/ Damage \/ RxOther \/ RxFirst \/ RxRest \/ Sound
    <2>1. UNCHANGED <<rollupVars, mtx, tx, steady>>
      BY <1>6 DEF SendBody, Damage, RxOther, RxFirst, RxRest, Sound, sendVars
    <2>2. SteadyInv'
      BY <2>1 DEF SteadyInv, AtRest, rollupVars
    <2> QED BY <1>0, <2>1, <2>2
  <1> QED BY <1>1, <1>2, <1>3, <1>4, <1>5, <1>6 DEF ExchangeNext

DownlinkInv == TypeInv /\ CopyInv /\ NothingPastTheEnd /\ Accounted /\ SteadyInv

LEMMA DownlinkInvHolds == Spec => []DownlinkInv
  <1>1. Init => DownlinkInv
    <2>1. Init => CopyInv /\ Accounted /\ SteadyInv
      BY DEF Init, ExchangeInit, CopyInv, Accounted, SteadyInv
    <2>2. Init => NothingPastTheEnd
      BY DEF Init, RadioInit, Text, NothingPastTheEnd
    <2> QED BY <2>1, <2>2, TypeInvInit DEF DownlinkInv
  <1>2. DownlinkInv /\ [Next]_vars => DownlinkInv'
    <2> SUFFICES ASSUME DownlinkInv, [Next]_vars PROVE DownlinkInv'
      OBVIOUS
    <2>1. CASE ExchangeNext /\ UNCHANGED <<text, byteidx, bitidx>>
      <3>1. ExchangeTypeOK' /\ CopyInv' /\ Accounted' /\ SteadyInv'
        BY <2>1, ExchangeStep, CopyInvStep, SteadyStep DEF DownlinkInv
      <3>2. RadioTypeOK' /\ NothingPastTheEnd'
        BY <2>1 DEF DownlinkInv, TypeInv, RadioTypeOK, NothingPastTheEnd
      <3> QED BY <3>1, <3>2 DEF DownlinkInv, TypeInv
    <2>2. CASE \/ /\ RadioNext
                  /\ UNCHANGED <<rollupVars, sendVars, line, copying, ready, steady, damage>>
               \/ UNCHANGED vars
      <3>1. RadioTypeOK' /\ NothingPastTheEnd'
        BY <2>2, RadioStep DEF DownlinkInv, TypeInv, RadioTypeOK, NothingPastTheEnd, vars, radioVars
      <3>2. copy' = copy /\ UNCHANGED <<rollupVars, sendVars, line, copying, ready, steady, damage>>
        BY <2>2 DEF RadioNext, NextBit, NextChar, EndOfMessage, vars, exchangeVars, radioBoardVars
      <3>3. RollupTypeOK' /\ Accounted' /\ SteadyInv'
        BY <3>2 DEF DownlinkInv, TypeInv, ExchangeTypeOK, RollupTypeOK, Accounted, Covers, SteadyInv,
                    AtRest, rollupVars, sendVars
      <3>4. ExchangeTypeOK' /\ CopyInv'
        BY <3>2, <3>3 DEF DownlinkInv, TypeInv, ExchangeTypeOK, CopyInv, sendVars
      <3> QED BY <3>1, <3>3, <3>4 DEF DownlinkInv, TypeInv
    <2> QED BY <2>1, <2>2 DEF Next
  <1> QED BY <1>1, <1>2, PTL DEF Spec

(* The variables of the exchange and of the radio keep their types. *)
THEOREM DownlinkTypeCorrect == Spec => [](ExchangeTypeOK /\ RadioTypeOK)
  <1>1. DownlinkInv => ExchangeTypeOK /\ RadioTypeOK
    BY DEF DownlinkInv, TypeInv
  <1> QED BY <1>1, DownlinkInvHolds, PTL

(* However long the texts are and however narrow the index is, no character behind the
   end of the text is ever played. *)
THEOREM TextIsNotOverrun == Spec => []NothingPastTheEnd
  <1>1. DownlinkInv => NothingPastTheEnd
    BY DEF DownlinkInv
  <1> QED BY <1>1, DownlinkInvHolds, PTL

(* For any number of threads that report any subsystems: a frame that is sent while nobody
   reports never says better of the board than its worst subsystem, however the roll-ups
   before it interleaved. *)
THEOREM SettledFramesAreTrue == Spec => []SettledIsSent
  <1>1. DownlinkInv => SettledIsSent
    BY DEF DownlinkInv, SteadyInv, SettledIsSent
  <1> QED BY <1>1, DownlinkInvHolds, PTL
=============================================================================
