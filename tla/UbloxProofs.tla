---------------------------- MODULE UbloxProofs ----------------------------
(***************************************************************************)
(* Proofs about Ublox, for bytes, buffers, structs and messages of any     *)
(* size and any number of damaged bytes: while the machine is inside a     *)
(* frame that began when it was idle and of which no byte was damaged, its *)
(* state says how far the frame has been read.                             *)
(***************************************************************************)
EXTENDS Ublox, SequenceTheorems, TLAPS

(* n bytes of the frame have been read; these are left. *)
AtFrame(n) ==
  /\ msg \in Messages
  /\ Len(out) = 8 + Len(msg.payload) - n
  /\ \A i \in 1..Len(out) : out[i] = Frame(msg)[n + i]

HeaderRead == class = msg.class /\ id = msg.id /\ length = Len(msg.payload)

(* What the state of the machine says of the frame. *)
Reading ==
  \/ state = "SYNC1" /\ AtFrame(1)
  \/ state = "SYNC2" /\ AtFrame(2)
  \/ state = "CLASS" /\ AtFrame(3) /\ class = msg.class
  \/ state = "ID" /\ AtFrame(4) /\ class = msg.class /\ id = msg.id
  \/ /\ state = "L1" /\ AtFrame(5)
     /\ class = msg.class /\ id = msg.id /\ length = Len(msg.payload) % Base
  \/ /\ state = "PAYLOAD" /\ HeaderRead
     /\ AtFrame(6 + Len(payload)) /\ Len(payload) <= length
     /\ \A i \in 1..Len(payload) : payload[i] = msg.payload[i]
  \/ state = "PAYLOAD_DONE" /\ AtFrame(7 + length) /\ HeaderRead /\ payload = msg.payload
  \/ state = "CK_A" /\ AtFrame(8 + length) /\ HeaderRead /\ payload = msg.payload

(* An undamaged frame that began at an idle machine is followed to its end. *)
Follows ==
  intact = "apart" =>
    \/ state = "IDLE" /\ out = <<>> /\ due = Nothing
    \/ Reading /\ due = IF state = "CK_A" THEN msg ELSE Nothing

(* With nothing damaged and nothing crowded every frame is such a frame. *)
Undisturbed == damage = 0 /\ crowded = 0 => intact = "apart"

(* Every variable that the proofs do arithmetic with has its type. *)
TypeOK ==
  /\ state \in {"IDLE", "SYNC1", "SYNC2", "CLASS", "ID", "L1", "PAYLOAD", "PAYLOAD_DONE",
                "CK_A"}
  /\ class \in Byte /\ id \in Byte /\ length \in Nat /\ payload \in Seq(Byte)
  /\ out \in Seq(Nat) /\ msg \in Messages \union {Nothing}
  /\ damage \in Nat /\ crowded \in {0, 1} /\ overrun \in {0, 1}

IInv == TypeOK /\ Follows /\ Undisturbed /\ NoPhantoms

-----------------------------------------------------------------------------
(* What a message of the module is. *)
LEMMA MessageIs ==
  ASSUME NEW m \in Messages
  PROVE  /\ m.class \in Byte /\ m.id \in Byte /\ m.payload \in Seq(Byte)
         /\ m = [class |-> m.class, id |-> m.id, payload |-> m.payload]
         /\ m # Nothing
<1>1. /\ m.class \in Byte /\ m.id \in Byte /\ m.payload \in Seq(Byte)
      /\ m = [class |-> m.class, id |-> m.id, payload |-> m.payload]
  BY UbloxAssumption
<1>2. m.class # -1
  BY <1>1, UbloxAssumption DEF Byte
<1> QED
  BY <1>1, <1>2 DEF Nothing

(* The two bytes of a length give the length. *)
LEMMA TwoBytes ==
  ASSUME NEW n \in Nat
  PROVE  /\ n % Base \in Nat /\ n \div Base \in Nat
         /\ (n % Base) + (n \div Base) * Base = n
  BY UbloxAssumption

(* Two sequences, one after the other. *)
LEMMA Joined ==
  \A s, t \in Seq(Nat) :
    /\ s \o t \in Seq(Nat) /\ Len(s \o t) = Len(s) + Len(t)
    /\ \A i \in 1..Len(s) : (s \o t)[i] = s[i]
    /\ \A i \in 1..Len(t) : (s \o t)[Len(s) + i] = t[i]
  OBVIOUS

(* A frame, byte for byte. *)
LEMMA FrameBytes ==
  ASSUME NEW m \in Messages
  PROVE  /\ Frame(m) \in Seq(Nat) /\ Len(Frame(m)) = 8 + Len(m.payload)
         /\ Frame(m)[1] = SYNC1 /\ Frame(m)[2] = SYNC2
         /\ Frame(m)[3] = m.class /\ Frame(m)[4] = m.id
         /\ Frame(m)[5] = Len(m.payload) % Base /\ Frame(m)[6] = Len(m.payload) \div Base
         /\ \A i \in 1..Len(m.payload) : Frame(m)[6 + i] = m.payload[i]
<1> DEFINE head == <<SYNC1, SYNC2, m.class, m.id, Len(m.payload) % Base,
                     Len(m.payload) \div Base>>
           middle == m.payload
           end == <<0, 0>>
           size == Len(m.payload)
           most == head \o middle
           all == most \o end
<1>1. /\ middle \in Seq(Nat) /\ size \in Nat /\ Len(middle) = size
      /\ m.class \in Nat /\ m.id \in Nat /\ SYNC1 \in Nat /\ SYNC2 \in Nat
  BY MessageIs, UbloxAssumption DEF Byte
<1>2. head \in Seq(Nat) /\ Len(head) = 6
  <2>1. Len(m.payload) % Base \in Nat /\ Len(m.payload) \div Base \in Nat
    BY <1>1, TwoBytes
  <2> QED
    BY <1>1, <2>1
<1>3. end \in Seq(Nat) /\ Len(end) = 2
  OBVIOUS
<1>4. /\ head[1] = SYNC1 /\ head[2] = SYNC2 /\ head[3] = m.class /\ head[4] = m.id
      /\ head[5] = Len(m.payload) % Base /\ head[6] = Len(m.payload) \div Base
  OBVIOUS
<1>5. Frame(m) = all
  BY DEF Frame
<1> HIDE DEF head, middle, end, size
<1>6. /\ most \in Seq(Nat) /\ Len(most) = 6 + size
      /\ \A i \in 1..6 : most[i] = head[i]
      /\ \A i \in 1..size : most[6 + i] = middle[i]
  <2>1. /\ most \in Seq(Nat) /\ Len(most) = Len(head) + Len(middle)
        /\ \A i \in 1..Len(head) : most[i] = head[i]
        /\ \A i \in 1..Len(middle) : most[Len(head) + i] = middle[i]
    BY <1>1, <1>2, Joined, Zenon
  <2> HIDE DEF most
  <2> QED
    BY <1>1, <1>2, <2>1
<1> HIDE DEF most
<1>7. /\ all \in Seq(Nat) /\ Len(all) = (6 + size) + 2
      /\ \A i \in 1..(6 + size) : all[i] = most[i]
  <2>1. /\ all \in Seq(Nat) /\ Len(all) = Len(most) + Len(end)
        /\ \A i \in 1..Len(most) : all[i] = most[i]
    BY <1>3, <1>6, Joined, Zenon
  <2> HIDE DEF all
  <2> QED
    BY <1>1, <1>3, <1>6, <2>1
<1> HIDE DEF all
<1>8. /\ \A i \in 1..6 : Frame(m)[i] = head[i]
      /\ \A i \in 1..size : Frame(m)[6 + i] = middle[i]
      /\ Frame(m) \in Seq(Nat) /\ Len(Frame(m)) = 8 + size
  BY <1>1, <1>5, <1>6, <1>7
<1> QED
  BY <1>4, <1>8 DEF size, middle

-----------------------------------------------------------------------------
(* A byte of the frame is read as it is. *)
LEMMA Advance ==
  ASSUME TypeOK, NEW n \in Nat, NEW b, AtFrame(n), Intact(b)
  PROVE  AtFrame(n + 1)' /\ b = Frame(msg)[n + 1] /\ msg' = msg /\ n < 8 + Len(msg.payload)
<1>1. /\ Len(out) \in Nat \ {0} /\ Len(out') = Len(out) - 1 /\ out' \in Seq(Nat)
      /\ \A i \in 1..Len(out') : out'[i] = out[i + 1]
      /\ b = out[1] /\ msg' = msg
  BY DEF Intact, TypeOK
<1>2. Len(msg.payload) \in Nat
  BY MessageIs DEF AtFrame
<1>3. \A i \in 1..Len(out') : out'[i] = Frame(msg)[(n + 1) + i]
  <2> TAKE i \in 1..Len(out')
  <2>1. i + 1 \in 1..Len(out) /\ n + (i + 1) = (n + 1) + i
    BY <1>1
  <2> QED
    BY <1>1, <2>1 DEF AtFrame
<1>4. Len(out) = 8 + Len(msg.payload) - n /\ msg \in Messages
  BY DEF AtFrame
<1>5. b = Frame(msg)[n + 1]
  BY <1>1, 1 \in 1..Len(out) DEF AtFrame
<1>6. Len(out') = 8 + Len(msg.payload) - (n + 1) /\ n < 8 + Len(msg.payload)
  BY <1>1, <1>2, <1>4
<1>7. AtFrame(n + 1)'
  <2> SUFFICES /\ msg' \in Messages
               /\ Len(out') = 8 + Len(msg'.payload) - (n + 1)
               /\ \A i \in 1..Len(out') : out'[i] = Frame(msg')[(n + 1) + i]
    BY DEF AtFrame, Frame
  <2> QED
    BY <1>1, <1>3, <1>4, <1>6, Zenon
<1> QED
  BY <1>1, <1>5, <1>6, <1>7

(* A frame begins. *)
LEMMA Begin ==
  ASSUME NEW b, Begins(b)
  PROVE  AtFrame(1)'
<1>1. PICK m \in Messages : msg' = m /\ out' = Tail(Frame(m))
  BY DEF Begins
<1> DEFINE f == Frame(m)
<1>2. f \in Seq(Nat) /\ Len(f) = 8 + Len(m.payload) /\ Len(m.payload) \in Nat
  BY FrameBytes, MessageIs
<1> HIDE DEF f
<1>3. Len(Tail(f)) = 8 + Len(m.payload) - 1 /\ \A i \in 1..Len(Tail(f)) : Tail(f)[i] = f[1 + i]
  BY <1>2
<1>4. msg' = m /\ out' = Tail(f) /\ \A i \in 1..Len(Tail(f)) : Tail(f)[i] = Frame(m)[1 + i]
  BY <1>1, <1>3 DEF f
<1> QED
  <2> SUFFICES /\ msg' \in Messages
               /\ Len(out') = 8 + Len(msg'.payload) - 1
               /\ \A i \in 1..Len(out') : out'[i] = Frame(msg')[1 + i]
    BY DEF AtFrame, Frame
  <2> QED
    BY <1>3, <1>4, Zenon

-----------------------------------------------------------------------------
(* The initial state satisfies the invariant. *)
LEMMA InitIInv == Init => IInv
<1> SUFFICES ASSUME Init PROVE IInv
  OBVIOUS
<1>1. TypeOK
  BY UbloxAssumption DEF Init, TypeOK, Byte
<1>2. Follows /\ Undisturbed /\ NoPhantoms
  BY DEF Init, Follows, Undisturbed, NoPhantoms
<1> QED
  BY <1>1, <1>2 DEF IInv

(* A byte leaves the module with a rest of bytes. *)
LEMMA ArrivesType ==
  ASSUME TypeOK, NEW b \in Byte, Arrives(b)
  PROVE  /\ out' \in Seq(Nat) /\ msg' \in Messages \union {Nothing}
         /\ damage' \in Nat /\ crowded' \in {0, 1}
<1>1. CASE Intact(b)
  BY <1>1 DEF TypeOK, Intact
<1>2. CASE Damaged(b)
  <2>1. out' \in Seq(Nat)
    <3>1. CASE out = <<>>
      BY <1>2, <3>1 DEF TypeOK, Damaged
    <3>2. CASE out # <<>>
      <4>1. Tail(out) \in Seq(Nat) /\ Len(Tail(out)) = Len(out) - 1
        BY <3>2 DEF TypeOK
      <4>2. Len(out) > 1 => Tail(out) # <<>>
        <5>1. Len(out) > 1 => Len(Tail(out)) > 0
          BY <4>1 DEF TypeOK
        <5> QED
          BY <5>1, EmptySeq
      <4>3. Len(out) > 1 => Tail(Tail(out)) \in Seq(Nat)
        BY <4>1, <4>2, HeadTailProperties, Zenon
      <4> QED
        BY <1>2, <3>2, <4>1, <4>3, Zenon DEF Damaged
    <3> QED
      BY <3>1, <3>2
  <2> QED
    BY <1>2, <2>1, UbloxAssumption DEF TypeOK, Damaged
<1>3. CASE Begins(b)
  <2>1. PICK m \in Messages : msg' = m /\ out' = Tail(Frame(m))
    BY <1>3 DEF Begins
  <2>2. Frame(m) \in Seq(Nat) /\ Frame(m) # <<>>
    <3>1. Len(Frame(m)) # 0 /\ Frame(m) \in Seq(Nat)
      BY FrameBytes, MessageIs
    <3> QED
      BY <3>1, EmptySeq
  <2>3. out' \in Seq(Nat)
    BY <2>1, <2>2, HeadTailProperties, Zenon
  <2> QED
    BY <1>3, <2>1, <2>3 DEF TypeOK, Begins
<1>4. CASE Fills(b)
  BY <1>4 DEF TypeOK, Fills
<1> QED
  BY <1>1, <1>2, <1>3, <1>4 DEF Arrives

(* The machine keeps bytes and lengths. *)
LEMMA MachineType ==
  ASSUME TypeOK, NEW b \in Byte, StateMachine(b)
  PROVE  /\ state' \in {"IDLE", "SYNC1", "SYNC2", "CLASS", "ID", "L1", "PAYLOAD",
                        "PAYLOAD_DONE", "CK_A"}
         /\ class' \in Byte /\ id' \in Byte /\ length' \in Nat /\ payload' \in Seq(Byte)
         /\ overrun' \in {0, 1}
<1> USE DEF TypeOK, Goto
<1>1. CASE Sync(b)
  BY <1>1 DEF Sync
<1>2. CASE Header(b)
  BY <1>2, UbloxAssumption DEF Header, Byte
<1>3. CASE Length(b)
  <2>1. b \in Nat /\ Base \in Nat
    BY UbloxAssumption DEF Byte
  <2>2. length + b * Base \in Nat
    BY <2>1
  <2> QED
    BY <1>3, <2>2 DEF Length
<1>4. CASE Payload(b)
  <2>1. Append(payload, b) \in Seq(Byte)
    OBVIOUS
  <2>2. payload' \in {payload, Append(payload, b)}
    BY <1>4 DEF Payload
  <2>3. payload' \in Seq(Byte)
    BY <2>1, <2>2, Zenon
  <2>4. /\ state' \in {"PAYLOAD", "PAYLOAD_DONE"} /\ overrun' \in {0, 1}
        /\ UNCHANGED <<class, id, length>>
    BY <1>4 DEF Payload
  <2> QED
    BY <2>3, <2>4
<1>5. CASE PayloadDone
  BY <1>5 DEF PayloadDone
<1>6. CASE CkA(b)
  BY <1>6 DEF CkA
<1> QED
  BY <1>1, <1>2, <1>3, <1>4, <1>5, <1>6 DEF StateMachine

(* Every step preserves the types. *)
LEMMA TypeStep == TypeOK /\ [Next]_vars => TypeOK'
<1> SUFFICES ASSUME TypeOK, [Next]_vars PROVE TypeOK'
  OBVIOUS
<1>1. ASSUME NEW b \in Byte, Read(b) PROVE TypeOK'
  BY <1>1, ArrivesType, MachineType DEF Read, TypeOK
<1>2. CASE UNCHANGED <<parser, module, overrun>>
  BY <1>2 DEF TypeOK, parser, module
<1>3. CASE Configure \/ Failed \/ ReadFails \/ Overrun \/ UNCHANGED vars
  BY <1>2, <1>3 DEF Configure, Failed, ReadFails, Overrun, vars
<1> QED
  BY <1>1, <1>3 DEF Next

-----------------------------------------------------------------------------
(* A byte that is read as it is keeps the machine in step with the frame. *)
LEMMA IntactStep ==
  ASSUME TypeOK, NEW b \in Byte, Reading, intact = "apart", Intact(b), StateMachine(b)
  PROVE  Reading' /\ state' # "IDLE" /\ due' = IF state' = "CK_A" THEN msg' ELSE Nothing
<1>s. msg \in Messages /\ Len(msg.payload) \in Nat
  BY MessageIs DEF Reading, AtFrame
<1>z. PICK size \in Nat : size = Len(msg.payload)
  BY <1>s
<1>m. /\ msg \in Messages /\ msg' = msg /\ size \in Nat /\ msg.payload \in Seq(Byte)
      /\ Len(msg'.payload) = size /\ Len(msg.payload) = size
  BY MessageIs, <1>s, <1>z DEF Intact
<1>d. due' = IF Len(out) = 1 THEN msg ELSE Nothing
  BY DEF Intact
<1>f. /\ Frame(msg)[2] = SYNC2 /\ Frame(msg)[3] = msg.class /\ Frame(msg)[4] = msg.id
      /\ Frame(msg)[5] = size % Base /\ Frame(msg)[6] = size \div Base
      /\ \A i \in 1..size : Frame(msg)[6 + i] = msg.payload[i]
  BY <1>m, FrameBytes
<1>a. ASSUME NEW n \in Nat, AtFrame(n)
      PROVE  /\ AtFrame(n + 1)' /\ b = Frame(msg)[n + 1]
             /\ due' = IF n = 7 + size THEN msg ELSE Nothing
             /\ n < 8 + size
  <2>1. AtFrame(n + 1)' /\ b = Frame(msg)[n + 1] /\ n < 8 + size
    BY <1>a, <1>m, Advance
  <2>2. Len(out) = 1 <=> n = 7 + size
    BY <1>a, <1>m DEF AtFrame
  <2> QED
    BY <1>d, <2>1, <2>2
<1>1. CASE state = "SYNC1" /\ AtFrame(1)
  <2>1. AtFrame(2)' /\ b = SYNC2 /\ due' = Nothing
    BY <1>1, <1>a, <1>f, <1>m
  <2>2. state' = "SYNC2"
    BY <1>1, <2>1 DEF StateMachine, Sync, Header, Length, Payload, PayloadDone, CkA, Goto
  <2> QED
    BY <2>1, <2>2 DEF Reading
<1>2. CASE state = "SYNC2" /\ AtFrame(2)
  <2>1. AtFrame(3)' /\ b = msg.class /\ due' = Nothing
    BY <1>2, <1>a, <1>f, <1>m
  <2>2. state' = "CLASS" /\ class' = b
    BY <1>2 DEF StateMachine, Sync, Header, Length, Payload, PayloadDone, CkA, Goto
  <2> QED
    BY <1>m, <2>1, <2>2 DEF Reading
<1>3. CASE state = "CLASS" /\ AtFrame(3) /\ class = msg.class
  <2>1. AtFrame(4)' /\ b = msg.id /\ due' = Nothing
    BY <1>3, <1>a, <1>f, <1>m
  <2>2. state' = "ID" /\ id' = b /\ class' = class
    BY <1>3 DEF StateMachine, Sync, Header, Length, Payload, PayloadDone, CkA, Goto
  <2> QED
    BY <1>m, <1>3, <2>1, <2>2 DEF Reading
<1>4. CASE state = "ID" /\ AtFrame(4) /\ class = msg.class /\ id = msg.id
  <2>1. AtFrame(5)' /\ b = size % Base /\ due' = Nothing
    BY <1>4, <1>a, <1>f, <1>m
  <2>2. state' = "L1" /\ length' = b /\ class' = class /\ id' = id
    BY <1>4 DEF StateMachine, Sync, Header, Length, Payload, PayloadDone, CkA, Goto
  <2> QED
    BY <1>m, <1>4, <2>1, <2>2 DEF Reading
<1>5. CASE /\ state = "L1" /\ AtFrame(5)
           /\ class = msg.class /\ id = msg.id /\ length = Len(msg.payload) % Base
  <2>1. AtFrame(6)' /\ b = size \div Base /\ due' = Nothing
    BY <1>5, <1>a, <1>f, <1>m
  <2>2. /\ state' = "PAYLOAD" /\ length' = length + b * Base /\ payload' = <<>>
        /\ class' = class /\ id' = id
    BY <1>5 DEF StateMachine, Sync, Header, Length, Payload, PayloadDone, CkA, Goto
  <2>3. length' = size
    BY <1>5, <1>m, <2>1, <2>2, TwoBytes
  <2>4. Len(payload') = 0 /\ AtFrame(6 + Len(payload))'
    BY <2>1, <2>2
  <2> QED
    BY <1>m, <1>5, <2>1, <2>2, <2>3, <2>4 DEF Reading, HeaderRead
<1>6. CASE /\ state = "PAYLOAD" /\ HeaderRead
           /\ AtFrame(6 + Len(payload)) /\ Len(payload) <= length
           /\ \A i \in 1..Len(payload) : payload[i] = msg.payload[i]
  <2>0. Len(payload) \in Nat
    BY DEF TypeOK
  <2>n. PICK n \in Nat : n = Len(payload)
    BY <2>0
  <2>1. n = Len(payload) /\ n <= size /\ length = size /\ payload \in Seq(Byte)
    BY <1>6, <1>m, <2>n DEF HeaderRead, TypeOK
  <2>a. AtFrame(6 + n) /\ 6 + n \in Nat
    BY <1>6, <2>1
  <2>2. AtFrame((6 + n) + 1)' /\ b = Frame(msg)[(6 + n) + 1]
    BY <1>a, <2>a
  <2>3. due' = IF 6 + n = 7 + size THEN msg ELSE Nothing
    BY <1>a, <2>a
  <2>4. due' = Nothing /\ UNCHANGED <<class, id, length>> /\ HeaderRead'
    BY <1>6, <1>m, <2>1, <2>3
       DEF StateMachine, Sync, Header, Length, Payload, PayloadDone, CkA, Goto, HeaderRead
  <2>5. CASE n < size
    <3>1. payload' = Append(payload, b) /\ state' = "PAYLOAD"
      BY <1>6, <2>1, <2>5 DEF StateMachine, Sync, Header, Length, Payload, PayloadDone, CkA, Goto
    <3>2. b = msg.payload[n + 1]
      <4>1. n + 1 \in 1..size /\ 6 + (n + 1) = (6 + n) + 1
        BY <2>1, <2>5, <1>m
      <4> QED
        BY <1>f, <2>2, <4>1
    <3>3. /\ Len(payload') = n + 1
          /\ \A i \in 1..Len(payload') : payload'[i] = IF i = n + 1 THEN b ELSE payload[i]
      BY <2>1, <3>1
    <3>4. \A i \in 1..Len(payload') : payload'[i] = msg.payload[i]
      BY <1>6, <2>1, <3>2, <3>3
    <3>5. AtFrame(6 + Len(payload))' /\ Len(payload') <= length'
      <4>1. 6 + Len(payload') = (6 + n) + 1 /\ Len(payload') <= size
        BY <2>1, <2>5, <3>3, <1>m
      <4> QED
        BY <2>1, <2>2, <2>4, <4>1 DEF AtFrame
    <3> QED
      BY <1>m, <2>4, <3>1, <3>4, <3>5 DEF Reading
  <2>6. CASE n = size
    <3>1. payload' = payload /\ state' = "PAYLOAD_DONE"
      BY <1>6, <2>1, <2>6 DEF StateMachine, Sync, Header, Length, Payload, PayloadDone, CkA, Goto
    <3>2. payload = msg.payload
      BY <1>6, <1>m, <2>1, <2>6, SeqEqual
    <3>3. AtFrame(7 + length)'
      <4>1. 7 + length' = (6 + n) + 1
        BY <2>1, <2>4, <2>6, <1>m
      <4> QED
        BY <2>2, <4>1 DEF AtFrame
    <3> QED
      BY <1>m, <2>4, <3>1, <3>2, <3>3 DEF Reading
  <2> QED
    BY <2>1, <2>5, <2>6, <1>m
<1>7. CASE state = "PAYLOAD_DONE" /\ AtFrame(7 + length) /\ HeaderRead /\ payload = msg.payload
  <2>1. length = size
    BY <1>7, <1>m DEF HeaderRead
  <2>2. AtFrame((7 + size) + 1)' /\ due' = msg
    <3>1. AtFrame(7 + size) /\ 7 + size \in Nat
      BY <1>7, <2>1
    <3> QED
      BY <1>a, <3>1
  <2>3. state' = "CK_A" /\ UNCHANGED <<class, id, length, payload>>
    BY <1>7 DEF StateMachine, Sync, Header, Length, Payload, PayloadDone, CkA, Goto
  <2>4. AtFrame(8 + length)'
    <3>1. 8 + length' = (7 + size) + 1
      BY <2>1, <2>3, <1>m
    <3> QED
      BY <2>2, <3>1 DEF AtFrame
  <2> QED
    BY <1>7, <1>m, <2>2, <2>3, <2>4 DEF Reading, HeaderRead
<1>8. CASE state = "CK_A" /\ AtFrame(8 + length) /\ HeaderRead /\ payload = msg.payload
  <2>1. length = size
    BY <1>8, <1>m DEF HeaderRead
  <2> QED
    BY <1>8, <1>a, <1>m, <2>1
<1> QED
  BY <1>1, <1>2, <1>3, <1>4, <1>5, <1>6, <1>7, <1>8 DEF Reading

(* In a frame that is followed, the last byte but none has been read when the machine
   waits for one byte more. *)
LEMMA FrameEnded ==
  ASSUME TypeOK, Reading
  PROVE  /\ state # "IDLE" /\ msg \in Messages
         /\ out = <<>> <=> state = "CK_A"
         /\ state = "CK_A" => HeaderRead /\ payload = msg.payload
<1>1. msg \in Messages /\ Len(msg.payload) \in Nat /\ Len(payload) \in Nat /\ length \in Nat
  BY MessageIs DEF Reading, AtFrame, TypeOK
<1>2. out = <<>> <=> Len(out) = 0
  BY EmptySeq DEF TypeOK
<1> QED
  BY <1>1, <1>2 DEF Reading, AtFrame, HeaderRead

(* The byte after the frame has the message dispatched. *)
LEMMA DispatchStep ==
  ASSUME TypeOK, NEW b \in Byte, Reading, state = "CK_A", StateMachine(b)
  PROVE  state' = "IDLE" /\ last' = msg /\ (overrun = 0 => overrun' = 0)
<1>1. /\ msg \in Messages /\ HeaderRead /\ payload = msg.payload
      /\ msg = [class |-> msg.class, id |-> msg.id, payload |-> msg.payload]
  BY FrameEnded, MessageIs
<1>2. CkA(b)
  BY DEF StateMachine, Sync, Header, Length, Payload, PayloadDone, Goto
<1>3. ~CopyOverruns
  BY <1>1, UbloxAssumption DEF CopyOverruns, HeaderRead
<1>4. last' = [class |-> class, id |-> id, payload |-> payload]
  BY <1>2 DEF CkA
<1> QED
  BY <1>1, <1>2, <1>3, <1>4 DEF CkA, HeaderRead

(* Anywhere else nothing is dispatched, and no write leaves the payload of a frame that
   is followed. *)
LEMMA QuietStep ==
  ASSUME TypeOK, NEW b \in Byte, StateMachine(b), state # "CK_A"
  PROVE  /\ last' = Nothing
         /\ Reading /\ overrun = 0 => overrun' = 0
         /\ state = "IDLE" => overrun' = overrun
         /\ state = "IDLE" => state' = IF b = SYNC1 THEN "SYNC1" ELSE "IDLE"
<1>1. CASE state = "PAYLOAD"
  <2>1. Payload(b)
    BY <1>1 DEF StateMachine, Sync, Header, Length, Payload, PayloadDone, CkA, Goto
  <2>2. Reading /\ Len(payload) < length => Len(payload) < BufSize
    BY <1>1, UbloxAssumption, MessageIs DEF Reading, AtFrame, HeaderRead, TypeOK
  <2>3. last' = Nothing
    BY <2>1 DEF Payload
  <2>4. Reading /\ overrun = 0 => overrun' = 0
    BY <2>1, <2>2, UbloxAssumption DEF Payload, TypeOK
  <2> QED
    BY <1>1, <2>3, <2>4
<1>2. CASE state # "PAYLOAD"
  BY <1>2 DEF StateMachine, Sync, Header, Length, Payload, PayloadDone, CkA, Goto
<1> QED
  BY <1>1, <1>2

(* Every byte that is read keeps the machine in step with an undamaged frame that began
   when it was idle. *)
LEMMA FollowsRead ==
  ASSUME TypeOK, Follows, NEW b \in Byte, Read(b)
  PROVE  Follows'
<1> SUFFICES ASSUME intact' = "apart"
             PROVE  \/ state' = "IDLE" /\ out' = <<>> /\ due' = Nothing
                    \/ Reading' /\ due' = IF state' = "CK_A" THEN msg' ELSE Nothing
  BY DEF Follows
<1>r. Arrives(b) /\ StateMachine(b)
  BY DEF Read
<1>1. CASE Intact(b)
  <2>1. intact = "apart" /\ out # <<>>
    BY <1>1 DEF Intact
  <2>2. Reading
    BY <2>1 DEF Follows
  <2> QED
    BY <1>1, <1>r, <2>1, <2>2, IntactStep
<1>2. CASE Begins(b)
  <2>1. state = "IDLE" /\ b = SYNC1 /\ due' = Nothing
    BY <1>2 DEF Begins
  <2>2. state' = "SYNC1"
    BY <1>r, <2>1, QuietStep
  <2>3. AtFrame(1)'
    BY <1>2, Begin
  <2> QED
    BY <2>1, <2>2, <2>3 DEF Reading
<1>3. CASE Fills(b)
  <2>1. intact = "apart" /\ out = <<>> /\ b = Filler /\ due' = Nothing /\ out' = out
    BY <1>3 DEF Fills
  <2>2. b # SYNC1
    BY <2>1, UbloxAssumption
  <2>3. CASE state = "IDLE"
    BY <1>r, <2>1, <2>2, <2>3, QuietStep
  <2>4. CASE state # "IDLE"
    <3>1. Reading
      BY <2>1, <2>4 DEF Follows
    <3>2. state' = "IDLE"
      BY <1>r, <2>1, <3>1, FrameEnded, DispatchStep
    <3> QED
      BY <2>1, <3>2
  <2> QED
    BY <2>3, <2>4
<1>4. CASE Damaged(b)
  BY <1>4 DEF Damaged
<1> QED
  BY <1>1, <1>2, <1>3, <1>4, <1>r DEF Arrives

(* Every step preserves the invariant. *)
LEMMA StepIInv == IInv /\ [Next]_vars => IInv'
<1> SUFFICES ASSUME IInv, [Next]_vars PROVE IInv'
  OBVIOUS
<1>t. TypeOK /\ TypeOK' /\ Follows /\ Undisturbed /\ NoPhantoms
  BY TypeStep DEF IInv
<1>1. ASSUME NEW b \in Byte, Read(b) PROVE Follows' /\ Undisturbed' /\ NoPhantoms'
  <2>r. Arrives(b) /\ StateMachine(b) /\ overrun = 0
    BY <1>1 DEF Read
  <2>1. Follows'
    BY <1>1, <1>t, FollowsRead
  <2>2. damage' = 0 /\ crowded' = 0 => /\ damage = 0 /\ crowded = 0
                                       /\ intact' = "apart"
    BY <2>r, <1>t DEF Arrives, Intact, Damaged, Begins, Fills, Undisturbed, TypeOK
  <2>3. Undisturbed'
    BY <2>2 DEF Undisturbed
  <2>4. ASSUME damage' = 0, crowded' = 0
        PROVE  overrun' = 0 /\ (last' # Nothing => last' = msg')
    <3>1. intact = "apart" /\ (state = "IDLE" \/ Reading)
      BY <1>t, <2>2, <2>4 DEF Undisturbed, Follows
    <3>2. CASE state = "CK_A"
      <4>1. Reading
        BY <3>1, <3>2
      <4>2. msg' = msg
        BY <2>2, <2>4, <2>r, <3>2 DEF Arrives, Intact, Damaged, Begins, Fills
      <4> QED
        BY <1>t, <2>r, <3>2, <4>1, <4>2, DispatchStep
    <3>3. CASE state # "CK_A"
      BY <1>t, <2>r, <3>1, <3>3, QuietStep
    <3> QED
      BY <3>2, <3>3
  <2> QED
    BY <2>1, <2>3, <2>4 DEF NoPhantoms
<1>2. CASE UNCHANGED <<parser, module, last, overrun>>
  <2>1. /\ UNCHANGED <<state, class, id, length, payload>>
        /\ UNCHANGED <<out, msg, intact, due, crowded, damage>>
        /\ UNCHANGED <<last, overrun>>
    BY <1>2 DEF parser, module
  <2>2. ASSUME NEW n PROVE AtFrame(n)' <=> AtFrame(n)
    BY <2>1 DEF AtFrame, Frame
  <2>3. /\ AtFrame(6 + Len(payload))' <=> AtFrame(6 + Len(payload))
        /\ AtFrame(7 + length)' <=> AtFrame(7 + length)
        /\ AtFrame(8 + length)' <=> AtFrame(8 + length)
    BY <2>1 DEF AtFrame, Frame
  <2>4. Reading' <=> Reading
    BY <2>1, <2>2, <2>3 DEF Reading, HeaderRead
  <2>5. Follows'
    BY <1>t, <2>1, <2>4, Zenon DEF Follows
  <2>6. Undisturbed' /\ NoPhantoms'
    BY <1>t, <2>1 DEF Undisturbed, NoPhantoms
  <2> QED
    BY <1>t, <2>5, <2>6 DEF IInv
<1>3. CASE Configure \/ Failed \/ ReadFails \/ Overrun \/ UNCHANGED vars
  BY <1>2, <1>3 DEF Configure, Failed, ReadFails, Overrun, vars
<1> QED
  BY <1>t, <1>1, <1>3 DEF Next, IInv

LEMMA Invariance == Spec => []IInv
  BY InitIInv, StepIInv, PTL DEF Spec

-----------------------------------------------------------------------------
(* While nothing is damaged and no frame follows on the heels of another, nothing but
   frames is dispatched, whatever the payloads hold and however long they are, and no
   payload or copy of one leaves its buffer. *)
THEOREM OnlyFramesAreDispatched == Spec => []NoPhantoms
<1>1. IInv => NoPhantoms
  BY DEF IInv
<1> QED
  BY <1>1, Invariance, PTL

(* However many bytes were damaged before it, an undamaged frame that begins when the
   machine is idle is dispatched as it was sent by the byte that follows it. *)
THEOREM IntactFramesAreDispatched == Spec => DispatchesIntactFrames
<1>1. ASSUME IInv, [Next]_vars, due # Nothing, intact = "apart", due' # due
      PROVE  last' = due
  <2>1. TypeOK /\ Reading /\ state = "CK_A" /\ due = msg
    BY <1>1 DEF IInv, Follows
  <2>2. ASSUME NEW b \in Byte, Read(b) PROVE last' = due
    BY <2>1, <2>2, DispatchStep DEF Read
  <2>3. CASE Configure \/ Failed \/ ReadFails \/ Overrun \/ UNCHANGED vars
    BY <1>1, <2>3 DEF Configure, Failed, ReadFails, Overrun, vars, module
  <2> QED
    BY <1>1, <2>2, <2>3 DEF Next
<1>2. IInv /\ [Next]_vars => [due # Nothing /\ intact = "apart" /\ due' # due => last' = due]_vars
  BY <1>1
<1> QED
  BY <1>2, Invariance, PTL DEF Spec, DispatchesIntactFrames
=============================================================================
