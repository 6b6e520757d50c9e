--------------------------- MODULE M2SerialProofs ---------------------------
(***************************************************************************)
(* Proofs about M2Serial, for payloads, checksums, queues and numbers of   *)
(* frames of any size.                                                     *)
(*                                                                         *)
(* Every byte in flight stands at a place of a frame: the flag, a datum of *)
(* the payload or the second byte of an escaped one, or the checksum.  A   *)
(* row of places over the bytes in flight, each the one after the one      *)
(* before it, leads to the start of the next frame to be sent; the         *)
(* receiver is in step when it expects the first place of the row.         *)
(***************************************************************************)
EXTENDS M2Serial, SequenceTheorems, WellFoundedInduction, TLAPS

Special == {Flag, Escape}

(* The byte at a place: 0 is the flag, PayloadSize + 1 and + 2 the checksum; part is 1
   at the second byte of an escaped datum. *)
Places == [frame : Nat, place : 0..(PayloadSize + 2), part : {0, 1}]

Start(f) == [frame |-> f, place |-> 0, part |-> 0]

InBody(l) == l.place \in 1..PayloadSize

(* Byte b stands at l in the frame of a payload. *)
StandsIn(payload, b, l) ==
  /\ l.place = 0 => b = Flag
  /\ l.part = 0 /\ InBody(l) =>
       (b = Escape) \/ (b = payload[l.place] /\ b \notin Special)
  /\ l.part = 1 => InBody(l) /\ b = Flip(payload[l.place])

After(b, l) ==
  IF InBody(l) /\ l.part = 0 /\ b = Escape
  THEN [frame |-> l.frame, place |-> l.place, part |-> 1]
  ELSE IF l.place = PayloadSize + 2 THEN Start(l.frame + 1)
  ELSE [frame |-> l.frame, place |-> l.place + 1, part |-> 0]

Stands(payloads, b, l) ==
  l.frame \in 1..Len(payloads) /\ StandsIn(payloads[l.frame], b, l)

(* L gives the places of all bytes of s but the first k. *)
Labelled(payloads, s, k, L) ==
  /\ k \in 0..Len(s)
  /\ L \in [0..(Len(s) - k) -> Places]
  /\ \A i \in 0..(Len(s) - k - 1) :
       Stands(payloads, s[k + i + 1], L[i]) /\ L[i + 1] = After(s[k + i + 1], L[i])
  /\ L[Len(s) - k] = Start(Len(payloads) + 1)

(* Only the first byte of a frame is a flag. *)
Plain(s, k, L) ==
  \A i \in 0..(Len(s) - k - 1) : L[i].place # 0 => s[k + i + 1] # Flag

Stream == line \o tx

(* The receiver is in step: it waits for the byte at l. *)
Expects(l) ==
  /\ l.frame \in 1..(Len(sent) + 1)
  /\ \/ pc = "start" /\ l = Start(l.frame)
     \/ /\ l.frame <= Len(sent)
        /\ \A i \in 1..Len(buf) : buf[i] = sent[l.frame][i]
        /\ \/ pc = "byte" /\ l.place = Len(buf) + 1 /\ l.part = 0
           \/ pc = "escaped" /\ l.place = Len(buf) + 1 /\ l.part = 1
           \/ pc = "chk_l" /\ l.place = PayloadSize + 1 /\ l.part = 0
           \/ pc = "chk_h" /\ l.place = PayloadSize + 2 /\ l.part = 0

TypeOK ==
  /\ tx \in Seq(Bytes) /\ line \in Seq(Bytes) /\ buf \in Seq(Bytes)
  /\ pc \in {"start", "byte", "escaped", "third", "chk_l", "chk_h", "shell"}
  /\ pc \in {"byte", "escaped"} => Len(buf) < PayloadSize
  /\ pc \in {"third", "shell"} => buf = <<>>
  /\ pc \in {"chk_l", "chk_h"} => Len(buf) = PayloadSize
  /\ sent \in Seq(Payloads) /\ received \in Seq(Seq(Bytes))
  /\ damage \in Nat /\ clean \in 0..Len(sent)

(* Until a byte is damaged the receiver is in step with everything in flight. *)
Exact ==
  damage = 0 =>
    \E L : /\ Labelled(sent, Stream, 0, L)
           /\ Expects(L[0]) /\ L[0].frame = Len(received) + 1
           /\ \A i \in 1..Len(received) : received[i] = sent[i]

(* The receiver has lost its place in a frame, of which l is the next byte, and will
   wait for a flag before the frame ends. *)
Recovers(l) ==
  /\ l.place >= 1
  /\ \/ pc \in {"start", "third"}
     \/ pc = "byte" /\ l.part = 0 /\ l.place <= Len(buf)
     \/ pc = "escaped" /\ l.part = 1 /\ l.place <= Len(buf)
     \/ pc = "chk_l" /\ l.place <= PayloadSize
     \/ pc = "chk_h" /\ l.place <= PayloadSize + 1

FirstClean == Len(sent) - clean + 1

(* The receiver has not come to the frames sent cleanly, of which l is then the first
   place, recovers in the first of them or is in step with them. *)
Rejoins(k, l) ==
  \/ l = Start(FirstClean)
  \/ k = 0 /\ l.frame = FirstClean /\ Recovers(l)
  \/ /\ k = 0 /\ l.frame >= FirstClean /\ Expects(l)
     /\ l.frame > FirstClean + 1 =>
          received # <<>> /\ Last(received) = sent[l.frame - 1]

Resyncs ==
  clean >= 1 /\ pc # "shell" =>
    \E k, L : Labelled(sent, Stream, k, L) /\ Plain(Stream, k, L) /\ Rejoins(k, L[0])

IInv == TypeOK /\ Exact /\ Resyncs

-----------------------------------------------------------------------------
(* Induction.  The library's theorem on well-founded relations gives the least element
   of a set of numbers, and so induction for what can be written as a set. *)
LEMMA LeastNumber ==
  ASSUME NEW T, T \subseteq Nat, T # {}
  PROVE  \E x \in T : \A y \in T : x <= y
<1> DEFINE R == OpToRel(<, Nat)
<1>1. IsWellFoundedOn(R, Nat)
  BY NatLessThanWellFounded
<1>2. PICK x \in T : \A y \in T : <<y, x>> \notin R
  <2> HIDE DEF R
  <2> QED
    BY <1>1, WFMin
<1>3. \A y \in T : ~(y < x)
  BY <1>2 DEF OpToRel
<1> QED
  BY <1>3

(* A set of numbers that holds 0 and with a number the next holds them all. *)
LEMMA Induction ==
  ASSUME NEW S, 0 \in S, \A n \in Nat : n \in S => n + 1 \in S
  PROVE  Nat \subseteq S
<1> SUFFICES ASSUME Nat \ S # {} PROVE FALSE
  OBVIOUS
<1>1. PICK x \in Nat \ S : \A y \in Nat \ S : x <= y
  BY LeastNumber
<1> QED
  BY <1>1

(* What FlattenSeq returns is the last value of the function it defines by recursion. *)
LEMMA FlattenDefined ==
  ASSUME NEW seqs, Len(seqs) \in Nat \ {0}
  PROVE  \E g : /\ g = [i \in 1..Len(seqs) |-> IF i = 1 THEN seqs[i] ELSE g[i - 1] \o seqs[i]]
                /\ FlattenSeq(seqs) = g[Len(seqs)]
<1> DEFINE Def(g, n) == g = [i \in 1..n |-> IF i = 1 THEN seqs[i] ELSE g[i - 1] \o seqs[i]]
           S == {n \in Nat : \E g : Def(g, n)}
<1>1. 0 \in S
  <2> DEFINE e == [i \in 1..0 |-> IF i = 1 THEN seqs[i] ELSE 0 \o seqs[i]]
  <2>1. Def(e, 0)
    OBVIOUS
  <2> QED
    BY <2>1
<1>2. ASSUME NEW n \in Nat, n \in S PROVE n + 1 \in S
  <2>1. PICK g : Def(g, n)
    BY <1>2
  <2> DEFINE h == [i \in 1..(n + 1) |->
                     IF i = n + 1 THEN IF i = 1 THEN seqs[i] ELSE g[n] \o seqs[i]
                                  ELSE g[i]]
  <2>2. \A i \in 1..(n + 1) : h[i] = IF i = 1 THEN seqs[i] ELSE h[i - 1] \o seqs[i]
    <3> TAKE i \in 1..(n + 1)
    <3>1. CASE i = n + 1
      BY <3>1
    <3>2. CASE i # n + 1
      <4>1. i \in 1..n /\ (i # 1 => i - 1 \in 1..n)
        BY <3>2
      <4>2. h[i] = g[i] /\ (i # 1 => h[i - 1] = g[i - 1])
        BY <3>2, <4>1
      <4>3. g[i] = IF i = 1 THEN seqs[i] ELSE g[i - 1] \o seqs[i]
        BY <2>1, <4>1
      <4> QED
        BY <4>2, <4>3
    <3> QED
      BY <3>1, <3>2
  <2>3. Def(h, n + 1)
    BY <2>2
  <2> HIDE DEF h, Def
  <2>4. \E f : Def(f, n + 1)
    BY <2>3
  <2> QED
    BY <2>4
<1>3. Nat \subseteq S
  <2> HIDE DEF S
  <2> QED
    BY <1>1, <1>2, Induction
<1>4. \E g : Def(g, Len(seqs))
  BY <1>3
<1>5. Def(CHOOSE g : Def(g, Len(seqs)), Len(seqs))
  <2> HIDE DEF Def
  <2> QED
    BY <1>4
<1>6. FlattenSeq(seqs) = (CHOOSE g : Def(g, Len(seqs)))[Len(seqs)]
  BY DEF FlattenSeq
<1> HIDE DEF Def
<1>7. \E g : Def(g, Len(seqs)) /\ FlattenSeq(seqs) = g[Len(seqs)]
  BY <1>5, <1>6
<1> QED
  BY <1>7 DEF Def

-----------------------------------------------------------------------------
(* The frame of a payload, byte for byte. *)

(* Bytes s of a frame stand at the places from a on, and z is the place after. *)
Run(payload, s, L, a, z) ==
  /\ s \in Seq(Bytes) /\ L \in [0..Len(s) -> Places]
  /\ L[0] = a /\ L[Len(s)] = z
  /\ \A i \in 0..(Len(s) - 1) :
       /\ L[i].frame = a.frame
       /\ StandsIn(payload, s[i + 1], L[i])
       /\ L[i + 1] = After(s[i + 1], L[i])

At(f, n) == [frame |-> f, place |-> n, part |-> 0]

LEMMA Joined ==
  \A s, t \in Seq(Bytes) :
    /\ s \o t \in Seq(Bytes) /\ Len(s \o t) = Len(s) + Len(t)
    /\ \A i \in 1..Len(s) : (s \o t)[i] = s[i]
    /\ \A i \in 1..Len(t) : (s \o t)[Len(s) + i] = t[i]
  OBVIOUS

(* What follows a run makes it longer. *)
LEMMA RunJoins ==
  ASSUME NEW payload, NEW s, NEW t, NEW L, NEW M, NEW a, NEW m, NEW z,
         Run(payload, s, L, a, m), Run(payload, t, M, m, z), m.frame = a.frame
  PROVE  \E N : Run(payload, s \o t, N, a, z)
<1> DEFINE st == s \o t
           N == [i \in 0..Len(st) |-> IF i < Len(s) THEN L[i] ELSE M[i - Len(s)]]
<1>1. s \in Seq(Bytes) /\ t \in Seq(Bytes) /\ Len(s) \in Nat /\ Len(t) \in Nat
  BY DEF Run
<1>2. /\ st \in Seq(Bytes) /\ Len(st) = Len(s) + Len(t)
      /\ \A i \in 1..Len(s) : st[i] = s[i]
      /\ \A i \in 1..Len(t) : st[Len(s) + i] = t[i]
  BY <1>1, Joined, Zenon
<1> HIDE DEF st
<1>3. N \in [0..Len(st) -> Places]
  <2> SUFFICES ASSUME NEW i \in 0..Len(st) PROVE N[i] \in Places
    OBVIOUS
  <2>1. CASE i < Len(s)
    BY <1>1, <1>2, <2>1 DEF Run
  <2>2. CASE ~(i < Len(s))
    BY <1>1, <1>2, <2>2, i - Len(s) \in 0..Len(t) DEF Run
  <2> QED
    BY <2>1, <2>2
<1>4. N[0] = a
  BY <1>1, <1>2 DEF Run
<1>5. N[Len(st)] = z
  BY <1>1, <1>2 DEF Run
<1>6. ASSUME NEW i \in 0..(Len(st) - 1)
      PROVE  /\ N[i].frame = a.frame
             /\ StandsIn(payload, st[i + 1], N[i])
             /\ N[i + 1] = After(st[i + 1], N[i])
  <2>1. CASE i < Len(s)
    <3>1. i \in 0..(Len(s) - 1) /\ i + 1 \in 1..Len(s) /\ i \in 0..Len(st)
      BY <1>1, <1>2, <2>1
    <3>2. N[i] = L[i] /\ st[i + 1] = s[i + 1]
      BY <1>2, <2>1, <3>1
    <3>3. N[i + 1] = L[i + 1]
      <4>1. CASE i + 1 < Len(s)
        BY <1>1, <1>2, <3>1, <4>1
      <4>2. CASE i + 1 = Len(s)
        BY <1>1, <1>2, <3>1, <4>2 DEF Run
      <4> QED
        BY <1>1, <3>1, <4>1, <4>2
    <3> QED
      BY <3>1, <3>2, <3>3 DEF Run
  <2>2. CASE ~(i < Len(s))
    <3>1. PICK j \in 0..(Len(t) - 1) : i = Len(s) + j
      <4>1. i - Len(s) \in 0..(Len(t) - 1) /\ i = Len(s) + (i - Len(s))
        BY <1>1, <1>2, <2>2
      <4> QED
        BY <4>1
    <3>2. st[i + 1] = t[j + 1]
      BY <1>1, <1>2, <3>1, j + 1 \in 1..Len(t), i + 1 = Len(s) + (j + 1)
    <3>3. N[i] = M[j] /\ N[i + 1] = M[j + 1]
      BY <1>1, <1>2, <3>1
    <3> QED
      BY <3>1, <3>2, <3>3 DEF Run
  <2> QED
    BY <2>1, <2>2
<1>7. Run(payload, st, N, a, z)
  <2> HIDE DEF N
  <2> QED
    BY <1>2, <1>3, <1>4, <1>5, <1>6 DEF Run
<1> HIDE DEF N
<1>8. \E K : Run(payload, st, K, a, z)
  BY <1>7
<1> QED
  BY <1>8 DEF st

(* The escaped bytes and the places of one datum of a payload. *)
LEMMA DatumRun ==
  ASSUME NEW f \in Nat, NEW payload \in [1..PayloadSize -> Bytes], NEW changed,
         NEW n \in 1..PayloadSize
  PROVE  \E L : Run(payload, Escaped(payload[n], n \in changed), L, At(f, n), At(f, n + 1))
<1> DEFINE d == payload[n]
           second == [frame |-> f, place |-> n, part |-> 1]
<1>1. /\ d \in Bytes /\ Flip(d) \in Bytes /\ {Flag, Escape} \subseteq Bytes
      /\ PayloadSize \in Nat \ {0} /\ n \in Nat
      /\ At(f, n) \in Places /\ At(f, n + 1) \in Places /\ second \in Places
  <2>1. /\ PayloadSize \in Nat \ {0} /\ {Flag, Escape} \subseteq Bytes
        /\ \A b \in Bytes : Flip(b) \in Bytes
    BY LinkAssumption
  <2>2. At(f, n) \in Places /\ At(f, n + 1) \in Places /\ second \in Places
    BY <2>1 DEF At, Places
  <2> QED
    BY <2>1, <2>2
<1>2. CASE d \in Special \/ n \in changed
  <2> DEFINE L == [i \in 0..2 |-> IF i = 0 THEN At(f, n) ELSE IF i = 1 THEN second
                                                              ELSE At(f, n + 1)]
             s == <<Escape, Flip(d)>>
  <2>1. /\ s \in Seq(Bytes) /\ Len(s) = 2 /\ s[1] = Escape /\ s[2] = Flip(d)
        /\ L \in [0..2 -> Places] /\ L[0] = At(f, n) /\ L[1] = second /\ L[2] = At(f, n + 1)
    BY <1>1
  <2>2. /\ StandsIn(payload, Escape, At(f, n))
        /\ After(Escape, At(f, n)) = second
    <3>1. At(f, n).frame = f /\ At(f, n).place = n /\ At(f, n).part = 0 /\ n # 0
      BY <1>1 DEF At
    <3>2. StandsIn(payload, Escape, At(f, n))
      BY <3>1 DEF StandsIn
    <3>3. InBody(At(f, n))
      BY <1>1, <3>1 DEF InBody
    <3>4. After(Escape, At(f, n)) = second
      BY <3>1, <3>3 DEF After
    <3> QED
      BY <3>2, <3>4
  <2>3. /\ StandsIn(payload, Flip(d), second)
        /\ After(Flip(d), second) = At(f, n + 1)
    BY <1>1, <1>2 DEF StandsIn, After, At, InBody
  <2>4. Escaped(d, n \in changed) = s
    BY <1>2 DEF Escaped, Special
  <2> HIDE DEF L, s
  <2>5. Run(payload, s, L, At(f, n), At(f, n + 1))
    <3>1. At(f, n).frame = f /\ second.frame = f
      BY DEF At
    <3> QED
      BY <2>1, <2>2, <2>3, <3>1 DEF Run
  <2> QED
    BY <2>4, <2>5
<1>3. CASE d \notin Special /\ n \notin changed
  <2> DEFINE L == [i \in 0..1 |-> IF i = 0 THEN At(f, n) ELSE At(f, n + 1)]
             s == <<d>>
  <2>1. /\ s \in Seq(Bytes) /\ Len(s) = 1 /\ s[1] = d
        /\ L \in [0..1 -> Places] /\ L[0] = At(f, n) /\ L[1] = At(f, n + 1)
    BY <1>1
  <2>2. StandsIn(payload, d, At(f, n)) /\ After(d, At(f, n)) = At(f, n + 1)
    BY <1>1, <1>3 DEF StandsIn, After, At, InBody, Special
  <2>4. Escaped(d, n \in changed) = s
    BY <1>3 DEF Escaped, Special
  <2> HIDE DEF L, s
  <2>5. Run(payload, s, L, At(f, n), At(f, n + 1))
    <3>1. At(f, n).frame = f
      BY DEF At
    <3> QED
      BY <2>1, <2>2, <3>1 DEF Run
  <2> QED
    BY <2>4, <2>5
<1> QED
  BY <1>2, <1>3

(* The payload of a frame, by induction over its data. *)
LEMMA PayloadRun ==
  ASSUME NEW f \in Nat, NEW payload \in [1..PayloadSize -> Bytes], NEW changed
  PROVE  \E L : Run(payload,
                    FlattenSeq([i \in 1..PayloadSize |-> Escaped(payload[i], i \in changed)]), L,
                    At(f, 1), At(f, PayloadSize + 1))
<1> DEFINE seqs == [i \in 1..PayloadSize |-> Escaped(payload[i], i \in changed)]
<1>1. PayloadSize \in Nat \ {0}
  BY LinkAssumption
<1>2. Len(seqs) = PayloadSize /\ \A i \in 1..PayloadSize : seqs[i] = Escaped(payload[i], i \in changed)
  BY <1>1
<1> HIDE DEF seqs
<1>3. PICK g : /\ g = [i \in 1..PayloadSize |->
                         IF i = 1 THEN seqs[i] ELSE g[i - 1] \o seqs[i]]
               /\ FlattenSeq(seqs) = g[PayloadSize]
  BY <1>1, <1>2, FlattenDefined
<1> DEFINE Row(n) == \E L : Run(payload, g[n], L, At(f, 1), At(f, n + 1))
           S == {n \in Nat : n + 1 \in 1..PayloadSize => Row(n + 1)}
<1>4. 0 \in S
  <2>1. g[1] = Escaped(payload[1], 1 \in changed)
    BY <1>1, <1>2, <1>3
  <2>2. \E L : Run(payload, Escaped(payload[1], 1 \in changed), L, At(f, 1), At(f, 1 + 1))
    BY <1>1, 1 \in 1..PayloadSize, DatumRun
  <2>3. Row(0 + 1)
    BY <2>1, <2>2
  <2> QED
    BY <2>3
<1>5. ASSUME NEW n \in Nat, n \in S PROVE n + 1 \in S
  <2> SUFFICES ASSUME (n + 1) + 1 \in 1..PayloadSize PROVE Row((n + 1) + 1)
    OBVIOUS
  <2>1. PICK L : Run(payload, g[n + 1], L, At(f, 1), At(f, (n + 1) + 1))
    BY <1>1, <1>5
  <2>2. PICK M : Run(payload, Escaped(payload[(n + 1) + 1], (n + 1) + 1 \in changed), M, At(f, (n + 1) + 1),
                     At(f, ((n + 1) + 1) + 1))
    BY DatumRun
  <2>3. g[(n + 1) + 1] = g[n + 1] \o Escaped(payload[(n + 1) + 1], (n + 1) + 1 \in changed)
    <3>1. (n + 1) + 1 # 1 /\ ((n + 1) + 1) - 1 = n + 1
      OBVIOUS
    <3>2. g[(n + 1) + 1] = g[((n + 1) + 1) - 1] \o seqs[(n + 1) + 1]
      BY <1>3, <3>1
    <3> QED
      BY <1>2, <3>1, <3>2
  <2>4. At(f, (n + 1) + 1).frame = At(f, 1).frame
    BY DEF At
  <2> QED
    BY <2>1, <2>2, <2>3, <2>4, RunJoins
<1>6. Nat \subseteq S
  <2> HIDE DEF S
  <2> QED
    BY <1>4, <1>5, Induction
<1>7. Row(PayloadSize)
  <2>1. PayloadSize - 1 \in Nat /\ (PayloadSize - 1) + 1 = PayloadSize
    BY <1>1
  <2>2. PayloadSize - 1 \in S
    BY <1>6, <2>1
  <2> QED
    BY <1>1, <2>1, <2>2
<1> QED
  BY <1>3, <1>7 DEF seqs

(* A frame leads from its start to the start of the next one. *)
LEMMA FrameRun ==
  ASSUME NEW f \in Nat, NEW payload \in [1..PayloadSize -> Bytes], NEW changed,
         NEW chk \in Bytes \X Bytes
  PROVE  \E L : Run(payload, Frame(payload, changed, chk), L, Start(f), Start(f + 1))
<1> DEFINE body == FlattenSeq([i \in 1..PayloadSize |-> Escaped(payload[i], i \in changed)])
<1>0. PayloadSize \in Nat \ {0} /\ Flag \in Bytes
  BY LinkAssumption
<1>1. PICK L : Run(payload, <<Flag>>, L, Start(f), At(f, 1))
  <2> DEFINE K == [i \in 0..1 |-> IF i = 0 THEN Start(f) ELSE At(f, 1)]
             s == <<Flag>>
  <2>1. /\ s \in Seq(Bytes) /\ Len(s) = 1 /\ s[1] = Flag
        /\ Start(f) \in Places /\ At(f, 1) \in Places
    BY <1>0 DEF Start, At, Places
  <2>2. K \in [0..1 -> Places] /\ K[0] = Start(f) /\ K[1] = At(f, 1)
    BY <2>1
  <2>3. /\ StandsIn(payload, Flag, Start(f))
        /\ After(Flag, Start(f)) = At(f, 1)
        /\ Start(f).frame = f
    BY <1>0 DEF StandsIn, After, Start, At, InBody
  <2> HIDE DEF K, s
  <2>4. Run(payload, s, K, Start(f), At(f, 1))
    BY <2>1, <2>2, <2>3 DEF Run
  <2>5. \E J : Run(payload, s, J, Start(f), At(f, 1))
    BY <2>4
  <2> QED
    BY <2>5 DEF s
<1>2. PICK M : Run(payload, body, M, At(f, 1), At(f, PayloadSize + 1))
  BY PayloadRun
<1>3. PICK N : Run(payload, chk, N, At(f, PayloadSize + 1), Start(f + 1))
  <2> DEFINE l == At(f, PayloadSize + 1)
             h == At(f, PayloadSize + 2)
             K == [i \in 0..2 |-> IF i = 0 THEN l ELSE IF i = 1 THEN h ELSE Start(f + 1)]
  <2>0. chk \in Seq(Bytes) /\ Len(chk) = 2
    <3>1. chk = <<chk[1], chk[2]>> /\ chk[1] \in Bytes /\ chk[2] \in Bytes
      OBVIOUS
    <3>2. \A a, b \in Bytes : <<a, b>> \in Seq(Bytes) /\ Len(<<a, b>>) = 2
      OBVIOUS
    <3> QED
      BY <3>1, <3>2, Zenon
  <2>1. l \in Places /\ h \in Places /\ Start(f + 1) \in Places
    BY <1>0 DEF Start, At, Places
  <2>2. K \in [0..2 -> Places] /\ K[0] = l /\ K[1] = h /\ K[2] = Start(f + 1)
    BY <2>1
  <2>3. /\ StandsIn(payload, chk[1], l) /\ After(chk[1], l) = h
        /\ StandsIn(payload, chk[2], h) /\ After(chk[2], h) = Start(f + 1)
        /\ l.frame = f /\ h.frame = f
    BY <1>0 DEF StandsIn, After, Start, At, InBody
  <2> HIDE DEF K, l, h
  <2>4. Run(payload, chk, K, l, Start(f + 1))
    BY <2>0, <2>1, <2>2, <2>3 DEF Run
  <2> QED
    BY <2>4 DEF l
<1> HIDE DEF body
<1>4. PICK LM : Run(payload, <<Flag>> \o body, LM, Start(f), At(f, PayloadSize + 1))
  BY <1>1, <1>2, RunJoins DEF Start, At
<1>5. \E K : Run(payload, (<<Flag>> \o body) \o chk, K, Start(f), Start(f + 1))
  BY <1>3, <1>4, RunJoins DEF Start, At
<1>6. Frame(payload, changed, chk) = (<<Flag>> \o body) \o chk
  BY DEF Frame, body
<1> QED
  BY <1>5, <1>6

-----------------------------------------------------------------------------
(* The places of the bytes in flight. *)

(* A place stays what it is when another payload is sent. *)
LEMMA StandsStill ==
  ASSUME NEW payloads \in Seq(Payloads), NEW p \in Payloads, NEW b, NEW l, Stands(payloads, b, l)
  PROVE  Stands(Append(payloads, p), b, l)
<1>1. /\ Len(Append(payloads, p)) = Len(payloads) + 1 /\ Len(payloads) \in Nat
      /\ \A i \in 1..Len(payloads) : Append(payloads, p)[i] = payloads[i]
  OBVIOUS
<1> QED
  BY <1>1 DEF Stands

(* A byte before those that have places is taken off the front. *)
LEMMA TakeBefore ==
  ASSUME NEW payloads, NEW s \in Seq(Bytes), NEW k, NEW L, Labelled(payloads, s, k, L),
         k # 0
  PROVE  /\ s # <<>> /\ Labelled(payloads, Tail(s), k - 1, L)
         /\ Plain(s, k, L) => Plain(Tail(s), k - 1, L)
<1>1. k \in 1..Len(s) /\ Len(s) \in Nat
  BY DEF Labelled
<1>2. s # <<>>
  BY <1>1
<1>3. Len(Tail(s)) = Len(s) - 1 /\ \A i \in 1..(Len(s) - 1) : Tail(s)[i] = s[i + 1]
  BY <1>2
<1> DEFINE t == Tail(s)
<1> HIDE DEF t
<1>4. /\ Len(t) = Len(s) - 1 /\ Len(t) - (k - 1) = Len(s) - k /\ k - 1 \in 0..Len(t)
      /\ \A i \in 0..(Len(s) - k - 1) : t[(k - 1) + i + 1] = s[k + i + 1]
  <2>1. /\ Len(t) = Len(s) - 1 /\ Len(t) - (k - 1) = Len(s) - k /\ k - 1 \in 0..Len(t)
    BY <1>1, <1>3 DEF t
  <2>2. ASSUME NEW i \in 0..(Len(s) - k - 1) PROVE t[(k - 1) + i + 1] = s[k + i + 1]
    <3>1. k + i \in 1..(Len(s) - 1) /\ (k - 1) + i + 1 = k + i
      BY <1>1
    <3> QED
      BY <1>3, <3>1 DEF t
  <2> QED
    BY <2>1, <2>2
<1>5. Labelled(payloads, t, k - 1, L)
  BY <1>4 DEF Labelled
<1>6. Plain(s, k, L) => Plain(t, k - 1, L)
  BY <1>4 DEF Plain
<1> QED
  BY <1>2, <1>5, <1>6 DEF t

(* The first byte that has a place is taken off the front. *)
LEMMA TakeFirst ==
  ASSUME NEW payloads, NEW s \in Seq(Bytes), s # <<>>, NEW L, Labelled(payloads, s, 0, L)
  PROVE  /\ Stands(payloads, Head(s), L[0]) /\ L[0] \in Places
         /\ Plain(s, 0, L) /\ L[0].place # 0 => Head(s) # Flag
         /\ \E M : /\ Labelled(payloads, Tail(s), 0, M) /\ M[0] = After(Head(s), L[0])
                   /\ Plain(s, 0, L) => Plain(Tail(s), 0, M)
<1> DEFINE t == Tail(s)
           M == [i \in 0..Len(t) |-> L[i + 1]]
<1>1. /\ Len(s) \in Nat \ {0} /\ Len(t) = Len(s) - 1 /\ Head(s) = s[1]
      /\ \A i \in 1..Len(t) : t[i] = s[i + 1]
  OBVIOUS
<1> HIDE DEF t
<1>2. /\ L \in [0..Len(s) -> Places] /\ L[Len(s)] = Start(Len(payloads) + 1)
      /\ \A i \in 0..(Len(s) - 1) : Stands(payloads, s[i + 1], L[i]) /\ L[i + 1] = After(s[i + 1], L[i])
  <2>1. Len(s) - 0 = Len(s) /\ \A i \in 0..(Len(s) - 1) : 0 + i + 1 = i + 1
    BY <1>1
  <2> QED
    BY <1>1, <2>1 DEF Labelled
<1>3. Stands(payloads, s[1], L[0]) /\ L[1] = After(s[1], L[0]) /\ L[0] \in Places
  BY <1>1, <1>2, 0 \in 0..(Len(s) - 1), 0 + 1 = 1
<1>4. Plain(s, 0, L) /\ L[0].place # 0 => s[1] # Flag
  <2>1. 0 \in 0..(Len(s) - 0 - 1) /\ 0 + 0 + 1 = 1
    BY <1>1
  <2> QED
    BY <2>1 DEF Plain
<1>5. /\ M \in [0..Len(t) -> Places] /\ M[0] = L[1] /\ M[Len(t)] = L[Len(s)]
      /\ \A i \in 0..(Len(t) - 1) : M[i] = L[i + 1] /\ M[i + 1] = L[(i + 1) + 1]
  BY <1>1, <1>2
<1> HIDE DEF M
<1>6. \A i \in 0..(Len(t) - 1) : /\ i + 1 \in 0..(Len(s) - 1) /\ t[i + 1] = s[(i + 1) + 1]
                                 /\ i + 1 \in 1..Len(t)
  BY <1>1
<1>7. Labelled(payloads, t, 0, M)
  <2>1. Len(t) - 0 = Len(t) /\ 0 \in 0..Len(t) /\ \A i \in 0..(Len(t) - 1) : 0 + i + 1 = i + 1
    BY <1>1
  <2>2. ASSUME NEW i \in 0..(Len(t) - 1)
        PROVE  Stands(payloads, t[i + 1], M[i]) /\ M[i + 1] = After(t[i + 1], M[i])
    BY <1>2, <1>5, <1>6
  <2> QED
    BY <1>2, <1>5, <2>1, <2>2 DEF Labelled
<1>8. Plain(s, 0, L) => Plain(t, 0, M)
  <2> SUFFICES ASSUME Plain(s, 0, L), NEW i \in 0..(Len(t) - 0 - 1), M[i].place # 0
               PROVE  t[0 + i + 1] # Flag
    BY DEF Plain
  <2>1. i \in 0..(Len(t) - 1) /\ 0 + i + 1 = i + 1
    BY <1>1
  <2>2. i + 1 \in 0..(Len(s) - 0 - 1) /\ 0 + (i + 1) + 1 = (i + 1) + 1
    BY <1>1
  <2>3. L[i + 1].place # 0
    BY <1>5, <2>1
  <2>4. s[0 + (i + 1) + 1] # Flag
    BY <2>2, <2>3 DEF Plain
  <2> QED
    BY <1>6, <2>1, <2>2, <2>4
<1> QED
  BY <1>1, <1>3, <1>4, <1>5, <1>7, <1>8 DEF t

(* The bytes of a frame that is sent get their places behind those in flight. *)
LEMMA SendLabels ==
  ASSUME NEW payloads \in Seq(Payloads), NEW s \in Seq(Bytes), NEW k, NEW L,
         Labelled(payloads, s, k, L), NEW p \in Payloads, NEW changed, NEW chk \in Checksums
  PROVE  \E M : /\ Labelled(Append(payloads, p), s \o Frame(p, changed, chk), k, M) /\ M[0] = L[0]
                /\ Plain(s, k, L) /\ ~Contains(Tail(Frame(p, changed, chk)), Flag)
                     => Plain(s \o Frame(p, changed, chk), k, M)
<1> DEFINE fr == Frame(p, changed, chk)
           st == s \o fr
           f == Len(payloads) + 1
           more == Append(payloads, p)
<1>1. /\ p \in [1..PayloadSize -> Bytes] /\ chk \in Bytes \X Bytes /\ f \in Nat
  BY LinkAssumption
<1>2. PICK G : Run(p, fr, G, Start(f), Start(f + 1))
  BY <1>1, FrameRun
<1>3. /\ Len(more) = f /\ more[f] = p /\ Len(payloads) \in Nat
      /\ \A i \in 1..Len(payloads) : more[i] = payloads[i]
  OBVIOUS
<1> HIDE DEF fr, f, more
<1>4. fr \in Seq(Bytes) /\ Len(fr) \in Nat /\ Len(s) \in Nat /\ k \in 0..Len(s)
  BY <1>2 DEF Run, Labelled
<1>5. /\ st \in Seq(Bytes) /\ Len(st) = Len(s) + Len(fr)
      /\ \A i \in 1..Len(s) : st[i] = s[i]
      /\ \A i \in 1..Len(fr) : st[Len(s) + i] = fr[i]
  BY <1>4, Joined, Zenon
<1> HIDE DEF st
<1> DEFINE m == Len(s) - k
           M == [i \in 0..(Len(st) - k) |-> IF i < m THEN L[i] ELSE G[i - m]]
<1>6. m \in Nat /\ m = Len(s) - k /\ Len(st) - k = m + Len(fr)
  BY <1>4, <1>5
<1>7. /\ L \in [0..m -> Places] /\ L[m] = Start(f)
      /\ \A i \in 0..(m - 1) : Stands(payloads, s[k + i + 1], L[i]) /\ L[i + 1] = After(s[k + i + 1], L[i])
  BY DEF Labelled, f
<1>8. /\ G \in [0..Len(fr) -> Places] /\ G[0] = Start(f) /\ G[Len(fr)] = Start(f + 1)
      /\ \A i \in 0..(Len(fr) - 1) :
           /\ G[i].frame = f /\ StandsIn(p, fr[i + 1], G[i])
           /\ G[i + 1] = After(fr[i + 1], G[i])
  BY <1>2 DEF Run, Start
<1>f. f \in Nat \ {0}
  BY <1>3 DEF f
<1> HIDE DEF m
<1>9. ASSUME NEW i \in 0..(Len(st) - k) PROVE M[i] \in Places
  <2>1. CASE i < m
    BY <1>6, <1>7, <2>1
  <2>2. CASE ~(i < m)
    BY <1>4, <1>6, <1>8, <2>2, i - m \in 0..Len(fr)
  <2> QED
    BY <2>1, <2>2
<1>10. M[0] = L[0] /\ M[Len(st) - k] = Start(f + 1)
  BY <1>4, <1>6, <1>7, <1>8
<1>11. ASSUME NEW i \in 0..(Len(st) - k - 1), i < m
       PROVE  /\ i \in 0..(m - 1) /\ st[k + i + 1] = s[k + i + 1]
              /\ M[i] = L[i] /\ M[i + 1] = L[i + 1]
  <2>1. i \in 0..(m - 1) /\ k + i + 1 \in 1..Len(s)
    BY <1>4, <1>5, <1>6, <1>11
  <2>2. M[i] = L[i]
    BY <1>4, <1>5, <1>6, <1>11
  <2>3. M[i + 1] = L[i + 1]
    <3>1. CASE i + 1 < m
      BY <1>4, <1>6, <3>1
    <3>2. CASE i + 1 = m
      BY <1>4, <1>6, <1>7, <1>8, <3>2
    <3> QED
      BY <1>6, <2>1, <3>1, <3>2
  <2> QED
    BY <1>5, <2>1, <2>2, <2>3
<1>12. ASSUME NEW i \in 0..(Len(st) - k - 1), ~(i < m)
       PROVE  \E j \in 0..(Len(fr) - 1) :
                /\ st[k + i + 1] = fr[j + 1] /\ M[i] = G[j] /\ M[i + 1] = G[j + 1]
  <2>1. i - m \in 0..(Len(fr) - 1) /\ k + i + 1 = Len(s) + ((i - m) + 1)
    BY <1>4, <1>5, <1>6, <1>12
  <2>2. (i - m) + 1 \in 1..Len(fr)
    BY <2>1, <1>4
  <2>3. st[k + i + 1] = fr[(i - m) + 1]
    BY <1>5, <2>1, <2>2
  <2>4. M[i] = G[i - m] /\ M[i + 1] = G[(i - m) + 1]
    BY <1>4, <1>5, <1>6, <1>12
  <2> QED
    BY <2>1, <2>3, <2>4
<1> HIDE DEF M
<1>13. Labelled(more, st, k, M)
  <2>1. ASSUME NEW i \in 0..(Len(st) - k - 1)
        PROVE  Stands(more, st[k + i + 1], M[i]) /\ M[i + 1] = After(st[k + i + 1], M[i])
    <3>1. CASE i < m
      <4>1. Stands(payloads, s[k + i + 1], L[i]) /\ L[i + 1] = After(s[k + i + 1], L[i])
        BY <1>7, <1>11, <3>1
      <4>2. Stands(more, s[k + i + 1], L[i])
        BY <4>1, StandsStill DEF more
      <4> QED
        BY <1>11, <3>1, <4>1, <4>2
    <3>2. CASE ~(i < m)
      <4>1. PICK j \in 0..(Len(fr) - 1) :
              /\ st[k + i + 1] = fr[j + 1] /\ M[i] = G[j] /\ M[i + 1] = G[j + 1]
        BY <1>12, <3>2
      <4> QED
        BY <1>3, <1>8, <1>f, <4>1 DEF Stands
    <3> QED
      BY <3>1, <3>2
  <2>2. M \in [0..(Len(st) - k) -> Places]
    BY <1>9 DEF M
  <2>3. k \in 0..Len(st)
    BY <1>4, <1>5
  <2> QED
    BY <1>3, <1>10, <2>1, <2>2, <2>3 DEF Labelled
<1>14. ASSUME Plain(s, k, L), ~Contains(Tail(fr), Flag) PROVE Plain(st, k, M)
  <2> SUFFICES ASSUME NEW i \in 0..(Len(st) - k - 1), M[i].place # 0
               PROVE  st[k + i + 1] # Flag
    BY DEF Plain
  <2>1. CASE i < m
    BY <1>6, <1>11, <1>14, <2>1 DEF Plain
  <2>2. CASE ~(i < m)
    <3>1. PICK j \in 0..(Len(fr) - 1) : st[k + i + 1] = fr[j + 1] /\ M[i] = G[j]
      BY <1>12, <2>2
    <3>2. j # 0
      BY <1>8, <3>1 DEF Start
    <3>3. j \in 1..Len(Tail(fr)) /\ Tail(fr)[j] = fr[j + 1]
      BY <1>4, <3>2
    <3> QED
      BY <1>14, <3>1, <3>3 DEF Contains
  <2> QED
    BY <2>1, <2>2
<1> QED
  BY <1>10, <1>13, <1>14 DEF st, more, fr

-----------------------------------------------------------------------------
(* Types. *)

LEMMA InitIInv == Init => IInv
<1> SUFFICES ASSUME Init PROVE IInv
  OBVIOUS
<1>1. TypeOK
  BY LinkAssumption DEF Init, TypeOK
<1>2. Exact
  <2> DEFINE L == [i \in 0..0 |-> Start(1)]
  <2>1. Stream = <<>> /\ Len(Stream) = 0 /\ Len(sent) = 0 /\ Len(received) = 0 /\ pc = "start"
    BY DEF Init, Stream
  <2>2. Start(1) \in Places
    BY LinkAssumption DEF Start, Places
  <2>3. Labelled(sent, Stream, 0, L)
    BY <2>1, <2>2 DEF Labelled
  <2>4. Expects(L[0]) /\ L[0].frame = 1
    BY <2>1 DEF Expects, Start
  <2> HIDE DEF L
  <2> QED
    BY <2>1, <2>3, <2>4 DEF Exact
<1>3. Resyncs
  BY DEF Init, Resyncs
<1> QED
  BY <1>1, <1>2, <1>3 DEF IInv

(* The first byte of the line is the first in flight. *)
LEMMA StreamMoves ==
  ASSUME TypeOK
  PROVE  /\ Stream \in Seq(Bytes)
         /\ line # <<>> => /\ Stream # <<>> /\ Head(Stream) = Byte /\ Byte \in Bytes
                           /\ Tail(line) \o tx = Tail(Stream) /\ Tail(line) \in Seq(Bytes)
         /\ tx # <<>> => /\ Append(line, Head(tx)) \o Tail(tx) = Stream
                         /\ Append(line, Head(tx)) \in Seq(Bytes) /\ Tail(tx) \in Seq(Bytes)
<1>1. line \in Seq(Bytes) /\ tx \in Seq(Bytes)
  BY DEF TypeOK
<1>2. Stream \in Seq(Bytes)
  BY <1>1, Joined, Zenon DEF Stream
<1>3. ASSUME line # <<>>
      PROVE  /\ Stream # <<>> /\ Head(Stream) = Byte /\ Byte \in Bytes
             /\ Tail(line) \o tx = Tail(Stream) /\ Tail(line) \in Seq(Bytes)
  BY <1>1, <1>3 DEF Stream, Byte
<1>4. ASSUME tx # <<>>
      PROVE  /\ Append(line, Head(tx)) \o Tail(tx) = Stream
             /\ Append(line, Head(tx)) \in Seq(Bytes) /\ Tail(tx) \in Seq(Bytes)
  BY <1>1, <1>4 DEF Stream
<1> QED
  BY <1>2, <1>3, <1>4

(* A byte is stored in the payload. *)
LEMMA StoreType ==
  ASSUME buf \in Seq(Bytes), Len(buf) < PayloadSize, NEW b \in Bytes, Store(b)
  PROVE  /\ buf' \in Seq(Bytes) /\ Len(buf') = Len(buf) + 1 /\ received' = received
         /\ \A i \in 1..Len(buf') : buf'[i] = IF i = Len(buf) + 1 THEN b ELSE buf[i]
         /\ \/ pc' = "chk_l" /\ Len(buf') = PayloadSize
            \/ pc' = "byte" /\ Len(buf') < PayloadSize
<1>1. PayloadSize \in Nat \ {0} /\ Len(buf) \in Nat
  BY LinkAssumption
<1> QED
  BY <1>1 DEF Store

Receiver ==
  /\ buf' \in Seq(Bytes)
  /\ pc' \in {"start", "byte", "escaped", "third", "chk_l", "chk_h", "shell"}
  /\ pc' \in {"byte", "escaped"} => Len(buf') < PayloadSize
  /\ pc' \in {"third", "shell"} => buf' = <<>>
  /\ pc' \in {"chk_l", "chk_h"} => Len(buf') = PayloadSize
  /\ received' \in Seq(Seq(Bytes))

LEMMA ReceiveType == TypeOK /\ (Receive \/ ShellExits) => Receiver
<1> SUFFICES ASSUME TypeOK, Receive \/ ShellExits PROVE Receiver
  OBVIOUS
<1>0. /\ buf \in Seq(Bytes) /\ received \in Seq(Seq(Bytes)) /\ PayloadSize \in Nat \ {0}
      /\ Flag \in Bytes /\ \A b \in Bytes : Flip(b) \in Bytes
      /\ line # <<>> => Byte \in Bytes
  BY LinkAssumption, StreamMoves DEF TypeOK
<1>1. CASE AwaitStart
  BY <1>0, <1>1 DEF AwaitStart, Get, Receiver
<1>2. CASE GetByte
  <2>1. Len(buf) < PayloadSize /\ line # <<>> /\ pc = "byte"
    BY <1>2 DEF GetByte, Get, TypeOK
  <2>2. CASE Store(Byte)
    BY <1>0, <2>1, <2>2, StoreType DEF Receiver
  <2>3. CASE ~Store(Byte)
    BY <1>0, <1>2, <2>1, <2>3 DEF GetByte, Receiver
  <2> QED
    BY <2>2, <2>3
<1>3. CASE GetEscaped
  <2>1. Len(buf) < PayloadSize /\ line # <<>> /\ Store(Flip(Byte))
    BY <1>3 DEF GetEscaped, Get, TypeOK
  <2> QED
    BY <1>0, <2>1, StoreType DEF Receiver
<1>4. CASE GetThird
  BY <1>0, <1>4 DEF GetThird, Get, Receiver, TypeOK
<1>5. CASE ShellReads
  BY <1>0, <1>5 DEF ShellReads, Get, Receiver, TypeOK
<1>6. CASE GetChecksumLow
  BY <1>0, <1>6 DEF GetChecksumLow, Get, Receiver, TypeOK
<1>7. CASE GetChecksumHigh
  BY <1>0, <1>7 DEF GetChecksumHigh, Get, Receiver
<1>8. CASE ShellExits
  <2>1. buf = <<>> /\ Len(buf) < PayloadSize /\ Store(Flag)
    BY <1>0, <1>8 DEF ShellExits, TypeOK
  <2> QED
    BY <1>0, <2>1, StoreType DEF Receiver
<1> QED
  BY <1>1, <1>2, <1>3, <1>4, <1>5, <1>6, <1>7, <1>8 DEF Receive

(* Every step preserves the types. *)
LEMMA TypeStep == TypeOK /\ [Next]_vars => TypeOK'
<1> SUFFICES ASSUME TypeOK, [Next]_vars PROVE TypeOK'
  OBVIOUS
<1>1. CASE Receive
  <2>1. line # <<>> /\ line' = Tail(line) /\ UNCHANGED <<tx, sent, damage, clean>>
    BY <1>1 DEF Receive, AwaitStart, GetByte, GetEscaped, GetThird, ShellReads, GetChecksumLow,
                GetChecksumHigh, Get
  <2>2. line' \in Seq(Bytes)
    BY <2>1, StreamMoves
  <2> QED
    BY <1>1, <2>1, <2>2, ReceiveType DEF TypeOK, Receiver
<1>2. CASE ShellExits
  BY <1>2, ReceiveType DEF ShellExits, TypeOK, Receiver
<1>3. ASSUME NEW p \in Payloads, NEW changed, NEW chk \in Checksums, Send(p, changed, chk) PROVE TypeOK'
  <2>1. /\ Frame(p, changed, chk) \in Seq(Bytes)
    <3>1. p \in [1..PayloadSize -> Bytes] /\ chk \in Bytes \X Bytes
      BY LinkAssumption
    <3>2. PICK L : Run(p, Frame(p, changed, chk), L, Start(1), Start(1 + 1))
      BY <3>1, FrameRun
    <3> QED
      BY <3>2 DEF Run
  <2>2. /\ sent' \in Seq(Payloads) /\ Len(sent') = Len(sent) + 1 /\ Len(sent) \in Nat
    BY <1>3 DEF Send, TypeOK
  <2>3. clean' \in 0..Len(sent')
    BY <1>3, <2>2 DEF Send, CleanFrame, TypeOK
  <2> QED
    BY <1>3, <2>1, <2>2, <2>3 DEF Send, TypeOK
<1>4. CASE Put
  BY <1>4, StreamMoves DEF Put, TypeOK
<1>5. CASE Damage
  <2>1. line' \in Seq(Bytes)
    <3>1. PICK n \in DOMAIN line :
            \/ line' = RemoveAt(line, n)
            \/ \E b \in Bytes \ {line[n]} : line' = [line EXCEPT ![n] = b]
      BY <1>5 DEF Damage
    <3>2. line \in Seq(Bytes) /\ Len(line) \in Nat /\ n \in 1..Len(line)
      BY <3>1 DEF TypeOK
    <3>3. RemoveAt(line, n) \in Seq(Bytes)
      <4>1. SubSeq(line, 1, n - 1) \in Seq(Bytes)
        BY <3>2
      <4>2. SubSeq(line, n + 1, Len(line)) \in Seq(Bytes)
        BY <3>2
      <4> QED
        BY <4>1, <4>2, Joined, Zenon DEF RemoveAt
    <3>4. \A b \in Bytes : [line EXCEPT ![n] = b] \in Seq(Bytes)
      BY <3>2
    <3> QED
      BY <3>1, <3>3, <3>4
  <2> QED
    BY <1>5, <2>1 DEF Damage, TypeOK
<1>6. CASE Done \/ UNCHANGED vars
  BY <1>6 DEF Done, vars, TypeOK
<1> QED
  BY <1>1, <1>2, <1>3, <1>4, <1>5, <1>6 DEF Next

-----------------------------------------------------------------------------
(* Receiving in step. *)

(* ^ 0x20 undoes itself. *)
LEMMA FlipTwice == \A b \in Bytes : Flip(Flip(b)) = b
<1> SUFFICES ASSUME NEW b \in Bytes PROVE Flip(Flip(b)) = b
  OBVIOUS
<1>1. b \in 0..255
  BY LinkAssumption
<1>2. PICK q \in Nat : q = b \div 32
  BY <1>1
<1>3. CASE q % 2 = 1
  <2>1. Flip(b) = b - 32 /\ (b - 32) \div 32 = q - 1 /\ (q - 1) % 2 = 0
    BY <1>1, <1>2, <1>3 DEF Flip
  <2> QED
    BY <1>1, <2>1 DEF Flip
<1>4. CASE q % 2 # 1
  <2>1. Flip(b) = b + 32 /\ (b + 32) \div 32 = q + 1 /\ (q + 1) % 2 = 1
    BY <1>1, <1>2, <1>4 DEF Flip
  <2> QED
    BY <1>1, <2>1 DEF Flip
<1> QED
  BY <1>3, <1>4

(* The receiver that is in step stays so with the byte it expects, and at the end of a
   frame it has the payload that was sent. *)
LEMMA InStep ==
  ASSUME TypeOK, NEW l \in Places, Expects(l), NEW b, b = Byte, Stands(sent, b, l), Receive,
         NEW m, m = After(b, l)
  PROVE  /\ Expects(m)'
         /\ \/ received' = received /\ m.frame = l.frame
            \/ received' = Append(received, sent[l.frame]) /\ m = Start(l.frame + 1)
<1> DEFINE f == l.frame
<1>0. /\ PayloadSize \in Nat \ {0} /\ buf \in Seq(Bytes) /\ Len(buf) \in Nat
      /\ f \in 1..Len(sent) /\ Len(sent) \in Nat /\ StandsIn(sent[f], b, l)
      /\ l = [frame |-> f, place |-> l.place, part |-> l.part]
      /\ l.place \in 0..(PayloadSize + 2)
      /\ sent[f] \in [1..PayloadSize -> Bytes] /\ UNCHANGED sent
      /\ \A x \in Bytes : Flip(x) \in Bytes
  <2>1. PayloadSize \in Nat \ {0} /\ Payloads \subseteq [1..PayloadSize -> Bytes]
        /\ \A x \in Bytes : Flip(x) \in Bytes
    BY LinkAssumption
  <2>2. buf \in Seq(Bytes) /\ Len(buf) \in Nat /\ sent \in Seq(Payloads) /\ Len(sent) \in Nat
    BY DEF TypeOK
  <2>3. f \in 1..Len(sent) /\ StandsIn(sent[f], b, l)
    BY DEF Stands
  <2>4. sent[f] \in Payloads
    BY <2>2, <2>3
  <2>5. /\ l = [frame |-> f, place |-> l.place, part |-> l.part]
        /\ l.place \in 0..(PayloadSize + 2)
    BY DEF Places
  <2>6. UNCHANGED sent
    BY DEF Receive, AwaitStart, GetByte, GetEscaped, GetThird, ShellReads, GetChecksumLow,
           GetChecksumHigh, Get
  <2> QED
    BY <2>1, <2>2, <2>3, <2>4, <2>5, <2>6
<1>1. CASE pc = "start"
  <2>1. AwaitStart /\ l = Start(f)
    BY <1>1 DEF Receive, AwaitStart, GetByte, GetEscaped, GetThird, ShellReads, GetChecksumLow,
                GetChecksumHigh, Get, Expects
  <2>2. b = Flag /\ m = At(f, 1)
    BY <1>0, <2>1 DEF StandsIn, Start, After, InBody, At
  <2>3. pc' = "byte" /\ buf' = <<>> /\ received' = received
    BY <2>1, <2>2 DEF AwaitStart
  <2>4. Expects(m)'
    BY <1>0, <2>2, <2>3 DEF Expects, At
  <2> QED
    BY <2>2, <2>3, <2>4 DEF At
<1>2. ASSUME NEW d, d \in Bytes, l.place = Len(buf) + 1, InBody(l), d = sent[f][l.place],
             \A i \in 1..Len(buf) : buf[i] = sent[f][i], Len(buf) < PayloadSize,
             Store(d), m = At(f, l.place + 1)
      PROVE  Expects(m)' /\ received' = received /\ m.frame = f
  <2>1. /\ buf' \in Seq(Bytes) /\ Len(buf') = Len(buf) + 1 /\ received' = received
        /\ \A i \in 1..Len(buf') : buf'[i] = IF i = Len(buf) + 1 THEN d ELSE buf[i]
        /\ \/ pc' = "chk_l" /\ Len(buf') = PayloadSize
           \/ pc' = "byte" /\ Len(buf') < PayloadSize
    BY <1>0, <1>2, StoreType
  <2>2. ASSUME NEW i \in 1..Len(buf') PROVE buf'[i] = sent'[f][i]
    <3>1. CASE i = Len(buf) + 1
      BY <1>0, <1>2, <2>1, <3>1
    <3>2. CASE i # Len(buf) + 1
      BY <1>0, <1>2, <2>1, <3>2, i \in 1..Len(buf)
    <3> QED
      BY <3>1, <3>2
  <2> QED
    BY <1>0, <1>2, <2>1, <2>2 DEF Expects, At
<1>3. CASE pc = "byte"
  <2>1. /\ GetByte /\ l.place = Len(buf) + 1 /\ l.part = 0 /\ Len(buf) < PayloadSize
        /\ \A i \in 1..Len(buf) : buf[i] = sent[f][i]
    BY <1>3 DEF Receive, AwaitStart, GetByte, GetEscaped, GetThird, ShellReads, GetChecksumLow,
                GetChecksumHigh, Get, Expects, TypeOK
  <2>2. InBody(l)
    BY <1>0, <2>1 DEF InBody
  <2> DEFINE d == sent[f][l.place]
  <2>3. d \in Bytes /\ (b = Escape \/ (b = d /\ b \notin Special))
    BY <1>0, <2>1, <2>2 DEF StandsIn, InBody
  <2>4. CASE b = Escape
    <3>1. b = Escape
      BY <2>4
    <3>2. pc' = "escaped" /\ buf' = buf /\ received' = received
      BY <2>1, <3>1 DEF GetByte, Store, Flag, Escape
    <3>3. m = [frame |-> f, place |-> l.place, part |-> 1]
      BY <2>1, <2>2, <3>1 DEF After
    <3> QED
      BY <1>0, <2>1, <3>2, <3>3 DEF Expects
  <2>5. CASE b # Escape
    <3>1. b = d /\ b \notin {Flag, Escape}
      BY <2>3, <2>5 DEF Special
    <3>2. Store(d)
      BY <2>1, <3>1 DEF GetByte
    <3>3. m = At(f, l.place + 1)
      BY <1>0, <2>1, <2>2, <3>1 DEF After, At, InBody
    <3> QED
      BY <1>2, <2>1, <2>2, <2>3, <3>2, <3>3
  <2> QED
    BY <2>4, <2>5
<1>4. CASE pc = "escaped"
  <2>1. /\ GetEscaped /\ l.place = Len(buf) + 1 /\ l.part = 1 /\ Len(buf) < PayloadSize
        /\ \A i \in 1..Len(buf) : buf[i] = sent[f][i]
    BY <1>4 DEF Receive, AwaitStart, GetByte, GetEscaped, GetThird, ShellReads, GetChecksumLow,
                GetChecksumHigh, Get, Expects, TypeOK
  <2>2. InBody(l)
    BY <1>0, <2>1 DEF InBody
  <2> DEFINE d == sent[f][l.place]
  <2>3. d \in Bytes /\ b = Flip(d)
    BY <1>0, <2>1, <2>2 DEF StandsIn, InBody
  <2>4. Flip(b) = d
    BY <2>3, FlipTwice
  <2>5. Store(d)
    BY <2>1, <2>4 DEF GetEscaped
  <2>6. m = At(f, l.place + 1)
    BY <1>0, <2>1, <2>2 DEF After, At, InBody
  <2> QED
    BY <1>2, <2>1, <2>2, <2>3, <2>5, <2>6
<1>5. CASE pc = "chk_l"
  <2>1. /\ GetChecksumLow /\ l.place = PayloadSize + 1 /\ l.part = 0
        /\ \A i \in 1..Len(buf) : buf[i] = sent[f][i]
    BY <1>5 DEF Receive, AwaitStart, GetByte, GetEscaped, GetThird, ShellReads, GetChecksumLow,
                GetChecksumHigh, Get, Expects
  <2>2. m = At(f, PayloadSize + 2)
    BY <1>0, <2>1 DEF After, At, InBody
  <2>3. pc' = "chk_h" /\ buf' = buf /\ received' = received
    BY <2>1 DEF GetChecksumLow
  <2> QED
    BY <1>0, <2>1, <2>2, <2>3 DEF Expects, At
<1>6. CASE pc = "chk_h"
  <2>1. /\ GetChecksumHigh /\ l.place = PayloadSize + 2 /\ l.part = 0
        /\ Len(buf) = PayloadSize
        /\ \A i \in 1..Len(buf) : buf[i] = sent[f][i]
    BY <1>6 DEF Receive, AwaitStart, GetByte, GetEscaped, GetThird, ShellReads, GetChecksumLow,
                GetChecksumHigh, Get, Expects, TypeOK
  <2>2. m = Start(f + 1)
    BY <1>0, <2>1 DEF After, InBody
  <2>3. buf = sent[f]
    <3>1. buf \in [1..PayloadSize -> Bytes]
      BY <1>0, <2>1
    <3> QED
      BY <1>0, <2>1, <3>1
  <2>4. pc' = "start" /\ received' = Append(received, sent[f])
    BY <2>1, <2>3 DEF GetChecksumHigh
  <2> QED
    BY <1>0, <2>2, <2>4 DEF Expects, Start
<1> QED
  BY <1>1, <1>3, <1>4, <1>5, <1>6 DEF Expects

(* What the receiver expects does not change when another frame is sent. *)
LEMMA ExpectsStill ==
  ASSUME TypeOK, NEW l, Expects(l), UNCHANGED <<pc, buf>>,
         UNCHANGED sent \/ \E p \in Payloads : sent' = Append(sent, p)
  PROVE  Expects(l)'
<1>1. CASE UNCHANGED sent
  BY <1>1 DEF Expects
<1>2. ASSUME NEW p \in Payloads, sent' = Append(sent, p) PROVE Expects(l)'
  <2>1. /\ Len(sent') = Len(sent) + 1 /\ Len(sent) \in Nat
        /\ \A i \in 1..Len(sent) : sent'[i] = sent[i]
    BY <1>2 DEF TypeOK
  <2> QED
    BY <2>1 DEF Expects
<1> QED
  BY <1>1, <1>2

(* Sending adds to the bytes in flight. *)
LEMMA SendStream ==
  ASSUME TypeOK, NEW p \in Payloads, NEW changed, NEW chk \in Checksums, Send(p, changed, chk)
  PROVE  Stream' = Stream \o Frame(p, changed, chk) /\ sent' = Append(sent, p)
<1>1. line \in Seq(Bytes) /\ tx = <<>> /\ tx' = Frame(p, changed, chk) /\ line' = line
  BY DEF Send, TypeOK
<1>2. Stream = line
  BY <1>1 DEF Stream
<1> QED
  BY <1>1, <1>2 DEF Stream, Send

(* Receiving takes from the bytes in flight. *)
LEMMA ReceiveStream ==
  ASSUME TypeOK, Receive
  PROVE  /\ Stream \in Seq(Bytes) /\ Stream # <<>> /\ Head(Stream) = Byte /\ Byte \in Bytes
         /\ Stream' = Tail(Stream) /\ UNCHANGED <<sent, damage, clean>>
<1>1. line # <<>> /\ line' = Tail(line) /\ UNCHANGED <<tx, sent, damage, clean>>
  BY DEF Receive, AwaitStart, GetByte, GetEscaped, GetThird, ShellReads, GetChecksumLow,
         GetChecksumHigh, Get
<1> QED
  BY <1>1, StreamMoves DEF Stream

(* Every step keeps the receiver in step until a byte is damaged. *)
LEMMA ExactStep == TypeOK /\ Exact /\ [Next]_vars => Exact'
<1> SUFFICES ASSUME TypeOK, Exact, [Next]_vars, damage' = 0
             PROVE  \E L : /\ Labelled(sent', Stream', 0, L)
                           /\ Expects(L[0])' /\ L[0].frame = Len(received') + 1
                           /\ \A i \in 1..Len(received') : received'[i] = sent'[i]
  BY DEF Exact
<1>0. damage = 0 /\ ~Damage
  BY DEF Next, Receive, AwaitStart, GetByte, GetEscaped, GetThird, ShellReads, GetChecksumLow,
         GetChecksumHigh, Get, ShellExits, Send, Put, Damage, Done, vars, TypeOK
<1>1. PICK L : /\ Labelled(sent, Stream, 0, L)
               /\ Expects(L[0]) /\ L[0].frame = Len(received) + 1
               /\ \A i \in 1..Len(received) : received[i] = sent[i]
  BY <1>0 DEF Exact
<1>2. received \in Seq(Seq(Bytes)) /\ Len(received) \in Nat /\ sent \in Seq(Payloads)
  BY DEF TypeOK
<1>3. CASE Receive
  <2>1. /\ Stream \in Seq(Bytes) /\ Stream # <<>> /\ Head(Stream) = Byte
        /\ Stream' = Tail(Stream) /\ UNCHANGED sent
    BY <1>3, ReceiveStream
  <2>2. Stands(sent, Byte, L[0]) /\ L[0] \in Places
    BY <1>1, <2>1, TakeFirst
  <2>3. PICK M : Labelled(sent, Tail(Stream), 0, M) /\ M[0] = After(Byte, L[0])
    BY <1>1, <2>1, TakeFirst
  <2>4. PICK b : b = Byte
    OBVIOUS
  <2>5. /\ Expects(M[0])'
        /\ \/ received' = received /\ M[0].frame = L[0].frame
           \/ received' = Append(received, sent[L[0].frame]) /\ M[0] = Start(L[0].frame + 1)
    BY <1>1, <1>3, <2>2, <2>3, <2>4, InStep
  <2>6. M[0].frame = Len(received') + 1 /\ \A i \in 1..Len(received') : received'[i] = sent'[i]
    <3>1. CASE received' = received /\ M[0].frame = L[0].frame
      BY <1>1, <2>1, <3>1
    <3>2. CASE received' = Append(received, sent[L[0].frame]) /\ M[0] = Start(L[0].frame + 1)
      <4>1. /\ Len(received') = Len(received) + 1
            /\ \A i \in 1..Len(received') :
                 received'[i] = IF i = Len(received) + 1 THEN sent[L[0].frame] ELSE received[i]
        BY <1>2, <3>2
      <4> QED
        BY <1>1, <1>2, <2>1, <3>2, <4>1 DEF Start
    <3> QED
      BY <2>5, <3>1, <3>2
  <2> QED
    BY <2>1, <2>3, <2>5, <2>6
<1>4. ASSUME NEW p \in Payloads, NEW changed, NEW chk \in Checksums, Send(p, changed, chk)
      PROVE  \E M : /\ Labelled(sent', Stream', 0, M)
                    /\ Expects(M[0])' /\ M[0].frame = Len(received') + 1
                    /\ \A i \in 1..Len(received') : received'[i] = sent'[i]
  <2>1. /\ Stream \in Seq(Bytes) /\ Stream' = Stream \o Frame(p, changed, chk)
        /\ sent' = Append(sent, p) /\ UNCHANGED <<pc, buf, received>>
    BY <1>4, StreamMoves, SendStream DEF Send
  <2>2. PICK M : Labelled(sent', Stream', 0, M) /\ M[0] = L[0]
    BY <1>1, <1>2, <2>1, SendLabels
  <2>3. Expects(M[0])'
    BY <1>1, <2>1, <2>2, ExpectsStill
  <2>4. \A i \in 1..Len(received) : sent'[i] = sent[i]
    <3>1. Len(received) <= Len(sent)
      BY <1>1, <1>2 DEF Expects
    <3> QED
      BY <1>2, <2>1, <3>1
  <2> QED
    BY <1>1, <2>1, <2>2, <2>3, <2>4
<1>5. CASE Stream' = Stream /\ UNCHANGED <<pc, buf, sent, received>>
  BY <1>1, <1>5, ExpectsStill
<1>6. CASE Put
  BY <1>5, <1>6, StreamMoves DEF Put, Stream
<1>7. CASE ShellExits
  BY <1>1, <1>7 DEF ShellExits, Expects
<1>8. CASE Done \/ UNCHANGED vars
  BY <1>5, <1>8 DEF Done, vars, Stream
<1> QED
  BY <1>0, <1>3, <1>4, <1>6, <1>7, <1>8 DEF Next

-----------------------------------------------------------------------------
(* Finding the place again. *)

LEMMA PlaceIs ==
  ASSUME NEW l \in Places
  PROVE  /\ l = [frame |-> l.frame, place |-> l.place, part |-> l.part]
         /\ l.frame \in Nat /\ l.place \in 0..(PayloadSize + 2) /\ l.part \in {0, 1}
         /\ PayloadSize \in Nat \ {0}
  BY LinkAssumption DEF Places

(* A receiver that has lost its place meets no flag before the frame ends, and ends up
   waiting for one. *)
LEMMA LostStep ==
  ASSUME TypeOK, NEW l \in Places, Recovers(l), NEW b, b = Byte, b # Flag, b \in Bytes,
         Stands(sent, b, l), Receive, NEW m, m = After(b, l)
  PROVE  \/ m.frame = l.frame /\ Recovers(m)'
         \/ m = Start(l.frame + 1) /\ Expects(m)'
<1>0. /\ l.frame \in 1..Len(sent) /\ Len(sent) \in Nat /\ UNCHANGED sent
      /\ l.place \in 1..(PayloadSize + 2) /\ l.part \in {0, 1} /\ PayloadSize \in Nat \ {0}
      /\ Len(buf) \in Nat /\ buf \in Seq(Bytes) /\ \A x \in Bytes : Flip(x) \in Bytes
      /\ l.part = 1 => InBody(l)
  BY PlaceIs, ReceiveStream, LinkAssumption DEF Stands, StandsIn, Recovers, TypeOK
<1>1. \/ m = [frame |-> l.frame, place |-> l.place, part |-> 1] /\ InBody(l) /\ b = Escape
      \/ m = Start(l.frame + 1) /\ l.place = PayloadSize + 2
      \/ m = At(l.frame, l.place + 1) /\ l.place < PayloadSize + 2 /\ (InBody(l) /\ l.part = 0 => b # Escape)
  BY <1>0 DEF After, At, InBody
<1>2. /\ m.frame = l.frame => m.place >= 1
      /\ (m.frame = l.frame /\ m.place <= l.place + 1) \/ m = Start(l.frame + 1)
  BY <1>0, <1>1 DEF At, Start
<1>3. m = Start(l.frame + 1) /\ pc' = "start" => Expects(m)'
  BY <1>0 DEF Expects, Start
<1>4. m.frame = l.frame /\ pc' = "start" => Recovers(m)'
  BY <1>2 DEF Recovers
<1>5. CASE pc \in {"start", "third", "chk_h"}
  <2>1. pc' = "start"
    BY <1>5 DEF Receive, AwaitStart, GetByte, GetEscaped, GetThird, ShellReads, GetChecksumLow,
                GetChecksumHigh, Get
  <2> QED
    BY <1>2, <1>3, <1>4, <2>1
<1>6. CASE pc = "chk_l"
  <2>1. pc' = "chk_h" /\ l.place <= PayloadSize
    BY <1>6 DEF Receive, AwaitStart, GetByte, GetEscaped, GetThird, ShellReads, GetChecksumLow,
                GetChecksumHigh, Get, Recovers
  <2>2. m.frame = l.frame /\ m.place >= 1 /\ m.place <= PayloadSize + 1
    BY <1>0, <1>1, <2>1 DEF At
  <2> QED
    BY <2>1, <2>2 DEF Recovers
<1>7. ASSUME NEW d \in Bytes, Store(d), Len(buf) < PayloadSize, l.place <= Len(buf),
             m = At(l.frame, l.place + 1)
      PROVE  m.frame = l.frame /\ Recovers(m)'
  <2>1. /\ Len(buf') = Len(buf) + 1
        /\ \/ pc' = "chk_l" /\ Len(buf') = PayloadSize
           \/ pc' = "byte" /\ Len(buf') < PayloadSize
    BY <1>0, <1>7, StoreType
  <2> QED
    BY <1>0, <1>7, <2>1 DEF Recovers, At
<1>8. CASE pc = "byte"
  <2>1. /\ GetByte /\ l.part = 0 /\ l.place <= Len(buf) /\ Len(buf) < PayloadSize
    BY <1>8 DEF Receive, AwaitStart, GetByte, GetEscaped, GetThird, ShellReads, GetChecksumLow,
                GetChecksumHigh, Get, Recovers, TypeOK
  <2>2. InBody(l)
    BY <1>0, <2>1 DEF InBody
  <2>3. CASE b = Escape
    <3>1. pc' = "escaped" /\ buf' = buf
      BY <2>1, <2>3 DEF GetByte, Store, Flag, Escape
    <3>2. m = [frame |-> l.frame, place |-> l.place, part |-> 1]
      BY <2>1, <2>2, <2>3 DEF After
    <3> QED
      BY <1>0, <2>1, <3>1, <3>2 DEF Recovers
  <2>4. CASE b # Escape
    <3>1. Store(b)
      BY <2>1, <2>4 DEF GetByte
    <3>2. m = At(l.frame, l.place + 1)
      BY <1>0, <2>1, <2>4, <2>2 DEF After, At, InBody
    <3> QED
      BY <1>7, <2>1, <3>1, <3>2
  <2> QED
    BY <2>3, <2>4
<1>9. CASE pc = "escaped"
  <2>1. /\ Store(Flip(b)) /\ l.part = 1 /\ l.place <= Len(buf) /\ Len(buf) < PayloadSize
    BY <1>9 DEF Receive, AwaitStart, GetByte, GetEscaped, GetThird, ShellReads, GetChecksumLow,
                GetChecksumHigh, Get, Recovers, TypeOK
  <2>2. m = At(l.frame, l.place + 1)
    BY <1>0, <2>1 DEF After, At, InBody
  <2> QED
    BY <1>0, <1>7, <2>1, <2>2
<1> QED
  BY <1>5, <1>6, <1>8, <1>9 DEF Recovers

(* The flag of a frame, wherever the receiver is, brings it into step, makes it lose its
   place in this frame only, or opens the shell. *)
LEMMA FlagStep ==
  ASSUME TypeOK, pc # "shell", NEW f \in 1..Len(sent), Byte = Flag, Receive,
         NEW m, m = At(f, 1)
  PROVE  pc' = "shell" \/ Recovers(m)' \/ Expects(m)'
<1>0. /\ PayloadSize \in Nat \ {0} /\ Len(sent) \in Nat /\ UNCHANGED sent
      /\ buf \in Seq(Bytes) /\ Len(buf) \in Nat /\ Flip(Flag) \in Bytes
  <2>1. PayloadSize \in Nat \ {0} /\ Flip(Flag) \in Bytes
    BY LinkAssumption
  <2> QED
    BY <2>1, ReceiveStream DEF TypeOK
<1>1. CASE pc = "start"
  <2>1. pc' = "byte" /\ buf' = <<>>
    BY <1>1 DEF Receive, AwaitStart, GetByte, GetEscaped, GetThird, ShellReads, GetChecksumLow,
                GetChecksumHigh, Get
  <2> QED
    BY <1>0, <2>1 DEF Expects, At
<1>2. CASE pc = "escaped"
  <2>1. Store(Flip(Flag)) /\ Len(buf) < PayloadSize
    BY <1>2 DEF Receive, AwaitStart, GetByte, GetEscaped, GetThird, ShellReads, GetChecksumLow,
                GetChecksumHigh, Get, TypeOK
  <2>2. /\ Len(buf') = Len(buf) + 1
        /\ \/ pc' = "chk_l" /\ Len(buf') = PayloadSize
           \/ pc' = "byte" /\ Len(buf') < PayloadSize
    BY <1>0, <2>1, StoreType
  <2> QED
    BY <1>0, <2>2 DEF Recovers, At
<1>3. CASE pc = "byte"
  <2>1. pc' \in {"third", "start"}
    BY <1>3 DEF Receive, AwaitStart, GetByte, GetEscaped, GetThird, ShellReads, GetChecksumLow,
                GetChecksumHigh, Get, Store, Flag, Escape
  <2> QED
    BY <2>1 DEF Recovers, At
<1>4. CASE pc \in {"third", "chk_l", "chk_h"}
  <2>1. pc' \in {"shell", "chk_h", "start"}
    BY <1>4 DEF Receive, AwaitStart, GetByte, GetEscaped, GetThird, ShellReads, GetChecksumLow,
                GetChecksumHigh, Get
  <2> QED
    BY <1>0, <2>1 DEF Recovers, At
<1> QED
  BY <1>1, <1>2, <1>3, <1>4 DEF TypeOK

(* Every step keeps the way to the frames sent cleanly. *)
LEMMA ResyncStep == TypeOK /\ Resyncs /\ [Next]_vars => Resyncs'
<1> SUFFICES ASSUME TypeOK, Resyncs, [Next]_vars, clean' >= 1, pc' # "shell"
             PROVE  \E k, L : /\ Labelled(sent', Stream', k, L) /\ Plain(Stream', k, L)
                              /\ Rejoins(k, L[0])'
  BY DEF Resyncs
<1>a. /\ sent \in Seq(Payloads) /\ Len(sent) \in Nat /\ received \in Seq(Seq(Bytes))
      /\ clean \in 0..Len(sent)
  BY DEF TypeOK
<1>b. FirstClean \in Nat \ {0}
  BY <1>a DEF FirstClean
<1>0. /\ sent \in Seq(Payloads) /\ Len(sent) \in Nat /\ received \in Seq(Seq(Bytes))
      /\ clean \in 0..Len(sent) /\ FirstClean \in Nat \ {0} /\ Stream \in Seq(Bytes)
  BY <1>a, <1>b, StreamMoves
<1>1. CASE Receive
  <2>1. /\ Stream # <<>> /\ Head(Stream) = Byte /\ Byte \in Bytes /\ Stream' = Tail(Stream)
        /\ UNCHANGED <<sent, clean>> /\ FirstClean' = FirstClean
    BY <1>1, ReceiveStream DEF FirstClean
  <2>2. pc # "shell"
    BY <1>1 DEF Receive, AwaitStart, GetByte, GetEscaped, GetThird, ShellReads, GetChecksumLow,
                GetChecksumHigh, Get
  <2>3. PICK k, L : Labelled(sent, Stream, k, L) /\ Plain(Stream, k, L) /\ Rejoins(k, L[0])
    BY <2>1, <2>2 DEF Resyncs
  <2>4. CASE k # 0
    <3>1. L[0] = Start(FirstClean)
      BY <2>3, <2>4 DEF Rejoins
    <3>2. Labelled(sent, Tail(Stream), k - 1, L) /\ Plain(Tail(Stream), k - 1, L)
      BY <1>0, <2>3, <2>4, TakeBefore
    <3> QED
      BY <2>1, <3>1, <3>2 DEF Rejoins
  <2>5. CASE k = 0
    <3> DEFINE l == L[0]
    <3>1. /\ Stands(sent, Byte, l) /\ l \in Places
          /\ l.place # 0 => Byte # Flag
      BY <1>0, <2>1, <2>3, <2>5, TakeFirst
    <3>2. PICK M : /\ Labelled(sent, Tail(Stream), 0, M) /\ M[0] = After(Byte, l)
                   /\ Plain(Tail(Stream), 0, M)
      BY <1>0, <2>1, <2>3, <2>5, TakeFirst
    <3>3. PICK b : b = Byte
      OBVIOUS
    <3> DEFINE m == M[0]
    <3>4. Rejoins(k, l) /\ l.frame \in Nat /\ PayloadSize \in Nat \ {0}
      BY <2>3, <3>1, PlaceIs
    <3> HIDE DEF l, m
    <3>5. CASE l = Start(FirstClean)
      <4>1. /\ FirstClean \in 1..Len(sent) /\ Byte = Flag
            /\ m = At(FirstClean, 1)
        BY <3>1, <3>2, <3>4, <3>5 DEF Stands, StandsIn, Start, After, InBody, At, m
      <4>2. Recovers(m)' \/ Expects(m)'
        BY <1>1, <2>2, <4>1, FlagStep
      <4>3. Rejoins(0, m)'
        BY <1>0, <2>1, <4>1, <4>2 DEF Rejoins, At
      <4> QED
        BY <2>1, <3>2, <4>3 DEF m
    <3>6. CASE l.frame = FirstClean /\ Recovers(l)
      <4>1. b # Flag /\ b \in Bytes
        BY <2>1, <3>1, <3>3, <3>6 DEF Recovers
      <4>2. \/ m.frame = l.frame /\ Recovers(m)'
            \/ m = Start(l.frame + 1) /\ Expects(m)'
        BY <1>1, <3>1, <3>2, <3>3, <3>6, <4>1, LostStep DEF m
      <4>3. Rejoins(0, m)'
        BY <1>0, <2>1, <3>6, <4>2 DEF Rejoins, Start
      <4> QED
        BY <2>1, <3>2, <4>3 DEF m
    <3>7. CASE /\ l.frame >= FirstClean /\ Expects(l)
               /\ l.frame > FirstClean + 1 =>
                    received # <<>> /\ Last(received) = sent[l.frame - 1]
      <4>1. /\ Expects(m)'
            /\ \/ received' = received /\ m.frame = l.frame
               \/ received' = Append(received, sent[l.frame]) /\ m = Start(l.frame + 1)
        BY <1>1, <3>1, <3>2, <3>3, <3>7, InStep DEF m
      <4>2. CASE received' = received /\ m.frame = l.frame
        <5>1. Rejoins(0, m)'
          BY <2>1, <3>7, <4>1, <4>2 DEF Rejoins
        <5> QED
          BY <2>1, <3>2, <5>1 DEF m
      <4>3. CASE received' = Append(received, sent[l.frame]) /\ m = Start(l.frame + 1)
        <5>1. received' # <<>> /\ Last(received') = sent[l.frame]
          <6>1. PICK x : x = sent[l.frame]
            OBVIOUS
          <6>2. received' = Append(received, x)
            BY <4>3, <6>1
          <6>3. Len(received') = Len(received) + 1 /\ received'[Len(received) + 1] = x
            BY <1>0, <6>2
          <6> QED
            BY <1>0, <6>1, <6>3 DEF Last
        <5>2. m.frame = l.frame + 1 /\ m.frame - 1 = l.frame
          BY <3>4, <4>3 DEF Start
        <5>3. Rejoins(0, m)'
          BY <1>0, <2>1, <3>4, <3>7, <4>1, <5>1, <5>2 DEF Rejoins
        <5> QED
          BY <2>1, <3>2, <5>3 DEF m
      <4> QED
        BY <4>1, <4>2, <4>3
    <3> QED
      BY <3>4, <3>5, <3>6, <3>7 DEF Rejoins
  <2> QED
    BY <2>4, <2>5
<1>2. ASSUME NEW p \in Payloads, NEW changed, NEW chk \in Checksums, Send(p, changed, chk)
      PROVE  \E k, L : /\ Labelled(sent', Stream', k, L) /\ Plain(Stream', k, L)
                       /\ Rejoins(k, L[0])'
  <2>0. clean' = CleanFrame(Frame(p, changed, chk)) /\ UNCHANGED <<pc, buf, received>>
    BY <1>2 DEF Send
  <2>1. /\ Stream' = Stream \o Frame(p, changed, chk) /\ sent' = Append(sent, p)
        /\ UNCHANGED <<pc, buf, received>>
        /\ clean' = clean + 1 /\ ~Contains(Tail(Frame(p, changed, chk)), Flag)
    BY <1>2, <2>0, SendStream DEF CleanFrame
  <2>2. /\ FirstClean' = FirstClean /\ Len(sent') = Len(sent) + 1
        /\ \A i \in 1..Len(sent) : sent'[i] = sent[i]
    BY <1>0, <2>1 DEF FirstClean
  <2>3. CASE clean >= 1
    <3>1. PICK k, L : Labelled(sent, Stream, k, L) /\ Plain(Stream, k, L) /\ Rejoins(k, L[0])
      BY <2>1, <2>3 DEF Resyncs
    <3>2. PICK M : /\ Labelled(sent', Stream', k, M) /\ Plain(Stream', k, M) /\ M[0] = L[0]
      BY <1>0, <2>1, <3>1, SendLabels
    <3>3. CASE L[0] = Start(FirstClean)
      BY <2>2, <3>2, <3>3 DEF Rejoins
    <3>4. CASE k = 0 /\ L[0].frame = FirstClean /\ Recovers(L[0])
      BY <2>1, <2>2, <3>2, <3>4 DEF Rejoins, Recovers
    <3>5. CASE /\ k = 0 /\ L[0].frame >= FirstClean /\ Expects(L[0])
               /\ L[0].frame > FirstClean + 1 =>
                    received # <<>> /\ Last(received) = sent[L[0].frame - 1]
      <4>1. Expects(L[0])'
        BY <2>1, <3>5, ExpectsStill
      <4>2. L[0].frame > FirstClean + 1 => sent'[L[0].frame - 1] = sent[L[0].frame - 1]
        <5>1. L[0].frame \in 1..(Len(sent) + 1)
          BY <3>5 DEF Expects
        <5>2. ASSUME L[0].frame > FirstClean + 1 PROVE L[0].frame - 1 \in 1..Len(sent)
          BY <1>0, <5>1, <5>2
        <5> QED
          BY <2>2, <5>2
      <4>3. Rejoins(k, L[0])'
        BY <2>1, <2>2, <3>5, <4>1, <4>2 DEF Rejoins
      <4> QED
        BY <3>2, <4>3
    <3> QED
      BY <3>1, <3>3, <3>4, <3>5 DEF Rejoins
  <2>4. CASE clean = 0
    <3> DEFINE L == [i \in 0..0 |-> Start(Len(sent) + 1)]
    <3>1. Labelled(sent, Stream, Len(Stream), L)
      <4>1. Start(Len(sent) + 1) \in Places
        BY <1>0, LinkAssumption DEF Start, Places
      <4>2. Len(Stream) \in Nat /\ Len(Stream) - Len(Stream) = 0
        BY <1>0
      <4> QED
        BY <4>1, <4>2 DEF Labelled
    <3>2. Plain(Stream, Len(Stream), L)
      <4>1. Len(Stream) \in Nat
        BY <1>0
      <4> QED
        BY <4>1 DEF Plain
    <3>3. L[0] = Start(Len(sent) + 1)
      OBVIOUS
    <3> HIDE DEF L
    <3>4. PICK M : /\ Labelled(sent', Stream', Len(Stream), M) /\ Plain(Stream', Len(Stream), M)
                   /\ M[0] = L[0]
      BY <1>0, <2>1, <3>1, <3>2, SendLabels
    <3>5. FirstClean = Len(sent) + 1
      BY <1>0, <2>4 DEF FirstClean
    <3> QED
      BY <2>2, <3>3, <3>4, <3>5 DEF Rejoins
  <2> QED
    BY <1>0, <2>3, <2>4
<1>3. CASE Stream' = Stream /\ UNCHANGED <<pc, buf, sent, received, clean>>
  <2>1. PICK k, L : Labelled(sent, Stream, k, L) /\ Plain(Stream, k, L) /\ Rejoins(k, L[0])
    BY <1>3 DEF Resyncs
  <2>2. Rejoins(k, L[0])'
    BY <1>3, <2>1 DEF Rejoins, Recovers, Expects, FirstClean
  <2> QED
    BY <1>3, <2>1, <2>2
<1>4. CASE Put
  BY <1>3, <1>4, StreamMoves DEF Put, Stream
<1>5. CASE Damage \/ ShellExits
  BY <1>5 DEF Damage, ShellExits
<1>6. CASE Done \/ UNCHANGED vars
  BY <1>3, <1>6 DEF Done, vars, Stream
<1> QED
  BY <1>1, <1>2, <1>4, <1>5, <1>6 DEF Next

-----------------------------------------------------------------------------
LEMMA StepIInv == IInv /\ [Next]_vars => IInv'
  BY TypeStep, ExactStep, ResyncStep DEF IInv

LEMMA Invariance == Spec => []IInv
<1> QED
  BY InitIInv, StepIInv, PTL DEF Spec

(* The variables keep their types: the receiver stores no byte past the payload it
   fills (recv_systemstatus), whatever the line delivers. *)
THEOREM TypeCorrect == Spec => []TypeOK
<1>1. IInv => TypeOK
  BY DEF IInv
<1> QED
  BY <1>1, Invariance, PTL

(* On an undamaged line recv_systemstatus hands on exactly the payloads that
   m2serial_send_buffer was given, in their order, and no frame opens the shell. *)
THEOREM ExactUntilDamage == Spec => []ExactUntilDamaged
<1>1. IInv => ExactUntilDamaged
  <2> SUFFICES ASSUME IInv, damage = 0 PROVE IsPrefix(received, sent) /\ pc # "shell"
    BY DEF ExactUntilDamaged
  <2>1. PICK L : /\ Expects(L[0]) /\ L[0].frame = Len(received) + 1
                 /\ \A i \in 1..Len(received) : received[i] = sent[i]
    BY DEF IInv, Exact
  <2>2. /\ Len(received) \in Nat /\ Len(sent) \in Nat
        /\ received \in Seq(Seq(Bytes)) /\ sent \in Seq(Payloads)
    BY DEF IInv, TypeOK
  <2>3. Len(received) <= Len(sent) /\ pc # "shell"
    BY <2>1, <2>2 DEF Expects
  <2>4. SubSeq(received, 1, Len(received)) = SubSeq(sent, 1, Len(received))
    BY <2>1, <2>2, <2>3
  <2> QED
    BY <2>2, <2>3, <2>4 DEF IsPrefix
<1> QED
  BY <1>1, Invariance, PTL

(* Damage costs at most the frame it hits and the one after it: when two frames have been
   sent since, neither with a flag behind its first byte, the receiver has the last of them,
   wherever recv_systemstatus was when the first of them came. *)
THEOREM Resynchronises == Spec => []ResyncsAfterOneFrame
<1>1. IInv => ResyncsAfterOneFrame
  <2> SUFFICES ASSUME IInv, Quiet, clean >= 2, pc # "shell"
               PROVE  /\ pc = "start"
                      /\ received # <<>> /\ Last(received) = Last(sent)
    BY DEF ResyncsAfterOneFrame
  <2>1. /\ Len(sent) \in Nat /\ clean \in 0..Len(sent) /\ sent \in Seq(Payloads)
        /\ PayloadSize \in Nat
    BY LinkAssumption DEF IInv, TypeOK
  <2>2. Stream = <<>> /\ Len(Stream) = 0
    BY DEF Quiet, Stream
  <2>3. PICK k, L : Labelled(sent, Stream, k, L) /\ Rejoins(k, L[0])
    BY <2>1 DEF IInv, Resyncs
  <2>4. L[0] = Start(Len(sent) + 1)
    BY <2>2, <2>3 DEF Labelled
  <2>5. /\ L[0].frame = Len(sent) + 1 /\ L[0].place = 0 /\ L[0].frame > FirstClean + 1
        /\ L[0] # Start(FirstClean) /\ Start(FirstClean).frame = FirstClean
    BY <2>1, <2>4 DEF Start, FirstClean
  <2>6. /\ Expects(L[0])
        /\ received # <<>> /\ Last(received) = sent[L[0].frame - 1]
    BY <2>3, <2>5 DEF Rejoins, Recovers
  <2>7. pc = "start"
    BY <2>1, <2>5, <2>6 DEF Expects
  <2>8. Last(sent) = sent[Len(sent)] /\ L[0].frame - 1 = Len(sent)
    BY <2>1, <2>5 DEF Last
  <2> QED
    BY <2>6, <2>7, <2>8
<1> QED
  BY <1>1, Invariance, PTL
=============================================================================
