-------------------------- MODULE DataloggingProofs --------------------------
(* Proofs about Datalogging, for any set of sources, any pool, cache and card. *)
EXTENDS Datalogging, FiniteSetTheorems, TLAPS

USE LoggerAssumption DEF LoggerAssumption

(* Queues of items that are all different. *)
In(q, i) == \E n \in 1..Len(q) : q[n] = i
Inj(q) == \A m, n \in 1..Len(q) : q[m] = q[n] => m = n

LEMMA TailOf ==
  ASSUME NEW S, NEW q \in Seq(S), q # <<>>, Inj(q)
  PROVE  /\ Head(q) \in S /\ In(q, Head(q))
         /\ Tail(q) \in Seq(S) /\ Inj(Tail(q))
         /\ \A i : In(Tail(q), i) <=> In(q, i) /\ i # Head(q)
  <1>1. /\ Tail(q) \in Seq(S) /\ Head(q) = q[1] /\ Head(q) \in S
        /\ Len(q) \in Nat /\ Len(q) >= 1 /\ Len(Tail(q)) = Len(q) - 1
        /\ \A n \in 1..Len(Tail(q)) : Tail(q)[n] = q[n + 1]
    OBVIOUS
  <1>2. Inj(Tail(q))
    BY <1>1 DEF Inj
  <1>3. ASSUME NEW i, In(Tail(q), i) PROVE In(q, i) /\ i # Head(q)
    BY <1>1, <1>3 DEF In, Inj
  <1>4. ASSUME NEW i, In(q, i), i # Head(q) PROVE In(Tail(q), i)
    <2>1. PICK n \in 1..Len(q) : q[n] = i
      BY <1>4 DEF In
    <2>2. n - 1 \in 1..Len(Tail(q)) /\ Tail(q)[n - 1] = i
      BY <2>1, <1>1, <1>4
    <2> QED BY <2>2 DEF In
  <1>5. In(q, Head(q))
    BY <1>1 DEF In
  <1> QED BY <1>1, <1>2, <1>3, <1>4, <1>5

LEMMA AppendOf ==
  ASSUME NEW S, NEW q \in Seq(S), NEW x \in S, Inj(q), ~In(q, x)
  PROVE  /\ Append(q, x) \in Seq(S) /\ Inj(Append(q, x))
         /\ \A i : In(Append(q, x), i) <=> In(q, i) \/ i = x
  <1> DEFINE r == Append(q, x)
  <1>1. /\ r \in Seq(S) /\ Len(q) \in Nat /\ Len(r) = Len(q) + 1
        /\ r[Len(q) + 1] = x /\ \A n \in 1..Len(q) : r[n] = q[n]
    OBVIOUS
  <1> HIDE DEF r
  <1>2. Inj(r)
    BY <1>1 DEF Inj, In
  <1>3. \A i : In(r, i) <=> In(q, i) \/ i = x
    BY <1>1 DEF In
  <1> QED BY <1>1, <1>2, <1>3 DEF r

LEMMA ConsOf ==
  ASSUME NEW S, NEW q \in Seq(S), NEW x \in S, Inj(q), ~In(q, x)
  PROVE  /\ <<x>> \o q \in Seq(S) /\ Inj(<<x>> \o q)
         /\ \A i : In(<<x>> \o q, i) <=> In(q, i) \/ i = x
  <1> DEFINE r == <<x>> \o q
  <1>1. /\ r \in Seq(S) /\ Len(q) \in Nat /\ Len(r) = Len(q) + 1
        /\ r[1] = x /\ \A n \in 1..Len(q) : r[n + 1] = q[n]
    OBVIOUS
  <1> HIDE DEF r
  <1>2. \A n \in 1..Len(r) : n = 1 \/ (n - 1 \in 1..Len(q) /\ r[n] = q[n - 1])
    <2> TAKE n \in 1..Len(r)
    <2>1. CASE n # 1
      <3>1. n - 1 \in 1..Len(q) /\ (n - 1) + 1 = n
        BY <1>1, <2>1
      <3>2. r[(n - 1) + 1] = q[n - 1]
        BY <1>1, <3>1
      <3> QED BY <3>1, <3>2
    <2> QED BY <2>1
  <1>3. Inj(r)
    <2> SUFFICES ASSUME NEW m \in 1..Len(r), NEW n \in 1..Len(r), r[m] = r[n] PROVE m = n
      BY DEF Inj
    <2>1. ASSUME NEW j \in 1..Len(r), j # 1 PROVE j - 1 \in 1..Len(q) /\ r[j] # x
      BY <1>1, <1>2, <2>1 DEF In
    <2>2. CASE m # 1 /\ n # 1
      <3>1. q[m - 1] = q[n - 1] /\ m - 1 \in 1..Len(q) /\ n - 1 \in 1..Len(q)
        BY <1>2, <2>1, <2>2
      <3>2. m - 1 = n - 1
        BY <3>1 DEF Inj
      <3> QED BY <3>2
    <2> QED BY <1>1, <2>1, <2>2
  <1>4. ASSUME NEW i, In(q, i) PROVE In(r, i)
    <2>1. PICK n \in 1..Len(q) : q[n] = i
      BY <1>4 DEF In
    <2>2. n + 1 \in 1..Len(r) /\ r[n + 1] = i
      BY <2>1, <1>1
    <2> QED BY <2>2 DEF In
  <1>5. ASSUME NEW i, In(r, i) PROVE In(q, i) \/ i = x
    BY <1>1, <1>2, <1>5 DEF In
  <1>6. In(r, x)
    BY <1>1 DEF In
  <1> QED BY <1>1, <1>3, <1>4, <1>5, <1>6 DEF r

LEMMA AppendType ==
  ASSUME NEW S, NEW q \in Seq(S), NEW x \in S
  PROVE  /\ Append(q, x) \in Seq(S) /\ Append(q, x) # <<>>
         /\ Len(q) \in Nat /\ Len(Append(q, x)) = Len(q) + 1
         /\ Append(q, x)[Len(q) + 1] = x
         /\ \A n \in 1..Len(q) : Append(q, x)[n] = q[n]
  <1>1. Append(q, x) \in Seq(S) /\ Len(Append(q, x)) = Len(q) + 1 /\ Len(q) \in Nat
    OBVIOUS
  <1>2. Append(q, x) # <<>>
    BY <1>1
  <1> QED BY <1>1, <1>2

LEMMA CountOf ==
  ASSUME NEW S, NEW q \in Seq(S), Inj(q), NEW i
  PROVE  Cardinality({n \in DOMAIN q : q[n] = i}) = IF In(q, i) THEN 1 ELSE 0
  <1>0. DOMAIN q = 1..Len(q)
    OBVIOUS
  <1>1. CASE In(q, i)
    <2>1. PICK n \in 1..Len(q) : q[n] = i
      BY <1>1 DEF In
    <2>2. {m \in DOMAIN q : q[m] = i} = {n}
      BY <2>1, <1>0 DEF Inj
    <2> QED BY <1>1, <2>2, FS_Singleton
  <1>2. CASE ~In(q, i)
    <2>1. {m \in DOMAIN q : q[m] = i} = {}
      BY <1>2, <1>0 DEF In
    <2> QED BY <1>2, <2>1, FS_EmptySet
  <1> QED BY <1>1, <1>2

-----------------------------------------------------------------------------
(* The states in which this boot has an open file. *)
Active == {"location", "version", "fetch", "write"}

(* TypeOK alone does not say that the cache has room when a packet is fetched: it is
   empty until the header is written, and full while a write is repeated. *)
TypeInv ==
  /\ TypeOK
  /\ open = 0 => cache = <<>> /\ pc \in {"connect", "open", "location", "version"}
  /\ pc \in {"location", "version"} => open = 0
  /\ pc = "fetch" => Len(cache) < CacheSize
  /\ pc \in Active => files # <<>>

LEMMA FullPoolType == FullPool \in Seq(Items) /\ Len(FullPool) = PoolItems
  <1>1. \A n \in 1..PoolItems : PoolItems + 1 - n \in Items
    BY DEF Items
  <1> QED BY <1>1 DEF FullPool, Items

LEMMA TypeInvInit == Init => TypeInv
  <1> SUFFICES ASSUME Init PROVE TypeInv
    OBVIOUS
  <1>1. free \in Seq(Items)
    BY FullPoolType DEF Init
  <1>2. mem \in [Items -> Packets] /\ held \in [Sources -> Items \union {None}]
    BY DEF Init, Zeroed, Packets
  <1>3. /\ mailbox = <<>> /\ cache = <<>> /\ files = <<>>
        /\ pc = "connect" /\ status = "WAIT" /\ open = 0 /\ short = 0
        /\ unsynced = <<>> /\ unconfirmed = {} /\ accepted = {} /\ faults = 0
    BY DEF Init
  <1>4. mailbox \in Seq(Items) /\ cache \in Seq(Packets) /\ files \in Seq(Seq(Packets))
        /\ unsynced \in Seq(Packets) /\ Len(cache) = 0
    BY <1>3
  <1>5. logged \in [Sources \union {"logger"} -> Nat]
    BY DEF Init
  <1> QED BY <1>1, <1>2, <1>3, <1>4, <1>5 DEF TypeInv, TypeOK, Active

LEMMA Concat ==
  ASSUME NEW q \in Seq(Packets), NEW r \in Seq(Packets)
  PROVE  /\ Len(q) \in Nat /\ Len(r) \in Nat
         /\ q \o r \in Seq(Packets) /\ Len(q \o r) = Len(q) + Len(r)
         /\ \A m \in 1..Len(q) : (q \o r)[m] = q[m]
         /\ \A m \in 1..Len(r) : (q \o r)[Len(q) + m] = r[m]
  OBVIOUS

LEMMA ConcatIn ==
  ASSUME NEW q \in Seq(Packets), NEW r \in Seq(Packets)
  PROVE  \A f : In(q \o r, f) <=> In(q, f) \/ In(r, f)
  <1> DEFINE s == q \o r
  <1>1. /\ Len(q) \in Nat /\ Len(r) \in Nat /\ Len(s) = Len(q) + Len(r)
        /\ \A m \in 1..Len(q) : s[m] = q[m]
        /\ \A m \in 1..Len(r) : s[Len(q) + m] = r[m]
    BY Concat
  <1> HIDE DEF s
  <1>2. ASSUME NEW n \in 1..Len(s), n \notin 1..Len(q)
        PROVE  n - Len(q) \in 1..Len(r) /\ s[n] = r[n - Len(q)]
    <2>1. n - Len(q) \in 1..Len(r) /\ Len(q) + (n - Len(q)) = n
      BY <1>1, <1>2
    <2>2. s[Len(q) + (n - Len(q))] = r[n - Len(q)]
      BY <2>1, <1>1
    <2> QED BY <2>1, <2>2
  <1>3. \A f : In(s, f) => In(q, f) \/ In(r, f)
    BY <1>1, <1>2 DEF In
  <1>4. ASSUME NEW f, In(q, f) PROVE In(s, f)
    <2>1. PICK m \in 1..Len(q) : q[m] = f
      BY <1>4 DEF In
    <2>2. m \in 1..Len(s) /\ s[m] = f
      BY <2>1, <1>1
    <2> QED BY <2>2 DEF In
  <1>5. ASSUME NEW f, In(r, f) PROVE In(s, f)
    <2>1. PICK m \in 1..Len(r) : r[m] = f
      BY <1>5 DEF In
    <2>2. Len(q) + m \in 1..Len(s) /\ s[Len(q) + m] = f
      BY <2>1, <1>1
    <2> QED BY <2>2 DEF In
  <1> QED BY <1>3, <1>4, <1>5 DEF s

(* The part of the cache that a write puts on the card. *)
LEMMA PartType ==
  ASSUME cache \in Seq(Packets), NEW n \in 0..Len(cache)
  PROVE  /\ SubSeq(cache, 1, n) \in Seq(Packets) /\ Len(SubSeq(cache, 1, n)) = n
         /\ \A m \in 1..n : SubSeq(cache, 1, n)[m] = cache[m]
         /\ \A f : In(SubSeq(cache, 1, n), f) => In(cache, f)
         /\ n = Len(cache) => \A f : In(cache, f) => In(SubSeq(cache, 1, n), f)
  <1> DEFINE part == SubSeq(cache, 1, n)
  <1>1. part \in Seq(Packets) /\ Len(part) = n /\ \A m \in 1..n : part[m] = cache[m]
    OBVIOUS
  <1>2. Len(cache) \in Nat
    OBVIOUS
  <1> HIDE DEF part
  <1>3. (\A f : In(part, f) => In(cache, f))
        /\ (n = Len(cache) => \A f : In(cache, f) => In(part, f))
    BY <1>1, <1>2 DEF In
  <1> QED BY <1>1, <1>3 DEF part

(* A commit appends what was not synced and a part of the cache to the last file. *)
LEMMA StoreType ==
  ASSUME files \in Seq(Seq(Packets)), cache \in Seq(Packets), unsynced \in Seq(Packets),
         files # <<>>, NEW n \in 0..Len(cache), Store(n)
  PROVE  /\ files' \in Seq(Seq(Packets)) /\ Len(files') = Len(files)
         /\ Len(files) \in Nat \ {0} /\ files[Len(files)] \in Seq(Packets)
         /\ files[Len(files)] \o unsynced \in Seq(Packets)
         /\ files'[Len(files)] = (files[Len(files)] \o unsynced) \o SubSeq(cache, 1, n)
         /\ \A k \in 1..Len(files) : k # Len(files) => files'[k] = files[k]
  <1> DEFINE more == (files[Len(files)] \o unsynced) \o SubSeq(cache, 1, n)
  <1>1. SubSeq(cache, 1, n) \in Seq(Packets)
    BY PartType
  <1>2. Len(files) \in Nat \ {0} /\ files[Len(files)] \in Seq(Packets)
    OBVIOUS
  <1>3. files[Len(files)] \o unsynced \in Seq(Packets) /\ more \in Seq(Packets)
    BY <1>1, <1>2, Concat
  <1>4. files' = [files EXCEPT ![Len(files)] = more]
    BY DEF Store
  <1> HIDE DEF more
  <1>5. files' \in Seq(Seq(Packets)) /\ Len(files') = Len(files)
    BY <1>2, <1>3, <1>4
  <1>6. files'[Len(files)] = more /\ \A k \in 1..Len(files) : k # Len(files) => files'[k] = files[k]
    <2>1. DOMAIN files = 1..Len(files) /\ Len(files) \in 1..Len(files)
      BY <1>2
    <2> QED BY <2>1, <1>4
  <1> QED BY <1>2, <1>3, <1>5, <1>6 DEF more

(* The three things that happen to the card when the cache is written. *)
Discard == unsynced' = <<>> /\ UNCHANGED <<files, unconfirmed>>

LEMMA CardSteps ==
  ASSUME Write \/ WriteFails
  PROVE  /\ pc = "write"
         /\ \/ \E n \in 0..Len(cache) : Store(n) \/ (Buffer(n) /\ Write)
            \/ Discard /\ WriteFails
  BY DEF Write, WriteFails, CloseFile, Discard

LEMMA CardStepType ==
  ASSUME files \in Seq(Seq(Packets)), cache \in Seq(Packets), unsynced \in Seq(Packets),
         unconfirmed \subseteq Packets, files # <<>>, Write \/ WriteFails
  PROVE  /\ files' \in Seq(Seq(Packets)) /\ files' # <<>>
         /\ unsynced' \in Seq(Packets) /\ unconfirmed' \subseteq Packets
  <1>0. <<>> \in Seq(Packets)
    OBVIOUS
  <1>1. ASSUME NEW n \in 0..Len(cache), Store(n)
        PROVE  /\ files' \in Seq(Seq(Packets)) /\ files' # <<>>
               /\ unsynced' \in Seq(Packets) /\ unconfirmed' \subseteq Packets
    <2>1. files' \in Seq(Seq(Packets)) /\ Len(files') = Len(files) /\ Len(files) \in Nat \ {0}
      BY <1>1, StoreType
    <2>2. files' # <<>>
      BY <2>1
    <2>3. unsynced' = <<>> /\ unconfirmed' \subseteq unconfirmed
      BY <1>1 DEF Store
    <2> QED BY <1>0, <2>1, <2>2, <2>3, Zenon
  <1>2. ASSUME NEW n \in 0..Len(cache), Buffer(n)
        PROVE  /\ files' \in Seq(Seq(Packets)) /\ files' # <<>>
               /\ unsynced' \in Seq(Packets) /\ unconfirmed' \subseteq Packets
    <2>1. SubSeq(cache, 1, n) \in Seq(Packets) /\ ToSet(SubSeq(cache, 1, n)) \subseteq Packets
      <3>1. SubSeq(cache, 1, n) \in Seq(Packets)
        BY PartType
      <3> HIDE DEF Packets
      <3>2. \A q \in Seq(Packets) : ToSet(q) \subseteq Packets
        BY DEF ToSet
      <3> QED BY <3>1, <3>2
    <2>2. /\ unsynced' = unsynced \o SubSeq(cache, 1, n) /\ files' = files
          /\ unconfirmed' = unconfirmed \union ToSet(SubSeq(cache, 1, n))
      BY <1>2 DEF Buffer
    <2>3. unsynced' \in Seq(Packets)
      BY <2>1, <2>2, Concat
    <2> QED BY <2>1, <2>2, <2>3, Zenon
  <1>3. CASE Discard
    BY <1>0, <1>3, Zenon DEF Discard
  <1> QED BY <1>1, <1>2, <1>3, CardSteps

LEMMA OnCardType ==
  files \in Seq(Seq(Packets)) =>
    /\ OnCard \subseteq Packets
    /\ \A f : f \in OnCard <=> \E k \in 1..Len(files) : \E m \in 1..Len(files[k]) : files[k][m] = f
  <1> SUFFICES ASSUME files \in Seq(Seq(Packets))
               PROVE  /\ OnCard \subseteq Packets
                      /\ \A f : f \in OnCard <=>
                           \E k \in 1..Len(files) : \E m \in 1..Len(files[k]) : files[k][m] = f
    OBVIOUS
  <1>1. DOMAIN files = 1..Len(files)
        /\ \A k \in 1..Len(files) : files[k] \in Seq(Packets) /\ DOMAIN files[k] = 1..Len(files[k])
    OBVIOUS
  <1>2. \A f : f \in OnCard <=> \E k \in 1..Len(files) : \E m \in 1..Len(files[k]) : files[k][m] = f
    <2>1. \A f : f \in OnCard <=> \E k \in DOMAIN files : f \in ToSet(files[k])
      BY Zenon DEF OnCard
    <2>2. \A k \in 1..Len(files) : \A f :
            f \in ToSet(files[k]) <=> \E m \in 1..Len(files[k]) : files[k][m] = f
      BY <1>1 DEF ToSet
    <2> QED BY <1>1, <2>1, <2>2
  <1>3. \A k \in 1..Len(files) : \A m \in 1..Len(files[k]) : files[k][m] \in Packets
    BY <1>1
  <1>4. ASSUME NEW f \in OnCard PROVE f \in Packets
    <2>1. PICK k \in 1..Len(files) : \E m \in 1..Len(files[k]) : files[k][m] = f
      BY <1>2, Zenon
    <2>2. PICK m \in 1..Len(files[k]) : files[k][m] = f
      BY <2>1, Zenon
    <2> QED BY <1>3, <2>2, Zenon
  <1>5. OnCard \subseteq Packets
    BY <1>4, Zenon
  <1> QED BY <1>2, <1>5, Zenon

(* A new file is empty. *)
LEMMA NewFile ==
  ASSUME NEW fs \in Seq(Seq(Packets))
  PROVE  /\ Append(fs, <<>>) \in Seq(Seq(Packets)) /\ Append(fs, <<>>) # <<>>
         /\ Len(fs) \in Nat /\ Len(Append(fs, <<>>)) = Len(fs) + 1
         /\ Append(fs, <<>>)[Len(fs) + 1] = <<>>
         /\ \A k \in 1..Len(fs) : Append(fs, <<>>)[k] = fs[k]
  <1> DEFINE S == Seq(Packets)
  <1>1. <<>> \in S /\ fs \in Seq(S)
    OBVIOUS
  <1> HIDE DEF S
  <1>2. /\ Append(fs, <<>>) \in Seq(S) /\ Append(fs, <<>>) # <<>>
        /\ Len(fs) \in Nat /\ Len(Append(fs, <<>>)) = Len(fs) + 1
        /\ Append(fs, <<>>)[Len(fs) + 1] = <<>>
        /\ \A k \in 1..Len(fs) : Append(fs, <<>>)[k] = fs[k]
    BY <1>1, AppendType
  <1> QED BY <1>2 DEF S

LEMMA TypeInvStep == TypeInv /\ [Next]_vars => TypeInv'
  <1> SUFFICES ASSUME TypeInv, [Next]_vars PROVE TypeInv'
    OBVIOUS
  <1> USE DEF TypeInv, TypeOK, Active, card
  <1>f. ASSUME free # <<>> PROVE Head(free) \in Items /\ Tail(free) \in Seq(Items)
    BY <1>f
  <1>m. ASSUME mailbox # <<>> PROVE Head(mailbox) \in Items /\ Tail(mailbox) \in Seq(Items)
    BY <1>m
  <1>i. \A i \in Items : /\ <<i>> \o free \in Seq(Items)
                         /\ Append(mailbox, i) \in Seq(Items)
    OBVIOUS
  <1>1. ASSUME NEW s \in Sources, Alloc(s) PROVE TypeInv'
    <2>1. logged' \in [Sources \union {"logger"} -> Nat]
      BY <1>1 DEF Alloc
    <2>2. <<s, logged[s] + 1>> \in Packets
      BY DEF Packets
    <2>3. free' \in Seq(Items) /\ mem' \in [Items -> Packets]
          /\ held' \in [Sources -> Items \union {None}]
      BY <1>1, <1>f, <2>2 DEF Alloc
    <2> QED BY <1>1, <2>1, <2>3 DEF Alloc
  <1>2. ASSUME NEW s \in Sources, Post(s) PROVE TypeInv'
    <2>1. held[s] \in Items
      BY <1>2 DEF Post
    <2>2. held' \in [Sources -> Items \union {None}]
      BY <1>2 DEF Post
    <2>4. mem' = mem /\ mem[held[s]] \in Packets /\ MBPost(held[s])
      BY <1>2, <2>1 DEF Post
    <2>3. free' \in Seq(Items) /\ mailbox' \in Seq(Items) /\ accepted' \subseteq Packets
      <3>1. CASE Len(mailbox) < PoolItems
        BY <1>i, <2>1, <2>4, <3>1 DEF MBPost
      <3>2. CASE ~(Len(mailbox) < PoolItems)
        BY <1>i, <2>1, <2>4, <3>2 DEF MBPost
      <3> QED BY <3>1, <3>2
    <2> QED BY <1>2, <2>2, <2>3 DEF Post
  <1>3. CASE Connect \/ OpenFails
    BY <1>3 DEF Connect, OpenFails
  <1>4. CASE Open
    <2>1. files' \in Seq(Seq(Packets)) /\ files' # <<>>
      <3>1. files \in Seq(Seq(Packets))
        OBVIOUS
      <3>2. files' = Append(files, <<>>)
        BY <1>4 DEF Open
      <3> QED BY <3>1, <3>2, NewFile, Zenon
    <2> QED BY <1>4, <2>1 DEF Open
  <1>5. CASE Header
    <2>1. logged' \in [Sources \union {"logger"} -> Nat] /\ logged'["logger"] \in Nat
      BY <1>5 DEF Header
    <2>2. <<"logger", logged'["logger"]>> \in Packets
      BY <2>1 DEF Packets
    <2>3. free' \in Seq(Items) /\ mem' \in [Items -> Packets] /\ mailbox' \in Seq(Items)
      BY <1>5, <1>f, <1>i, <2>2 DEF Header
    <2>4. accepted' \subseteq Packets
      BY <1>5, <1>f, <2>3 DEF Header
    <2>5. CASE pc = "location"
      BY <1>5, <2>1, <2>3, <2>4, <2>5 DEF Header
    <2>6. CASE pc = "version"
      BY <1>5, <2>1, <2>3, <2>4, <2>6 DEF Header
    <2> QED BY <1>5, <2>5, <2>6 DEF Header
  <1>6. CASE Fetch
    <2>1. mem[Head(mailbox)] \in Packets
      BY <1>6, <1>m DEF Fetch
    <2>2. cache' \in Seq(Packets) /\ Len(cache') = Len(cache) + 1 /\ Len(cache) \in Nat
      BY <1>6, <2>1 DEF Fetch
    <2>3. mailbox' \in Seq(Items) /\ free' \in Seq(Items)
      BY <1>6, <1>m, <1>i DEF Fetch
    <2>4. pc' = (IF Len(cache) + 1 = CacheSize THEN "write" ELSE "fetch") /\ pc = "fetch"
      BY <1>6 DEF Fetch
    <2> QED BY <1>6, <2>2, <2>3, <2>4 DEF Fetch
  <1>7. CASE Write \/ WriteFails
    <2>1. /\ files' \in Seq(Seq(Packets)) /\ files' # <<>>
          /\ unsynced' \in Seq(Packets) /\ unconfirmed' \subseteq Packets
      BY <1>7, CardSteps, CardStepType
    <2>2. faults' \in 0..MaxFaults
      <3>1. faults' = faults \/ (faults < MaxFaults /\ faults' = faults + 1)
        BY <1>7 DEF Write, WriteFails
      <3> QED BY <3>1
    <2>3. short' \in {0, 1}
      BY <1>7 DEF Write, WriteFails
    <2>4. CASE Write
      <3>1. cache' \in Seq(Packets) /\ Len(cache') = 0
        BY <2>4 DEF Write
      <3> QED BY <2>1, <2>2, <2>3, <2>4, <3>1 DEF Write
    <2>5. CASE WriteFails
      BY <2>1, <2>2, <2>5 DEF WriteFails
    <2> QED BY <1>7, <2>4, <2>5
  <1>8. CASE PowerCycle
    <2>1. free' \in Seq(Items) /\ mem' \in [Items -> Packets]
          /\ held' \in [Sources -> Items \union {None}]
      BY <1>8, FullPoolType DEF PowerCycle, Zeroed, Packets
    <2>2. mailbox' \in Seq(Items) /\ cache' \in Seq(Packets) /\ Len(cache') = 0
          /\ unsynced' \in Seq(Packets)
      BY <1>8 DEF PowerCycle
    <2>3. accepted' \subseteq Packets
      BY <1>8, OnCardType DEF PowerCycle
    <2> QED BY <1>8, <2>1, <2>2, <2>3 DEF PowerCycle
  <1>9. CASE ConnectFails \/ AllLogged \/ UNCHANGED vars
    BY <1>9 DEF ConnectFails, AllLogged, vars
  <1> HIDE DEF TypeInv, card
  <1> QED
    BY <1>1, <1>2, <1>3, <1>4, <1>5, <1>6, <1>7, <1>8, <1>9 DEF Next, Logger

(* The variables keep their types, the cache never holding more than fits. *)
THEOREM TypeCorrect == Spec => []TypeOK
  <1>1. TypeInv => TypeOK
    BY DEF TypeInv
  <1> QED BY <1>1, TypeInvInit, TypeInvStep, PTL DEF Spec

-----------------------------------------------------------------------------
(* The pool, item by item: each is in one place and there once. *)
HeldBy(i) == \E s \in Sources : held[s] = i

OnePlace(i) ==
  /\ In(free, i) \/ In(mailbox, i) \/ HeldBy(i)
  /\ ~(In(free, i) /\ In(mailbox, i))
  /\ ~(In(free, i) /\ HeldBy(i)) /\ ~(In(mailbox, i) /\ HeldBy(i))

PoolInv ==
  /\ Inj(free) /\ Inj(mailbox)
  /\ \A s, t \in Sources : held[s] = held[t] /\ held[s] # None => s = t
  /\ \A i \in Items : OnePlace(i)

LEMMA FullPoolHasAll == Inj(FullPool) /\ \A i \in Items : In(FullPool, i)
  <1>1. Len(FullPool) = PoolItems /\ \A n \in 1..PoolItems : FullPool[n] = PoolItems + 1 - n
    BY FullPoolType DEF FullPool, Items
  <1>2. Inj(FullPool)
    BY <1>1 DEF Inj
  <1>3. ASSUME NEW i \in Items PROVE In(FullPool, i)
    <2>1. PoolItems + 1 - i \in 1..PoolItems /\ PoolItems + 1 - (PoolItems + 1 - i) = i
      BY DEF Items
    <2> QED BY <1>1, <2>1 DEF In
  <1> QED BY <1>2, <1>3

LEMMA PoolInvInit == Init => PoolInv
  <1> SUFFICES ASSUME Init PROVE PoolInv
    OBVIOUS
  <1>1. Inj(mailbox) /\ \A i : ~In(mailbox, i)
    BY DEF Init, Inj, In
  <1>2. \A i \in Items : ~HeldBy(i)
    BY DEF Init, HeldBy, Items, None
  <1> QED BY <1>1, <1>2, FullPoolHasAll DEF Init, PoolInv, OnePlace

LEMMA PoolInvStep == TypeInv /\ PoolInv /\ [Next]_vars => PoolInv'
  <1> SUFFICES ASSUME TypeInv, PoolInv, [Next]_vars PROVE PoolInv'
    OBVIOUS
  <1>t. /\ free \in Seq(Items) /\ mailbox \in Seq(Items)
        /\ held \in [Sources -> Items \union {None}] /\ None \notin Items
    BY DEF TypeInv, TypeOK, Items, None
  <1>0. ASSUME UNCHANGED <<free, mailbox, held>> PROVE PoolInv'
    BY <1>0 DEF PoolInv, OnePlace, HeldBy
  <1>p. /\ Inj(free) /\ Inj(mailbox)
        /\ \A s, t \in Sources : held[s] = held[t] /\ held[s] # None => s = t
        /\ \A i \in Items : OnePlace(i)
    BY DEF PoolInv
  <1>f. ASSUME free # <<>>
        PROVE  /\ Head(free) \in Items /\ In(free, Head(free))
               /\ Inj(Tail(free)) /\ \A i : In(Tail(free), i) <=> In(free, i) /\ i # Head(free)
    BY <1>f, <1>t, <1>p, TailOf
  <1>1. ASSUME NEW s \in Sources, Alloc(s) PROVE PoolInv'
    <2>0. mailbox' = mailbox /\ held[s] = None
      BY <1>1 DEF Alloc
    <2>1. CASE free = <<>>
      BY <1>0, <1>1, <2>1 DEF Alloc
    <2>2. CASE free # <<>>
      <3>1. free' = Tail(free) /\ held' = [held EXCEPT ![s] = Head(free)]
        BY <1>1, <2>2 DEF Alloc
      <3> DEFINE h == Head(free)
      <3>2. h \in Items /\ In(free, h) /\ ~HeldBy(h) /\ ~In(mailbox, h)
        BY <1>f, <2>2, <1>p DEF OnePlace
      <3>3. \A i \in Items : HeldBy(i)' <=> HeldBy(i) \/ i = h
        BY <3>1, <2>0, <1>t DEF HeldBy
      <3>4. \A i : In(free', i) <=> In(free, i) /\ i # h
        BY <3>1, <1>f, <2>2
      <3>5. \A i \in Items : OnePlace(i)'
        BY <3>2, <3>3, <3>4, <2>0, <1>p DEF OnePlace
      <3>6. \A u, v \in Sources : held'[u] = held'[v] /\ held'[u] # None => u = v
        BY <3>1, <3>2, <1>t, <1>p DEF HeldBy
      <3>7. Inj(free')
        BY <3>1, <1>f, <2>2
      <3> QED BY <3>5, <3>6, <3>7, <2>0, <1>p DEF PoolInv
    <2> QED BY <2>1, <2>2
  <1>2. ASSUME NEW s \in Sources, Post(s) PROVE PoolInv'
    <2> DEFINE h == held[s]
    <2>0. held' = [held EXCEPT ![s] = None] /\ MBPost(h) /\ h \in Items
      BY <1>2, <1>t DEF Post
    <2>1. HeldBy(h) /\ ~In(free, h) /\ ~In(mailbox, h)
      BY <2>0, <1>p DEF HeldBy, OnePlace
    <2>2. \A i \in Items : HeldBy(i)' <=> HeldBy(i) /\ i # h
      BY <2>0, <1>t, <1>p DEF HeldBy
    <2>3. \A u, v \in Sources : held'[u] = held'[v] /\ held'[u] # None => u = v
      BY <2>0, <1>t, <1>p
    <2>4. CASE Len(mailbox) < PoolItems
      <3>1. mailbox' = Append(mailbox, h) /\ free' = free
        BY <2>0, <2>4 DEF MBPost
      <3>2. Inj(mailbox') /\ \A i : In(mailbox', i) <=> In(mailbox, i) \/ i = h
        BY <3>1, <2>0, <2>1, <1>t, <1>p, AppendOf
      <3>3. \A i \in Items : OnePlace(i)'
        BY <3>1, <3>2, <2>1, <2>2, <1>p DEF OnePlace
      <3> QED BY <3>1, <3>2, <3>3, <2>3, <1>p DEF PoolInv
    <2>5. CASE ~(Len(mailbox) < PoolItems)
      <3>1. free' = <<h>> \o free /\ mailbox' = mailbox
        BY <2>0, <2>5 DEF MBPost
      <3>2. Inj(free') /\ \A i : In(free', i) <=> In(free, i) \/ i = h
        BY <3>1, <2>0, <2>1, <1>t, <1>p, ConsOf
      <3>3. \A i \in Items : OnePlace(i)'
        BY <3>1, <3>2, <2>1, <2>2, <1>p DEF OnePlace
      <3> QED BY <3>1, <3>2, <3>3, <2>3, <1>p DEF PoolInv
    <2> QED BY <2>4, <2>5
  <1>3. CASE Header
    <2>0. held' = held
      BY <1>3 DEF Header
    <2>1. CASE free = <<>>
      BY <1>0, <1>3, <2>1 DEF Header
    <2>2. CASE free # <<>>
      <3> DEFINE h == Head(free)
      <3>1. free' = Tail(free) /\ mailbox' = Append(mailbox, h)
        BY <1>3, <2>2 DEF Header
      <3>2. h \in Items /\ In(free, h) /\ ~HeldBy(h) /\ ~In(mailbox, h)
        BY <1>f, <2>2, <1>p DEF OnePlace
      <3>3. Inj(free') /\ \A i : In(free', i) <=> In(free, i) /\ i # h
        BY <3>1, <1>f, <2>2
      <3>4. Inj(mailbox') /\ \A i : In(mailbox', i) <=> In(mailbox, i) \/ i = h
        BY <3>1, <3>2, <1>t, <1>p, AppendOf
      <3>5. \A i : HeldBy(i)' <=> HeldBy(i)
        BY <2>0 DEF HeldBy
      <3>6. \A i \in Items : OnePlace(i)'
        BY <3>2, <3>3, <3>4, <3>5, <1>p DEF OnePlace
      <3> QED BY <3>3, <3>4, <3>6, <2>0, <1>p DEF PoolInv
    <2> QED BY <2>1, <2>2
  <1>4. CASE Fetch
    <2> DEFINE h == Head(mailbox)
    <2>1. held' = held /\ mailbox # <<>> /\ mailbox' = Tail(mailbox) /\ free' = <<h>> \o free
      BY <1>4 DEF Fetch
    <2>2. h \in Items /\ In(mailbox, h)
          /\ Inj(mailbox') /\ \A i : In(mailbox', i) <=> In(mailbox, i) /\ i # h
      BY <2>1, <1>t, <1>p, TailOf
    <2>3. ~In(free, h) /\ ~HeldBy(h)
      BY <2>2, <1>p DEF OnePlace
    <2>4. Inj(free') /\ \A i : In(free', i) <=> In(free, i) \/ i = h
      BY <2>1, <2>2, <2>3, <1>t, <1>p, ConsOf
    <2>5. \A i : HeldBy(i)' <=> HeldBy(i)
      BY <2>1 DEF HeldBy
    <2>6. \A i \in Items : OnePlace(i)'
      BY <2>2, <2>3, <2>4, <2>5, <1>p DEF OnePlace
    <2> QED BY <2>1, <2>2, <2>4, <2>6, <1>p DEF PoolInv
  <1>5. CASE PowerCycle
    <2>1. free' = FullPool /\ mailbox' = <<>> /\ held' = [s \in Sources |-> None]
      BY <1>5 DEF PowerCycle
    <2>2. Inj(mailbox') /\ \A i : ~In(mailbox', i)
      BY <2>1 DEF Inj, In
    <2>3. \A i \in Items : ~HeldBy(i)'
      BY <2>1 DEF HeldBy, Items, None
    <2>4. \A i \in Items : OnePlace(i)'
      BY <2>1, <2>2, <2>3, FullPoolHasAll DEF OnePlace
    <2> QED BY <2>1, <2>2, <2>4, FullPoolHasAll DEF PoolInv
  <1>6. Connect \/ ConnectFails \/ Open \/ OpenFails \/ Write \/ WriteFails \/ AllLogged
        \/ UNCHANGED vars => UNCHANGED <<free, mailbox, held>>
    BY DEF Connect, ConnectFails, Open, OpenFails, Write, WriteFails, AllLogged, vars
  <1> QED
    BY <1>0, <1>1, <1>2, <1>3, <1>4, <1>5, <1>6 DEF Next, Logger

LEMMA PoolInvHolds == Spec => [](TypeInv /\ PoolInv)
  BY PoolInvInit, TypeInvInit, TypeInvStep, PoolInvStep, PTL DEF Spec

(* No item of the pool leaks, is freed twice or is handed to two, however many items,
   sources and failures there are. *)
THEOREM PoolIsConserved == Spec => []PoolConserved
  <1>1. TypeInv /\ PoolInv => PoolConserved
    <2> SUFFICES ASSUME TypeInv, PoolInv, NEW i \in Items
                 PROVE  Cardinality({n \in DOMAIN free : free[n] = i})
                          + Cardinality({s \in Sources : held[s] = i})
                          + Cardinality({n \in DOMAIN mailbox : mailbox[n] = i}) = 1
      BY DEF PoolConserved
    <2>t. free \in Seq(Items) /\ mailbox \in Seq(Items) /\ None \notin Items
      BY DEF TypeInv, TypeOK, Items, None
    <2>1. Cardinality({n \in DOMAIN free : free[n] = i}) = IF In(free, i) THEN 1 ELSE 0
      BY <2>t, CountOf DEF PoolInv
    <2>2. Cardinality({n \in DOMAIN mailbox : mailbox[n] = i}) = IF In(mailbox, i) THEN 1 ELSE 0
      BY <2>t, CountOf DEF PoolInv
    <2>3. Cardinality({s \in Sources : held[s] = i}) = IF HeldBy(i) THEN 1 ELSE 0
      <3>1. CASE HeldBy(i)
        <4>1. PICK s \in Sources : held[s] = i
          BY <3>1 DEF HeldBy
        <4>2. {t \in Sources : held[t] = i} = {s}
          BY <4>1, <2>t DEF PoolInv
        <4> QED BY <3>1, <4>2, FS_Singleton
      <3>2. CASE ~HeldBy(i)
        <4>1. {t \in Sources : held[t] = i} = {}
          BY <3>2 DEF HeldBy
        <4> QED BY <3>2, <4>1, FS_EmptySet
      <3> QED BY <3>1, <3>2
    <2> QED BY <2>1, <2>2, <2>3 DEF PoolInv, OnePlace
  <1> QED BY <1>1, PoolInvHolds, PTL

-----------------------------------------------------------------------------
(* The packets in the mailbox, as a sequence. *)
Mail == [n \in 1..Len(mailbox) |-> mem[mailbox[n]]]

(* An item that is filled is not in the mailbox, so what is there stays as it is. *)
LEMMA MailKept ==
  ASSUME TypeInv, PoolInv, free # <<>>, NEW f, mem' = [mem EXCEPT ![Head(free)] = f]
  PROVE  /\ \A n \in 1..Len(mailbox) : mem'[mailbox[n]] = mem[mailbox[n]]
         /\ \A s \in Sources : held[s] # None => mem'[held[s]] = mem[held[s]]
         /\ mem'[Head(free)] = f /\ Head(free) \in Items
  <1>t. /\ free \in Seq(Items) /\ mailbox \in Seq(Items) /\ mem \in [Items -> Packets]
        /\ held \in [Sources -> Items \union {None}] /\ None \notin Items
    BY DEF TypeInv, TypeOK, Items, None
  <1>1. Head(free) \in Items /\ In(free, Head(free))
    BY <1>t, TailOf DEF PoolInv
  <1>2. ~In(mailbox, Head(free)) /\ ~HeldBy(Head(free))
    BY <1>1 DEF PoolInv, OnePlace
  <1>3. \A n \in 1..Len(mailbox) : mailbox[n] # Head(free) /\ mailbox[n] \in Items
    BY <1>2, <1>t DEF In
  <1>4. \A s \in Sources : held[s] # Head(free)
    BY <1>2 DEF HeldBy
  <1> QED BY <1>1, <1>3, <1>4, <1>t

MailType == Mail \in Seq(Packets) /\ Len(Mail) = Len(mailbox) /\ Len(Mail) \in Nat

LEMMA TypeInvMail == (TypeInv => MailType) /\ (TypeInv' => MailType')
  <1>1. ASSUME TypeInv PROVE MailType
    <2>1. Len(mailbox) \in Nat /\ \A n \in 1..Len(mailbox) : mem[mailbox[n]] \in Packets
      BY <1>1 DEF TypeInv, TypeOK
    <2> QED BY <2>1 DEF MailType, Mail
  <1>2. ASSUME TypeInv' PROVE MailType'
    <2>1. Len(mailbox') \in Nat /\ \A n \in 1..Len(mailbox') : mem'[mailbox'[n]] \in Packets
      BY <1>2 DEF TypeInv, TypeOK
    <2> QED BY <2>1 DEF MailType, Mail
  <1> QED BY <1>1, <1>2

(* What a step does to files, cache and mail, seen from the packets. *)
Keeps == Mail' = Mail
Takes(f) == Mail' = Append(Mail, f)

LEMMA MailAppend ==
  ASSUME TypeInv, MailType', NEW i \in Items, mailbox' = Append(mailbox, i),
         \A n \in 1..Len(mailbox) : mem'[mailbox[n]] = mem[mailbox[n]]
  PROVE  Takes(mem'[i])
  <1>t. mailbox \in Seq(Items) /\ Len(mailbox) \in Nat
    BY DEF TypeInv, TypeOK
  <1>1. /\ Len(mailbox') = Len(mailbox) + 1 /\ mailbox'[Len(mailbox) + 1] = i
        /\ \A n \in 1..Len(mailbox) : mailbox'[n] = mailbox[n]
    BY <1>t
  <1>2. \A n \in 1..Len(mailbox') : Mail'[n] = mem'[mailbox'[n]]
    BY DEF Mail
  <1>m. Len(Mail) = Len(mailbox) /\ Mail \in Seq(Packets) /\ \A n \in 1..Len(mailbox) : Mail[n] = mem[mailbox[n]]
    BY TypeInvMail DEF MailType, Mail
  <1>p. mem'[i] \in Packets
    BY <1>1, <1>2, <1>t DEF MailType
  <1> DEFINE r == Append(Mail, mem'[i])
  <1>3. r \in Seq(Packets) /\ Len(r) = Len(mailbox) + 1 /\ r[Len(mailbox) + 1] = mem'[i]
        /\ \A n \in 1..Len(mailbox) : r[n] = Mail[n]
    BY <1>m, <1>p
  <1> HIDE DEF r
  <1>4. \A n \in 1..(Len(mailbox) + 1) : Mail'[n] = r[n]
    BY <1>1, <1>2, <1>3, <1>m, <1>t
  <1>5. Mail' \in Seq(Packets) /\ Len(Mail') = Len(mailbox) + 1
    BY <1>1 DEF MailType
  <1>6. Mail' = r
    BY <1>3, <1>4, <1>5
  <1> QED BY <1>6 DEF Takes, r


LEMMA MailSame ==
  ASSUME mailbox' = mailbox, \A n \in 1..Len(mailbox) : mem'[mailbox[n]] = mem[mailbox[n]]
  PROVE  Keeps
  BY DEF Keeps, Mail

LEMMA AllocMail ==
  ASSUME TypeInv, PoolInv, NEW s \in Sources, Alloc(s)
  PROVE  /\ Keeps
         /\ \A t \in Sources : held[t] # None => mem'[held[t]] = mem[held[t]] /\ held'[t] = held[t]
         /\ held'[s] # None => mem'[held'[s]] = <<s, logged[s] + 1>>
         /\ \A t \in Sources \ {s} : held'[t] = held[t]
  <1>t. s \in DOMAIN held /\ DOMAIN held = Sources /\ held[s] = None
    BY DEF TypeInv, TypeOK, Alloc
  <1>1. CASE free = <<>>
    <2>1. mem' = mem /\ held' = held /\ mailbox' = mailbox
      BY <1>1 DEF Alloc
    <2> QED BY <2>1, <1>t, MailSame
  <1>2. CASE free # <<>>
    <2>1. /\ mem' = [mem EXCEPT ![Head(free)] = <<s, logged[s] + 1>>]
          /\ held' = [held EXCEPT ![s] = Head(free)] /\ mailbox' = mailbox
      BY <1>2 DEF Alloc
    <2>2. /\ \A n \in 1..Len(mailbox) : mem'[mailbox[n]] = mem[mailbox[n]]
          /\ \A t \in Sources : held[t] # None => mem'[held[t]] = mem[held[t]]
          /\ mem'[Head(free)] = <<s, logged[s] + 1>>
      BY <1>2, <2>1, MailKept
    <2>3. held'[s] = Head(free) /\ \A t \in Sources \ {s} : held'[t] = held[t]
      BY <2>1, <1>t
    <2> QED BY <2>1, <2>2, <2>3, <1>t, MailSame
  <1> QED BY <1>1, <1>2

LEMMA PostMail ==
  ASSUME TypeInv, TypeInv', NEW s \in Sources, Post(s)
  PROVE  \/ Takes(mem[held[s]]) /\ accepted' = accepted \union {mem[held[s]]}
         \/ Keeps /\ accepted' = accepted
  <1>1. held[s] \in Items /\ mem' = mem /\ MBPost(held[s]) /\ MailType'
    BY TypeInvMail DEF Post, TypeInv, TypeOK
  <1>2. CASE Len(mailbox) < PoolItems
    <2>1. mailbox' = Append(mailbox, held[s]) /\ accepted' = accepted \union {mem[held[s]]}
      BY <1>1, <1>2 DEF MBPost
    <2>2. Takes(mem'[held[s]])
      BY <1>1, <2>1, MailAppend
    <2> QED BY <1>1, <2>1, <2>2
  <1>3. CASE ~(Len(mailbox) < PoolItems)
    <2>1. mailbox' = mailbox /\ accepted' = accepted
      BY <1>1, <1>3 DEF MBPost
    <2> QED BY <1>1, <2>1, MailSame
  <1> QED BY <1>2, <1>3

LEMMA HeaderMail ==
  ASSUME TypeInv, TypeInv', PoolInv, Header
  PROVE  /\ \/ /\ Takes(<<"logger", logged["logger"] + 1>>)
               /\ accepted' = accepted \union {<<"logger", logged["logger"] + 1>>}
            \/ Keeps /\ accepted' = accepted
         /\ \A t \in Sources : held[t] # None => mem'[held[t]] = mem[held[t]]
  <1> DEFINE f == <<"logger", logged["logger"] + 1>>
  <1>t. MailType' /\ logged'["logger"] = logged["logger"] + 1
    BY TypeInvMail DEF Header, TypeInv, TypeOK
  <1>1. CASE free = <<>>
    <2>1. mem' = mem /\ mailbox' = mailbox /\ accepted' = accepted
      BY <1>1 DEF Header
    <2> QED BY <2>1, MailSame
  <1>2. CASE free # <<>>
    <2>1. /\ mem' = [mem EXCEPT ![Head(free)] = f] /\ mailbox' = Append(mailbox, Head(free))
          /\ accepted' = accepted \union {mem'[Head(free)]}
      BY <1>2, <1>t DEF Header
    <2>2. /\ \A n \in 1..Len(mailbox) : mem'[mailbox[n]] = mem[mailbox[n]]
          /\ \A t \in Sources : held[t] # None => mem'[held[t]] = mem[held[t]]
          /\ mem'[Head(free)] = f /\ Head(free) \in Items
      BY <1>2, <2>1, MailKept
    <2>3. Takes(f)
      BY <1>t, <2>1, <2>2, MailAppend
    <2> QED BY <2>1, <2>2, <2>3
  <1> QED BY <1>1, <1>2

LEMMA FetchMail ==
  ASSUME TypeInv, TypeInv', Fetch
  PROVE  /\ Len(Mail) >= 1 /\ Len(Mail') = Len(Mail) - 1
         /\ \A n \in 1..Len(Mail') : Mail'[n] = Mail[n + 1]
         /\ cache' = Append(cache, Mail[1]) /\ Mail[1] \in Packets
  <1>1. mailbox # <<>> /\ mailbox' = Tail(mailbox) /\ mem' = mem
        /\ cache' = Append(cache, mem[Head(mailbox)])
    BY DEF Fetch
  <1>2. /\ Len(mailbox) \in Nat /\ Len(mailbox) >= 1 /\ Head(mailbox) = mailbox[1]
        /\ Len(mailbox') = Len(mailbox) - 1
        /\ \A n \in 1..Len(mailbox') : mailbox'[n] = mailbox[n + 1]
    BY <1>1 DEF TypeInv, TypeOK
  <1>3. Len(Mail) = Len(mailbox) /\ Len(Mail') = Len(mailbox') /\ Mail[1] \in Packets
    BY <1>2, TypeInvMail DEF MailType
  <1>4. /\ \A n \in 1..Len(mailbox) : Mail[n] = mem[mailbox[n]]
        /\ \A n \in 1..Len(mailbox') : Mail'[n] = mem'[mailbox'[n]]
    BY DEF Mail
  <1>5. \A n \in 1..Len(mailbox') : n + 1 \in 1..Len(mailbox)
    BY <1>2
  <1>6. ASSUME NEW n \in 1..Len(mailbox') PROVE Mail'[n] = Mail[n + 1]
    <2>1. Mail'[n] = mem[mailbox[n + 1]]
      BY <1>1, <1>2, <1>4
    <2> QED BY <2>1, <1>4, <1>5
  <1>7. Mail[1] = mem[Head(mailbox)]
    BY <1>2, <1>4
  <1> QED BY <1>1, <1>2, <1>3, <1>6, <1>7

(* The other steps but for PowerCycle. *)
LEMMA CardMail ==
  Connect \/ ConnectFails \/ Open \/ OpenFails \/ Write \/ WriteFails \/ AllLogged
    \/ UNCHANGED vars => Keeps /\ UNCHANGED <<accepted, logged, held, mem>>
  BY MailSame DEF Connect, ConnectFails, Open, OpenFails, Write, WriteFails, AllLogged, vars

-----------------------------------------------------------------------------
(* Where packets are, by index. *)
Found(f) ==
  \/ \E k \in 1..Len(files) : \E m \in 1..Len(files[k]) : files[k][m] = f
  \/ In(unsynced, f) \/ In(cache, f) \/ In(Mail, f)

Safe(f) == Found(f) \/ f \in unconfirmed

(* What is written and not committed is remembered, so it may be lost. *)
FoundInv ==
  /\ \A f : In(unsynced, f) => f \in unconfirmed
  /\ short = 0 => \A f \in accepted : Safe(f)

LEMMA SetOf ==
  ASSUME NEW q \in Seq(Packets) PROVE \A f : f \in ToSet(q) <=> In(q, f)
  <1>1. DOMAIN q = 1..Len(q)
    OBVIOUS
  <1> QED BY <1>1 DEF ToSet, In

LEMMA MemoryIs == TypeInv => \A f : f \in InMemory <=> In(cache, f) \/ In(Mail, f)
  <1> SUFFICES ASSUME TypeInv PROVE \A f : f \in InMemory <=> In(cache, f) \/ In(Mail, f)
    OBVIOUS
  <1>1. DOMAIN mailbox = 1..Len(mailbox) /\ Len(Mail) = Len(mailbox)
    BY TypeInvMail DEF TypeInv, TypeOK, MailType
  <1>2. \A f : f \in ToSet(cache) <=> In(cache, f)
    BY SetOf DEF TypeInv, TypeOK
  <1>3. \A f : f \in {mem[mailbox[n]] : n \in DOMAIN mailbox} <=> In(Mail, f)
    BY <1>1 DEF In, Mail
  <1> QED BY <1>2, <1>3 DEF InMemory

LEMMA FoundInvIs == TypeInv /\ FoundInv => NothingLost
  <1> SUFFICES ASSUME TypeInv, FoundInv, short = 0, NEW f \in accepted
               PROVE  f \in OnCard \union InMemory \union unconfirmed
    BY DEF NothingLost
  <1>1. f \in OnCard <=> \E k \in 1..Len(files) : \E m \in 1..Len(files[k]) : files[k][m] = f
    BY OnCardType DEF TypeInv, TypeOK
  <1>2. f \in InMemory <=> In(cache, f) \/ In(Mail, f)
    BY MemoryIs
  <1> QED BY <1>1, <1>2 DEF FoundInv, Safe, Found

LEMMA FoundKept ==
  ASSUME \A f : In(unsynced, f) \/ In(cache, f) \/ In(Mail, f) \/ f \in unconfirmed => Safe(f)',
         \A k \in 1..Len(files) : /\ k \in 1..Len(files')
                                  /\ \A m \in 1..Len(files[k]) : /\ m \in 1..Len(files'[k])
                                                                 /\ files'[k][m] = files[k][m]
  PROVE  \A f : Safe(f) => Safe(f)'
  BY DEF Found, Safe

LEMMA AppendIn ==
  ASSUME NEW q \in Seq(Packets), NEW x \in Packets
  PROVE  \A f : In(Append(q, x), f) <=> In(q, f) \/ f = x
  <1> DEFINE r == Append(q, x)
  <1>1. /\ Len(q) \in Nat /\ Len(r) = Len(q) + 1 /\ r[Len(q) + 1] = x
        /\ \A n \in 1..Len(q) : r[n] = q[n]
    OBVIOUS
  <1> HIDE DEF r
  <1>2. \A f : In(r, f) <=> In(q, f) \/ f = x
    BY <1>1 DEF In
  <1> QED BY <1>2 DEF r

LEMMA FilesGrow ==
  ASSUME files \in Seq(Seq(Packets)), cache \in Seq(Packets), unsynced \in Seq(Packets),
         files # <<>>, NEW n \in 0..Len(cache), Store(n)
  PROVE  /\ \A k \in 1..Len(files) : /\ k \in 1..Len(files')
                                     /\ \A m \in 1..Len(files[k]) : /\ m \in 1..Len(files'[k])
                                                                    /\ files'[k][m] = files[k][m]
         /\ \A f : In(unsynced, f) => Found(f)'
         /\ n = Len(cache) => \A f : In(cache, f) => Found(f)'
  <1> DEFINE last == files[Len(files)]
             part == SubSeq(cache, 1, n)
             more == last \o unsynced
  <1>1. /\ Len(files') = Len(files) /\ Len(files) \in Nat \ {0}
        /\ last \in Seq(Packets) /\ more \in Seq(Packets) /\ files'[Len(files)] = more \o part
        /\ \A k \in 1..Len(files) : k # Len(files) => files'[k] = files[k]
    BY StoreType
  <1>2. part \in Seq(Packets) /\ (n = Len(cache) => \A f : In(cache, f) => In(part, f))
    BY PartType
  <1> HIDE DEF last, part
  <1>3. /\ Len(last) \in Nat /\ Len(unsynced) \in Nat /\ Len(more) = Len(last) + Len(unsynced)
        /\ \A m \in 1..Len(last) : more[m] = last[m]
        /\ \A f : In(more, f) <=> In(last, f) \/ In(unsynced, f)
    BY <1>1, Concat, ConcatIn
  <1> HIDE DEF more
  <1>4. /\ Len(part) \in Nat /\ Len(more \o part) = Len(more) + Len(part)
        /\ \A m \in 1..Len(more) : (more \o part)[m] = more[m]
        /\ \A f : In(more \o part, f) <=> In(more, f) \/ In(part, f)
    BY <1>1, <1>2, Concat, ConcatIn
  <1>5. ASSUME NEW k \in 1..Len(files), NEW m \in 1..Len(files[k])
        PROVE  m \in 1..Len(files'[k]) /\ files'[k][m] = files[k][m]
    <2>1. CASE k = Len(files)
      <3>1. m \in 1..Len(last) /\ m \in 1..Len(more) /\ m \in 1..Len(more \o part)
        BY <2>1, <1>3, <1>4, <1>5 DEF last
      <3>2. (more \o part)[m] = last[m]
        BY <3>1, <1>3, <1>4
      <3> QED BY <2>1, <3>1, <3>2, <1>1 DEF last
    <2>2. CASE k # Len(files)
      BY <2>2, <1>1, <1>5
    <2> QED BY <2>1, <2>2
  <1>6. ASSUME NEW f, In(files'[Len(files)], f) PROVE Found(f)'
    <2>1. Len(files) \in 1..Len(files')
      BY <1>1
    <2> QED BY <1>6, <2>1 DEF Found, In
  <1> QED BY <1>1, <1>2, <1>3, <1>4, <1>5, <1>6

LEMMA FoundInvStep == TypeInv /\ TypeInv' /\ PoolInv /\ FoundInv /\ [Next]_vars => FoundInv'
  <1> SUFFICES ASSUME TypeInv, TypeInv', PoolInv, FoundInv, [Next]_vars PROVE FoundInv'
    OBVIOUS
  <1>t. /\ files \in Seq(Seq(Packets)) /\ cache \in Seq(Packets) /\ Mail \in Seq(Packets)
        /\ unsynced \in Seq(Packets) /\ short \in {0, 1} /\ logged \in [Sources \union {"logger"} -> Nat]
    BY TypeInvMail DEF TypeInv, TypeOK, MailType
  <1>u. ASSUME UNCHANGED card PROVE \A f : In(unsynced', f) => f \in unconfirmed'
    BY <1>u DEF card, FoundInv
  <1>k. ASSUME Keeps, UNCHANGED <<card, cache>> PROVE \A f : Safe(f) => Safe(f)'
    BY <1>k DEF Keeps, Found, Safe, card
  <1>a. ASSUME NEW g \in Packets, Takes(g), UNCHANGED <<card, cache>>
        PROVE  Safe(g)' /\ \A f : Safe(f) => Safe(f)'
    <2>1. \A f : In(Mail', f) <=> In(Mail, f) \/ f = g
      BY <1>a, <1>t, AppendIn DEF Takes
    <2> QED BY <1>a, <2>1 DEF Found, Safe, card
  <1>1. ASSUME NEW s \in Sources, Alloc(s) PROVE FoundInv'
    <2>1. Keeps /\ UNCHANGED <<card, cache, accepted, short>>
      BY <1>1, AllocMail DEF Alloc
    <2> QED BY <2>1, <1>k, <1>u DEF FoundInv
  <1>2. ASSUME NEW s \in Sources, Post(s) PROVE FoundInv'
    <2>1. UNCHANGED <<card, cache, short>> /\ mem[held[s]] \in Packets
      BY <1>2 DEF Post, TypeInv, TypeOK
    <2>2. \/ Takes(mem[held[s]]) /\ accepted' = accepted \union {mem[held[s]]}
          \/ Keeps /\ accepted' = accepted
      BY <1>2, PostMail
    <2> QED BY <2>1, <2>2, <1>k, <1>a, <1>u DEF FoundInv
  <1>3. CASE Header
    <2> DEFINE g == <<"logger", logged["logger"] + 1>>
    <2>1. UNCHANGED <<card, cache, short>> /\ g \in Packets
      BY <1>3, <1>t DEF Header, Packets
    <2>2. \/ Takes(g) /\ accepted' = accepted \union {g}
          \/ Keeps /\ accepted' = accepted
      BY <1>3, HeaderMail
    <2> HIDE DEF g
    <2> QED BY <2>1, <2>2, <1>k, <1>a, <1>u DEF FoundInv
  <1>4. CASE Fetch
    <2>1. /\ Len(Mail) >= 1 /\ Len(Mail') = Len(Mail) - 1
          /\ \A n \in 1..Len(Mail') : Mail'[n] = Mail[n + 1]
          /\ cache' = Append(cache, Mail[1]) /\ Mail[1] \in Packets
      BY <1>4, FetchMail
    <2>2. UNCHANGED <<card, short, accepted>>
      BY <1>4 DEF Fetch
    <2>3. \A f : In(cache', f) <=> In(cache, f) \/ f = Mail[1]
      BY <2>1, <1>t, AppendIn
    <2>4. ASSUME NEW f, In(Mail, f) PROVE f = Mail[1] \/ In(Mail', f)
      <3>1. PICK n \in 1..Len(Mail) : Mail[n] = f
        BY <2>4 DEF In
      <3>2. CASE n # 1
        <4>1. n - 1 \in 1..Len(Mail') /\ (n - 1) + 1 = n
          BY <3>1, <3>2, <2>1, <1>t
        <4>2. Mail'[n - 1] = f
          BY <4>1, <3>1, <2>1
        <4> QED BY <4>1, <4>2 DEF In
      <3> QED BY <3>1, <3>2
    <2>5. \A f : Safe(f) => Safe(f)'
      BY <2>2, <2>3, <2>4 DEF Found, Safe, card
    <2> QED BY <2>2, <2>5, <1>u DEF FoundInv
  <1>5. CASE Open
    <2>1. files' = Append(files, <<>>) /\ Keeps
          /\ UNCHANGED <<cache, short, accepted, unsynced, unconfirmed>>
      BY <1>5, CardMail DEF Open
    <2>2. /\ Len(files) \in Nat /\ Len(Append(files, <<>>)) = Len(files) + 1
          /\ \A k \in 1..Len(files) : Append(files, <<>>)[k] = files[k]
      BY <1>t, NewFile, Zenon
    <2>3. Len(files) \in Nat /\ Len(files') = Len(files) + 1
          /\ \A k \in 1..Len(files) : files'[k] = files[k]
      BY <2>1, <2>2
    <2>4. \A f : In(unsynced, f) \/ In(cache, f) \/ In(Mail, f) \/ f \in unconfirmed => Safe(f)'
      BY <2>1 DEF Found, Safe, Keeps
    <2>5. \A f : Safe(f) => Safe(f)'
      BY <2>3, <2>4, FoundKept
    <2> QED BY <2>1, <2>5 DEF FoundInv
  <1>6. CASE Write \/ WriteFails
    <2>1. /\ Keeps /\ UNCHANGED accepted /\ files # <<>>
          /\ WriteFails => cache' = cache /\ short' = short
      BY <1>6, CardMail DEF Write, WriteFails, TypeInv, Active
    <2>2. ASSUME NEW n \in 0..Len(cache), Store(n),
                 \/ cache' = cache /\ short' = short
                 \/ n = Len(cache) /\ cache' = <<>> /\ short' = short
                 \/ short' = 1
          PROVE  FoundInv'
      <3>1. /\ \A k \in 1..Len(files) :
                 /\ k \in 1..Len(files')
                 /\ \A m \in 1..Len(files[k]) : m \in 1..Len(files'[k]) /\ files'[k][m] = files[k][m]
            /\ \A f : In(unsynced, f) => Found(f)'
            /\ n = Len(cache) => \A f : In(cache, f) => Found(f)'
        BY <2>1, <2>2, <1>t, FilesGrow
      <3>2. unsynced' = <<>> /\ \A f \in unconfirmed : f \in unconfirmed' \/ In(unsynced, f)
        BY <2>2, <1>t, SetOf DEF Store
      <3>3. \A f : ~In(unsynced', f)
        BY <3>2 DEF In
      <3>4. CASE short' = 1
        BY <3>3, <3>4 DEF FoundInv
      <3>5. CASE short' = short /\ (n = Len(cache) \/ cache' = cache)
        <4>1. \A f : In(unsynced, f) \/ In(cache, f) \/ In(Mail, f) \/ f \in unconfirmed => Safe(f)'
          BY <2>1, <3>1, <3>2, <3>5 DEF Found, Safe, Keeps
        <4>2. \A f : Safe(f) => Safe(f)'
          BY <3>1, <4>1, FoundKept
        <4> QED BY <2>1, <3>3, <3>5, <4>2 DEF FoundInv
      <3> QED BY <2>2, <3>4, <3>5
    <2>3. ASSUME NEW n \in 0..Len(cache), Buffer(n),
                 \/ n = Len(cache) /\ cache' = <<>> /\ short' = short
                 \/ short' = 1
          PROVE  FoundInv'
      <3> DEFINE part == SubSeq(cache, 1, n)
      <3>1. part \in Seq(Packets) /\ (n = Len(cache) => \A f : In(cache, f) => In(part, f))
        BY <1>t, PartType
      <3>2. /\ unsynced' = unsynced \o part /\ files' = files
            /\ unconfirmed' = unconfirmed \union ToSet(part)
        BY <2>3 DEF Buffer
      <3> HIDE DEF part
      <3>3. /\ \A f : In(unsynced', f) <=> In(unsynced, f) \/ In(part, f)
            /\ \A f : f \in unconfirmed' <=> f \in unconfirmed \/ In(part, f)
        BY <3>1, <3>2, <1>t, ConcatIn, SetOf
      <3>4. \A f : In(unsynced', f) => f \in unconfirmed'
        BY <3>3 DEF FoundInv
      <3>5. CASE short' = 1
        BY <3>4, <3>5 DEF FoundInv
      <3>6. CASE n = Len(cache) /\ short' = short
        <4>1. \A f : Safe(f) => Safe(f)'
          BY <2>1, <3>1, <3>2, <3>3, <3>6 DEF Found, Safe, Keeps
        <4> QED BY <2>1, <3>4, <3>6, <4>1 DEF FoundInv
      <3> QED BY <2>3, <3>5, <3>6
    <2>4. CASE Discard /\ WriteFails
      <3>1. \A f : ~In(unsynced', f)
        BY <2>4 DEF Discard, In
      <3>2. \A f : Safe(f) => Safe(f)'
        BY <2>1, <2>4 DEF Discard, Found, Safe, Keeps, FoundInv
      <3> QED BY <2>1, <2>4, <3>1, <3>2 DEF FoundInv
    <2>5. CASE WriteFails
      <3>1. Discard \/ \E n \in 0..Len(cache) : Store(n)
        BY <2>5 DEF WriteFails, CloseFile, Discard
      <3> QED BY <2>1, <2>2, <2>4, <2>5, <3>1
    <2>6. CASE Write
      <3>1. cache' = <<>> /\ \E n \in 0..Len(cache) :
              (Store(n) \/ Buffer(n)) /\ (short' = 1 \/ (n = Len(cache) /\ short' = short))
        BY <2>6 DEF Write
      <3> QED BY <2>2, <2>3, <3>1
    <2> QED BY <1>6, <2>5, <2>6
  <1>7. CASE PowerCycle
    <2>1. /\ accepted' = (accepted \ InMemory) \union OnCard
          /\ unsynced' = <<>> /\ UNCHANGED <<files, unconfirmed, short>>
      BY <1>7 DEF PowerCycle
    <2>2. \A f \in OnCard : Found(f)'
      BY <2>1, <1>t, OnCardType DEF Found
    <2>3. \A f : ~In(unsynced', f)
      BY <2>1 DEF In
    <2>4. ASSUME NEW f, Safe(f), f \notin InMemory PROVE Safe(f)'
      <3>1. ~In(cache, f) /\ ~In(Mail, f)
        BY <2>4, MemoryIs
      <3> QED BY <2>1, <2>4, <3>1 DEF Safe, Found, FoundInv
    <2> QED BY <2>1, <2>2, <2>3, <2>4 DEF FoundInv, Safe
  <1>8. CASE Connect \/ ConnectFails \/ OpenFails \/ AllLogged \/ UNCHANGED vars
    <2>1. Keeps /\ UNCHANGED <<card, cache, accepted, short>>
      BY <1>8, CardMail DEF Connect, ConnectFails, OpenFails, AllLogged, vars
    <2> QED BY <2>1, <1>k, <1>u DEF FoundInv
  <1> QED
    BY <1>1, <1>2, <1>3, <1>4, <1>5, <1>6, <1>7, <1>8 DEF Next, Logger

(* As long as the card has room, no accepted packet is lost whose f_sync did not fail, for
   any pool, cache and number of failed writes, failed syncs and power losses. *)
THEOREM NoPacketIsLost == Spec => []NothingLost
  <1>1. Init => FoundInv
    BY DEF Init, FoundInv, In
  <1> QED BY <1>1, FoundInvIs, PoolInvHolds, FoundInvStep, PTL DEF Spec

-----------------------------------------------------------------------------
(* The order of the packets: within a sequence, and of one sequence after another. *)
Ordered(q) ==
  \A m, n \in 1..Len(q) : m < n /\ q[m][1] = q[n][1] => q[m][2] < q[n][2]
Precedes(q, r) ==
  \A f, g : In(q, f) /\ In(r, g) /\ f[1] = g[1] => f[2] < g[2]

LEMMA NoneIn ==
  /\ <<>> \in Seq(Packets) /\ Ordered(<<>>) /\ \A f : ~In(<<>>, f)
  /\ \A q : Precedes(<<>>, q) /\ Precedes(q, <<>>)
  <1>1. <<>> \in Seq(Packets) /\ Len(<<>>) = 0
    OBVIOUS
  <1>2. Ordered(<<>>) /\ \A f : ~In(<<>>, f)
    BY <1>1 DEF Ordered, In
  <1> QED BY <1>1, <1>2 DEF Precedes

LEMMA OrderedAppend ==
  ASSUME NEW q \in Seq(Packets), NEW g \in Packets, Ordered(q),
         \A f : In(q, f) /\ f[1] = g[1] => f[2] < g[2]
  PROVE  Ordered(Append(q, g))
  <1> DEFINE r == Append(q, g)
  <1>1. /\ Len(q) \in Nat /\ Len(r) = Len(q) + 1 /\ r[Len(q) + 1] = g
        /\ \A n \in 1..Len(q) : r[n] = q[n]
    BY AppendType
  <1> HIDE DEF r
  <1>2. SUFFICES ASSUME NEW m \in 1..Len(r), NEW n \in 1..Len(r), m < n, r[m][1] = r[n][1]
                 PROVE  r[m][2] < r[n][2]
    BY DEF Ordered, r
  <1>3. m \in 1..Len(q)
    BY <1>1, <1>2
  <1>4. CASE n \in 1..Len(q)
    BY <1>1, <1>2, <1>3, <1>4 DEF Ordered
  <1>5. CASE n = Len(q) + 1
    <2>1. In(q, r[m]) /\ r[n] = g
      BY <1>1, <1>3, <1>5 DEF In
    <2> QED BY <2>1, <1>2
  <1> QED BY <1>1, <1>4, <1>5

LEMMA OrderedConcat ==
  ASSUME NEW q \in Seq(Packets), NEW r \in Seq(Packets), Ordered(q), Ordered(r), Precedes(q, r)
  PROVE  Ordered(q \o r) /\ \A f : In(q \o r, f) <=> In(q, f) \/ In(r, f)
  <1> DEFINE s == q \o r
  <1>1. /\ Len(q) \in Nat /\ Len(r) \in Nat /\ Len(s) = Len(q) + Len(r)
        /\ \A m \in 1..Len(q) : s[m] = q[m]
        /\ \A m \in 1..Len(r) : s[Len(q) + m] = r[m]
    BY Concat
  <1> HIDE DEF s
  <1>2. ASSUME NEW n \in 1..Len(s), n \notin 1..Len(q)
        PROVE  n - Len(q) \in 1..Len(r) /\ s[n] = r[n - Len(q)]
    <2>1. n - Len(q) \in 1..Len(r) /\ Len(q) + (n - Len(q)) = n
      BY <1>1, <1>2
    <2>2. s[Len(q) + (n - Len(q))] = r[n - Len(q)]
      BY <2>1, <1>1
    <2> QED BY <2>1, <2>2
  <1>3. \A f : In(q \o r, f) <=> In(q, f) \/ In(r, f)
    BY ConcatIn
  <1>6. ASSUME NEW m \in 1..Len(s), NEW n \in 1..Len(s), m < n, s[m][1] = s[n][1]
        PROVE  s[m][2] < s[n][2]
    <2>1. CASE n \in 1..Len(q)
      <3>1. m \in 1..Len(q)
        BY <2>1, <1>6, <1>1
      <3> QED BY <3>1, <2>1, <1>1, <1>6 DEF Ordered
    <2>2. CASE n \notin 1..Len(q) /\ m \in 1..Len(q)
      <3>1. In(q, s[m]) /\ In(r, s[n])
        BY <2>2, <1>1, <1>2 DEF In
      <3> QED BY <3>1, <1>6 DEF Precedes
    <2>3. CASE n \notin 1..Len(q) /\ m \notin 1..Len(q)
      <3>1. /\ m - Len(q) \in 1..Len(r) /\ s[m] = r[m - Len(q)]
            /\ n - Len(q) \in 1..Len(r) /\ s[n] = r[n - Len(q)]
        BY <2>3, <1>2
      <3>2. m - Len(q) < n - Len(q)
        BY <1>1, <1>6
      <3> QED BY <3>1, <3>2, <1>6 DEF Ordered
    <2> QED BY <2>1, <2>2, <2>3
  <1>7. Ordered(s)
    BY <1>6 DEF Ordered
  <1> QED BY <1>3, <1>7 DEF s

(* A sequence in order without its end, and without its first packet. *)
LEMMA OrderedPrefix ==
  ASSUME NEW q, NEW r, Ordered(q), Len(q) \in Nat, Len(r) \in Nat, Len(r) <= Len(q),
         \A n \in 1..Len(r) : r[n] = q[n]
  PROVE  Ordered(r) /\ \A f : In(r, f) => In(q, f)
  BY DEF Ordered, In

LEMMA OrderedTail ==
  ASSUME NEW q, NEW r, Ordered(q), Len(q) \in Nat, Len(r) = Len(q) - 1,
         \A n \in 1..Len(r) : r[n] = q[n + 1]
  PROVE  Ordered(r) /\ \A f : In(r, f) => In(q, f)
  <1>1. \A n \in 1..Len(r) : n + 1 \in 1..Len(q)
    OBVIOUS
  <1>2. \A f : In(r, f) => In(q, f)
    BY <1>1 DEF In
  <1>3. ASSUME NEW m \in 1..Len(r), NEW n \in 1..Len(r), m < n, r[m][1] = r[n][1]
        PROVE  r[m][2] < r[n][2]
    <2>1. m + 1 \in 1..Len(q) /\ n + 1 \in 1..Len(q) /\ m + 1 < n + 1
      BY <1>1, <1>3
    <2>2. r[m] = q[m + 1] /\ r[n] = q[n + 1]
      OBVIOUS
    <2> QED BY <2>1, <2>2, <1>3 DEF Ordered
  <1> QED BY <1>2, <1>3 DEF Ordered

-----------------------------------------------------------------------------
(* Files, what is not yet synced, cache and mail are each in order and follow each other, as
   long as the last file is the one that will receive the cache. *)
Orders ==
  /\ \A k \in 1..Len(files) : Ordered(files[k])
  /\ Ordered(unsynced) /\ Ordered(cache) /\ Ordered(Mail)
  /\ Precedes(unsynced, cache) /\ Precedes(unsynced, Mail) /\ Precedes(cache, Mail)
  /\ pc \in Active => /\ Precedes(files[Len(files)], unsynced)
                      /\ Precedes(files[Len(files)], cache)
                      /\ Precedes(files[Len(files)], Mail)

(* The packet a source holds is its newest. *)
Older(f) ==
  /\ f[2] <= logged[f[1]]
  /\ f[1] \in Sources /\ held[f[1]] # None => f[2] < logged[f[1]]

AgeInv ==
  /\ \A f : Found(f) => Older(f)
  /\ \A s \in Sources : held[s] # None => mem[held[s]] = <<s, logged[s]>>

OrderInv == Orders /\ AgeInv

LEMMA OrderInvInit == Init => OrderInv
  <1> SUFFICES ASSUME Init PROVE OrderInv
    OBVIOUS
  <1>1. mailbox = <<>> /\ cache = <<>> /\ files = <<>> /\ unsynced = <<>> /\ pc \notin Active
        /\ held = [s \in Sources |-> None]
    BY DEF Init, Active
  <1>2. Len(Mail) = 0 /\ Len(cache) = 0 /\ Len(files) = 0 /\ Len(unsynced) = 0
    BY <1>1 DEF Mail
  <1>3. Orders
    BY <1>1, <1>2 DEF Orders, Ordered, Precedes, In
  <1>4. AgeInv
    BY <1>1, <1>2 DEF AgeInv, Found, In
  <1> QED BY <1>3, <1>4 DEF OrderInv

LEMMA FoundType == TypeInv => \A f : Found(f) => f \in Packets
  <1> SUFFICES ASSUME TypeInv, NEW f, Found(f) PROVE f \in Packets
    OBVIOUS
  <1>1. files \in Seq(Seq(Packets)) /\ cache \in Seq(Packets) /\ Mail \in Seq(Packets)
        /\ unsynced \in Seq(Packets)
    BY TypeInvMail DEF TypeInv, TypeOK, MailType
  <1>2. \A k \in 1..Len(files) : files[k] \in Seq(Packets)
    BY <1>1
  <1> QED BY <1>1, <1>2 DEF Found, In

(* A packet that is newer than all that are found goes into the mailbox. *)
LEMMA TakesInOrder ==
  ASSUME TypeInv, Orders, NEW g \in Packets, Takes(g), UNCHANGED <<files, unsynced, cache>>,
         pc' \in Active => pc \in Active,
         \A f : Found(f) /\ f[1] = g[1] => f[2] < g[2]
  PROVE  Orders' /\ \A f : Found(f)' => Found(f) \/ f = g
  <1>t. /\ Mail \in Seq(Packets) /\ Mail' = Append(Mail, g)
        /\ pc \in Active => Len(files) \in 1..Len(files)
    BY TypeInvMail DEF TypeInv, TypeOK, MailType, Takes
  <1>1. \A f : In(Mail', f) <=> In(Mail, f) \/ f = g
    BY <1>t, AppendIn
  <1>2. /\ \A f : In(Mail, f) \/ In(cache, f) \/ In(unsynced, f) => Found(f)
        /\ pc \in Active => \A f : In(files[Len(files)], f) => Found(f)
    BY <1>t DEF Found, In
  <1>3. Ordered(Mail')
    BY <1>t, <1>2, OrderedAppend DEF Orders
  <1>4. Precedes(cache', Mail') /\ Precedes(unsynced', Mail')
    BY <1>1, <1>2 DEF Orders, Precedes
  <1>5. pc \in Active => Precedes(files[Len(files)], Mail')
    BY <1>1, <1>2 DEF Orders, Precedes
  <1> QED BY <1>1, <1>3, <1>4, <1>5 DEF Orders, Found

LEMMA KeepsOrder ==
  ASSUME Orders, Keeps, UNCHANGED <<files, unsynced, cache>>, pc' \in Active => pc \in Active
  PROVE  Orders' /\ \A f : Found(f)' => Found(f)
  BY DEF Orders, Keeps, Found

LEMMA FetchInOrder ==
  ASSUME TypeInv, TypeInv', Orders, Fetch
  PROVE  Orders' /\ \A f : Found(f)' => Found(f)
  <1>1. /\ Len(Mail) >= 1 /\ Len(Mail') = Len(Mail) - 1
        /\ \A n \in 1..Len(Mail') : Mail'[n] = Mail[n + 1]
        /\ cache' = Append(cache, Mail[1]) /\ Mail[1] \in Packets
    BY FetchMail
  <1>2. /\ cache \in Seq(Packets) /\ Mail \in Seq(Packets) /\ Len(Mail) \in Nat
        /\ Len(Mail') \in Nat /\ UNCHANGED <<files, unsynced>> /\ pc \in Active
    BY TypeInvMail DEF TypeInv, TypeOK, MailType, Fetch, Active, card
  <1>3. In(Mail, Mail[1])
    BY <1>1, <1>2 DEF In
  <1>4. Ordered(Mail') /\ \A f : In(Mail', f) => In(Mail, f)
    <2>1. Ordered(Mail)
      BY DEF Orders
    <2> QED BY <2>1, <1>1, <1>2, OrderedTail
  <1>5. \A f : In(cache', f) <=> In(cache, f) \/ f = Mail[1]
    BY <1>1, <1>2, AppendIn
  <1>6. Ordered(cache')
    BY <1>1, <1>2, <1>3, OrderedAppend DEF Orders, Precedes
  <1>7. ASSUME NEW f, In(Mail', f), f[1] = Mail[1][1] PROVE Mail[1][2] < f[2]
    <2>1. PICK n \in 1..Len(Mail') : Mail'[n] = f
      BY <1>7 DEF In
    <2>2. n + 1 \in 1..Len(Mail) /\ 1 \in 1..Len(Mail) /\ 1 < n + 1 /\ Mail[n + 1] = f
      BY <2>1, <1>1, <1>2
    <2> QED BY <2>2, <1>7 DEF Orders, Ordered
  <1>8. Precedes(cache', Mail') /\ Precedes(unsynced, cache') /\ Precedes(unsynced, Mail')
    BY <1>3, <1>4, <1>5, <1>7 DEF Orders, Precedes
  <1>9. Precedes(files[Len(files)], cache') /\ Precedes(files[Len(files)], Mail')
    BY <1>2, <1>3, <1>4, <1>5 DEF Orders, Precedes
  <1>10. Orders'
    BY <1>2, <1>4, <1>6, <1>8, <1>9 DEF Orders
  <1>11. \A f : Found(f)' => Found(f)
    BY <1>2, <1>3, <1>4, <1>5 DEF Found
  <1> QED BY <1>10, <1>11

(* What a commit puts in the last file is in order with what is there. *)
LEMMA StoreInOrder ==
  ASSUME TypeInv, Orders, pc = "write", NEW n \in 0..Len(cache), Store(n)
  PROVE  /\ \A k \in 1..Len(files') : Ordered(files'[k])
         /\ Len(files') = Len(files) /\ Precedes(files'[Len(files)], Mail)
         /\ \A k \in 1..Len(files') : \A f :
              In(files'[k], f) => In(files[k], f) \/ In(unsynced, f) \/ In(cache, f)
  <1> DEFINE last == files[Len(files)]
             part == SubSeq(cache, 1, n)
             more == last \o unsynced
  <1>1. /\ Len(files') = Len(files) /\ Len(files) \in Nat \ {0}
        /\ last \in Seq(Packets) /\ more \in Seq(Packets) /\ files'[Len(files)] = more \o part
        /\ \A k \in 1..Len(files) : k # Len(files) => files'[k] = files[k]
    BY StoreType DEF TypeInv, TypeOK, Active
  <1>2. /\ Len(cache) \in Nat /\ cache \in Seq(Packets) /\ unsynced \in Seq(Packets)
        /\ part \in Seq(Packets) /\ Len(part) = n /\ \A m \in 1..n : part[m] = cache[m]
        /\ \A f : In(part, f) => In(cache, f)
    BY PartType DEF TypeInv, TypeOK
  <1>3. /\ Ordered(last) /\ Ordered(unsynced)
        /\ Precedes(last, unsynced) /\ Precedes(last, cache) /\ Precedes(last, Mail)
        /\ Precedes(unsynced, cache) /\ Precedes(unsynced, Mail) /\ Precedes(cache, Mail)
    BY <1>1 DEF Orders, Active
  <1> HIDE DEF part, last
  <1>4. Ordered(part)
    <2>1. Ordered(cache) /\ Len(part) \in Nat /\ Len(part) <= Len(cache)
      BY <1>1, <1>2 DEF Orders
    <2> QED BY <2>1, <1>1, <1>2, OrderedPrefix
  <1>5. Ordered(more) /\ \A f : In(more, f) <=> In(last, f) \/ In(unsynced, f)
    BY <1>1, <1>2, <1>3, OrderedConcat
  <1> HIDE DEF more
  <1>6. Precedes(more, part)
    BY <1>2, <1>3, <1>5 DEF Precedes
  <1>7. /\ Ordered(more \o part)
        /\ \A f : In(more \o part, f) <=> In(more, f) \/ In(part, f)
    BY <1>1, <1>2, <1>4, <1>5, <1>6, OrderedConcat
  <1>8. Precedes(more \o part, Mail)
    BY <1>2, <1>3, <1>5, <1>7 DEF Precedes
  <1>9. ASSUME NEW k \in 1..Len(files')
        PROVE  /\ Ordered(files'[k])
               /\ \A f : In(files'[k], f) => In(files[k], f) \/ In(unsynced, f) \/ In(cache, f)
    <2>1. CASE k = Len(files)
      BY <2>1, <1>1, <1>2, <1>5, <1>7 DEF last
    <2>2. CASE k # Len(files)
      BY <2>2, <1>1, <1>9 DEF Orders
    <2> QED BY <2>1, <2>2
  <1> QED BY <1>1, <1>8, <1>9

LEMMA WriteInOrder ==
  ASSUME TypeInv, Orders, Write \/ WriteFails
  PROVE  Orders' /\ \A f : Found(f)' => Found(f)
  <1>1. /\ pc = "write" /\ Keeps
        /\ Ordered(cache) /\ Ordered(Mail) /\ Precedes(cache, Mail)
        /\ \/ cache' = <<>> /\ pc' = "fetch"
           \/ cache' = cache /\ pc' = "connect"
    BY CardMail DEF Write, WriteFails, Orders
  <1>2. /\ Ordered(cache') /\ Precedes(cache', Mail') /\ Ordered(Mail')
        /\ \A f : In(cache', f) => In(cache, f)
        /\ pc' \in Active => cache' = <<>>
    BY <1>1, NoneIn DEF Keeps, Active
  <1>3. ASSUME NEW n \in 0..Len(cache), Store(n) PROVE Orders' /\ \A f : Found(f)' => Found(f)
    <2>1. /\ \A k \in 1..Len(files') : Ordered(files'[k])
          /\ Len(files') = Len(files) /\ Precedes(files'[Len(files)], Mail)
          /\ \A k \in 1..Len(files') : \A f :
                In(files'[k], f) => In(files[k], f) \/ In(unsynced, f) \/ In(cache, f)
      BY <1>1, <1>3, StoreInOrder
    <2>2. unsynced' = <<>>
      BY <1>3 DEF Store
    <2>3. /\ Ordered(unsynced') /\ Precedes(unsynced', cache') /\ Precedes(unsynced', Mail')
          /\ \A f : ~In(unsynced', f)
      BY <2>2, NoneIn
    <2>4. Orders'
      BY <1>1, <1>2, <2>1, <2>2, <2>3, NoneIn DEF Orders, Keeps
    <2>5. \A f : Found(f)' => Found(f)
      BY <1>1, <1>2, <2>1, <2>3 DEF Found, Keeps, In
    <2> QED BY <2>4, <2>5
  <1>4. ASSUME NEW n \in 0..Len(cache), Buffer(n), cache' = <<>>
        PROVE  Orders' /\ \A f : Found(f)' => Found(f)
    <2> DEFINE part == SubSeq(cache, 1, n)
    <2>1. /\ part \in Seq(Packets) /\ Len(part) = n /\ \A m \in 1..n : part[m] = cache[m]
          /\ \A f : In(part, f) => In(cache, f)
          /\ Len(cache) \in Nat /\ unsynced \in Seq(Packets)
      BY PartType DEF TypeInv, TypeOK
    <2>2. unsynced' = unsynced \o part /\ files' = files
      BY <1>4 DEF Buffer
    <2> HIDE DEF part
    <2>3. Ordered(part)
      <3>1. Len(part) \in Nat /\ Len(part) <= Len(cache)
        BY <2>1
      <3> QED BY <1>1, <2>1, <3>1, OrderedPrefix
    <2>4. /\ Ordered(unsynced) /\ Precedes(unsynced, cache) /\ Precedes(unsynced, Mail)
          /\ \A k \in 1..Len(files) : Ordered(files[k])
          /\ Precedes(files[Len(files)], unsynced) /\ Precedes(files[Len(files)], cache)
          /\ Precedes(files[Len(files)], Mail)
      BY <1>1 DEF Orders, Active
    <2>5. Precedes(unsynced, part)
      BY <2>1, <2>4 DEF Precedes
    <2>6. Ordered(unsynced') /\ \A f : In(unsynced', f) <=> In(unsynced, f) \/ In(part, f)
      BY <2>1, <2>2, <2>3, <2>4, <2>5, OrderedConcat
    <2>7. Precedes(unsynced', Mail) /\ Precedes(files[Len(files)], unsynced')
      BY <1>1, <2>1, <2>4, <2>6 DEF Precedes
    <2>8. Orders'
      BY <1>1, <1>2, <1>4, <2>2, <2>4, <2>6, <2>7, NoneIn DEF Orders, Keeps
    <2>9. \A f : Found(f)' => Found(f)
      BY <1>1, <1>2, <2>1, <2>2, <2>6 DEF Found, Keeps
    <2> QED BY <2>8, <2>9
  <1>5. CASE Discard
    <2>1. files' = files /\ unsynced' = <<>>
      BY <1>5 DEF Discard
    <2>2. \A f : ~In(unsynced', f)
      BY <2>1 DEF In
    <2>3. Orders'
      BY <1>1, <1>2, <2>1, NoneIn DEF Orders, Keeps, Active
    <2> QED BY <1>1, <1>2, <2>1, <2>2, <2>3 DEF Found, Keeps
  <1>6. Write => cache' = <<>>
    BY DEF Write
  <1> QED BY <1>3, <1>4, <1>5, <1>6, CardSteps

LEMMA OpenInOrder ==
  ASSUME TypeInv, Orders, Open
  PROVE  Orders' /\ \A f : Found(f)' => Found(f)
  <1>1. files' = Append(files, <<>>) /\ UNCHANGED <<cache, unsynced>> /\ Keeps
    BY CardMail DEF Open
  <1>2. files \in Seq(Seq(Packets))
    BY DEF TypeInv, TypeOK
  <1>3. /\ Len(files) \in Nat /\ Len(files') = Len(files) + 1
        /\ files'[Len(files) + 1] = <<>>
        /\ \A k \in 1..Len(files) : files'[k] = files[k]
    BY <1>1, <1>2, NewFile, Zenon
  <1>4. ASSUME NEW k \in 1..Len(files')
        PROVE  (k \in 1..Len(files) /\ files'[k] = files[k]) \/ files'[k] = <<>>
    BY <1>3
  <1>5. \A k \in 1..Len(files') : Ordered(files'[k])
    BY <1>4, NoneIn DEF Orders
  <1>6. Orders'
    BY <1>1, <1>3, <1>5, NoneIn DEF Orders, Keeps
  <1>7. \A k \in 1..Len(files') : \A m \in 1..Len(files'[k]) : k \in 1..Len(files) /\ files'[k] = files[k]
    BY <1>4
  <1>8. \A f : Found(f)' => Found(f)
    BY <1>1, <1>7 DEF Found, Keeps
  <1> QED BY <1>6, <1>8

(* A step that finds no packet it did not find before, and a source no younger. *)
LEMMA AgeKept ==
  ASSUME AgeInv, \A f : Found(f)' => Found(f), UNCHANGED <<logged, held, mem>>
  PROVE  AgeInv'
  BY DEF AgeInv, Older

LEMMA OrderInvStep ==
  TypeInv /\ TypeInv' /\ PoolInv /\ OrderInv /\ [Next]_vars => OrderInv'
  <1> SUFFICES ASSUME TypeInv, TypeInv', PoolInv, OrderInv, [Next]_vars PROVE OrderInv'
    OBVIOUS
  <1>t. /\ held \in [Sources -> Items \union {None}] /\ "logger" \notin Sources
        /\ logged \in [Sources \union {"logger"} -> Nat]
        /\ Orders /\ AgeInv /\ \A f : Found(f) => f \in Packets
    BY FoundType DEF TypeInv, TypeOK, OrderInv
  <1>f. \A f : Found(f) => f[1] \in Sources \union {"logger"} /\ f[2] \in Nat
    BY <1>t DEF Packets
  <1>1. ASSUME NEW s \in Sources, Alloc(s) PROVE OrderInv'
    <2>1. /\ Keeps /\ UNCHANGED <<files, unsynced, cache, pc>> /\ held[s] = None
          /\ logged' = [logged EXCEPT ![s] = @ + 1]
          /\ held'[s] # None => mem'[held'[s]] = <<s, logged[s] + 1>>
          /\ \A t \in Sources \ {s} :
               held'[t] = held[t] /\ (held[t] # None => mem'[held[t]] = mem[held[t]])
      BY <1>1, AllocMail DEF Alloc, card
    <2>2. Orders' /\ \A f : Found(f)' => Found(f)
      BY <2>1, <1>t, KeepsOrder
    <2>3. /\ logged'[s] = logged[s] + 1 /\ logged[s] \in Nat
          /\ \A t \in (Sources \union {"logger"}) \ {s} : logged'[t] = logged[t]
      BY <2>1, <1>t
    <2>4. ASSUME NEW f, Found(f) PROVE Older(f)'
      <3>1. Older(f) /\ f[1] \in Sources \union {"logger"} /\ f[2] \in Nat
        BY <1>t, <1>f, <2>4 DEF AgeInv
      <3>2. CASE f[1] = s
        BY <3>1, <3>2, <2>3 DEF Older
      <3>3. CASE f[1] # s
        BY <3>1, <3>3, <2>1, <2>3 DEF Older
      <3> QED BY <3>2, <3>3
    <2>5. ASSUME NEW t \in Sources, held'[t] # None PROVE mem'[held'[t]] = <<t, logged'[t]>>
      <3>1. CASE t = s
        BY <3>1, <2>1, <2>3, <2>5
      <3>2. CASE t # s
        BY <3>2, <2>1, <2>3, <2>5, <1>t DEF AgeInv
      <3> QED BY <3>1, <3>2
    <2>6. AgeInv'
      BY <2>2, <2>4, <2>5 DEF AgeInv
    <2> QED BY <2>2, <2>6 DEF OrderInv
  <1>2. ASSUME NEW s \in Sources, Post(s) PROVE OrderInv'
    <2> DEFINE g == <<s, logged[s]>>
    <2>1. /\ held[s] # None /\ held' = [held EXCEPT ![s] = None]
          /\ UNCHANGED <<files, unsynced, cache, logged, mem, pc>>
      BY <1>2 DEF Post, card
    <2>2. mem[held[s]] = g /\ g \in Packets
      BY <2>1, <1>t DEF AgeInv, Packets
    <2>3. \A f : Found(f) /\ f[1] = s => f[2] < logged[s]
      BY <2>1, <1>t DEF AgeInv, Older
    <2>4. \A f : Found(f) /\ f[1] = g[1] => f[2] < g[2]
      BY <2>3
    <2>5. Takes(g) \/ Keeps
      BY <1>2, <2>2, PostMail
    <2>6. Orders' /\ \A f : Found(f)' => Found(f) \/ f = g
      <3> HIDE DEF g
      <3> QED BY <2>1, <2>2, <2>4, <2>5, <1>t, TakesInOrder, KeepsOrder
    <2>7. held'[s] = None /\ \A t \in Sources \ {s} : held'[t] = held[t]
      BY <2>1, <1>t
    <2>8. ASSUME NEW f, Found(f)' PROVE Older(f)'
      <3>1. CASE Found(f)
        BY <3>1, <1>t, <2>1, <2>7 DEF AgeInv, Older
      <3>2. CASE f = g
        <4>1. f[1] = s /\ f[2] = logged[s] /\ logged[s] \in Nat
          BY <3>2, <1>t
        <4> QED BY <4>1, <2>1, <2>7 DEF Older
      <3> QED BY <3>1, <3>2, <2>6, <2>8
    <2>9. AgeInv'
      BY <2>1, <2>7, <2>8, <1>t DEF AgeInv
    <2> QED BY <2>6, <2>9 DEF OrderInv
  <1>3. CASE Header
    <2> DEFINE g == <<"logger", logged["logger"] + 1>>
    <2>1. /\ UNCHANGED <<files, unsynced, cache, held>> /\ pc \in Active
          /\ logged' = [logged EXCEPT !["logger"] = @ + 1]
      BY <1>3 DEF Header, Active, card
    <2>2. g \in Packets
      BY <1>t DEF Packets
    <2>3. \A f : Found(f) /\ f[1] = g[1] => f[2] < g[2]
      BY <1>t, <1>f DEF AgeInv, Older
    <2>4. /\ Takes(g) \/ Keeps
          /\ \A t \in Sources : held[t] # None => mem'[held[t]] = mem[held[t]]
      BY <1>3, HeaderMail
    <2>5. Orders' /\ \A f : Found(f)' => Found(f) \/ f = g
      <3> HIDE DEF g
      <3> QED BY <2>1, <2>2, <2>3, <2>4, <1>t, TakesInOrder, KeepsOrder
    <2>6. /\ logged'["logger"] = logged["logger"] + 1 /\ logged["logger"] \in Nat
          /\ \A t \in Sources : logged'[t] = logged[t]
      BY <2>1, <1>t
    <2>7. ASSUME NEW f, Found(f)' PROVE Older(f)'
      <3>1. CASE Found(f)
        <4>1. Older(f) /\ f[1] \in Sources \union {"logger"} /\ f[2] \in Nat
          BY <3>1, <1>t, <1>f DEF AgeInv
        <4> QED BY <4>1, <2>1, <2>6, <1>t DEF Older
      <3>2. CASE f = g
        BY <3>2, <2>6, <1>t DEF Older
      <3> QED BY <3>1, <3>2, <2>5, <2>7
    <2>8. AgeInv'
      BY <2>1, <2>4, <2>6, <2>7, <1>t DEF AgeInv
    <2> QED BY <2>5, <2>8 DEF OrderInv
  <1>4. CASE Fetch
    <2>1. UNCHANGED <<logged, held, mem>>
      BY <1>4 DEF Fetch
    <2> QED BY <1>4, <1>t, <2>1, FetchInOrder, AgeKept DEF OrderInv
  <1>5. CASE Write \/ WriteFails
    <2>1. UNCHANGED <<logged, held, mem>>
      BY <1>5, CardMail
    <2> QED BY <1>5, <1>t, <2>1, WriteInOrder, AgeKept DEF OrderInv
  <1>6. CASE Open
    <2>1. UNCHANGED <<logged, held, mem>>
      BY <1>6, CardMail
    <2> QED BY <1>6, <1>t, <2>1, OpenInOrder, AgeKept DEF OrderInv
  <1>7. CASE PowerCycle
    <2>1. /\ mailbox' = <<>> /\ cache' = <<>> /\ unsynced' = <<>> /\ pc' = "connect"
          /\ UNCHANGED <<files, logged>>
          /\ held' = [s \in Sources |-> None]
      BY <1>7 DEF PowerCycle
    <2>2. Len(Mail') = 0 /\ Len(cache') = 0 /\ Len(unsynced') = 0
      BY <2>1 DEF Mail
    <2>3. Orders'
      BY <2>1, <2>2, <1>t DEF Orders, Ordered, Precedes, In, Active
    <2>4. \A f : Found(f)' => Found(f)
      BY <2>1, <2>2 DEF Found, In
    <2>5. \A f : Older(f) => Older(f)'
      BY <2>1 DEF Older
    <2>6. AgeInv'
      BY <2>1, <2>4, <2>5, <1>t DEF AgeInv
    <2> QED BY <2>3, <2>6 DEF OrderInv
  <1>8. CASE Connect \/ ConnectFails \/ OpenFails \/ AllLogged \/ UNCHANGED vars
    <2>1. /\ Keeps /\ UNCHANGED <<files, unsynced, cache, logged, held, mem>>
          /\ pc' \in Active => pc \in Active
      BY <1>8, CardMail DEF Connect, ConnectFails, OpenFails, AllLogged, vars, card, Active
    <2> QED BY <1>t, <2>1, KeepsOrder, AgeKept DEF OrderInv
  <1> QED
    BY <1>1, <1>2, <1>3, <1>4, <1>5, <1>6, <1>7, <1>8 DEF Next, Logger

(* In every file the packets of a source are in the order in which it logged them, none
   twice, whatever was retried. *)
THEOREM FilesAreOrdered == Spec => []FilesInOrder
  <1>1. TypeInv /\ OrderInv => FilesInOrder
    <2> SUFFICES ASSUME TypeInv, OrderInv, NEW k \in DOMAIN files,
                        NEW m \in DOMAIN files[k], NEW n \in DOMAIN files[k],
                        m < n, files[k][m][1] = files[k][n][1]
                 PROVE  files[k][m][2] < files[k][n][2]
      BY DEF FilesInOrder
    <2>1. files \in Seq(Seq(Packets)) /\ k \in 1..Len(files)
      BY DEF TypeInv, TypeOK
    <2>2. DOMAIN files[k] = 1..Len(files[k])
      BY <2>1
    <2> QED BY <2>1, <2>2 DEF OrderInv, Orders, Ordered
  <1> QED BY <1>1, OrderInvInit, PoolInvHolds, OrderInvStep, PTL DEF Spec

=============================================================================
