----------------------------- MODULE Datalogging -----------------------------
(***************************************************************************)
(* The data logger of the flight computer (m2fc/firmware/datalogging.c on  *)
(* top of microsd.c).  Every module logs packets: a packet is copied into  *)
(* an item of a fixed pool and the item's address posted to a mailbox; the *)
(* logger thread fetches it, copies the packet into a cache and frees the  *)
(* item; a full cache is written to the card in one piece.  When the write *)
(* fails it re-mounts the card, opens the next file and writes again,      *)
(* until that works.  Meanwhile the mailbox fills and packets are dropped. *)
(* What is written lasts once f_sync has succeeded; nobody looks whether   *)
(* it has.                                                                 *)
(*                                                                         *)
(* The logger outranks every thread that logs: they run only while it      *)
(* waits, for a packet or for the card.                                    *)
(***************************************************************************)
EXTENDS Integers, Sequences, SequencesExt

CONSTANTS
  Sources,      \* the threads that log
  PoolItems,    \* LOG_MEMPOOL_ITEMS: items in the pool, slots in the mailbox
  CacheSize,    \* LOG_CACHE_SIZE, in packets
  CardSize,     \* packets that fit on the card
  MaxPackets,   \* bound of the model: packets logged by each source
  MaxFaults     \* bound of the model: failed writes plus power losses

Items == 1..PoolItems
None == 0

ASSUME LoggerAssumption ==
  /\ PoolItems \in Nat \ {0} /\ CacheSize \in Nat \ {0}
  /\ CardSize \in Nat /\ MaxPackets \in Nat /\ MaxFaults \in Nat
  /\ "logger" \notin Sources

(* The logger itself logs its location and version when its file is open. *)
Packets == (Sources \union {"logger"}) \X Nat

VARIABLES
  free,     \* log_mempool: the stack of free items
  mem,      \* mempool_buffer: the packet in each item
  held,     \* per source: the item it has filled and not yet posted
  mailbox,  \* log_mailbox: items
  cache,    \* log_cache up to cache_ptr
  pc,       \* logger: "connect", "open", "location", "version", "fetch" or "write"
  status,   \* the datalogging status
  files,    \* what would be read of the log files, in the order of their numbers
  unsynced, \* written to the open file since its last f_sync that succeeded
  open,     \* 1 once this boot has an open file and its header
  short,    \* history: 1 once the card was too full for a write
  unconfirmed, \* history: packets whose f_sync failed, until a later one commits them
  logged,   \* history: packets each source has logged
  accepted, \* history: packets posted, but for those in memory when power was lost
  faults

card == <<files, unsynced, unconfirmed>>
vars == <<free, mem, held, mailbox, cache, pc, status, card, open, short,
          logged, accepted, faults>>

(* mem_init frees the items in turn. *)
FullPool == [n \in Items |-> PoolItems + 1 - n]
Zeroed == [i \in Items |-> <<"logger", 0>>]

Init ==
  /\ free = FullPool /\ mem = Zeroed
  /\ held = [s \in Sources |-> None]
  /\ mailbox = <<>> /\ cache = <<>>
  /\ pc = "connect" /\ status = "WAIT" /\ open = 0
  /\ files = <<>> /\ unsynced = <<>> /\ unconfirmed = {}
  /\ short = 0 /\ accepted = {} /\ faults = 0
  /\ logged = [s \in Sources \union {"logger"} |-> 0]

OnCard == UNION {ToSet(files[n]) : n \in DOMAIN files}
InMemory == ToSet(cache) \union {mem[mailbox[n]] : n \in DOMAIN mailbox}

(* Space that a write took and that was never committed is free again. *)
Room == CardSize - Len(unsynced) - FoldFunction(LAMBDA f, n : Len(f) + n, 0, files)

-----------------------------------------------------------------------------
(***************************************************************************)
(* Logging a packet: _log.                                                 *)
(***************************************************************************)

LoggerWaits == pc \in {"connect", "open", "write"} \/ (pc = "fetch" /\ mailbox = <<>>)

(* chPoolAlloc and memcpy; a packet that finds the pool empty is dropped. *)
Alloc(s) ==
  /\ LoggerWaits
  /\ held[s] = None /\ logged[s] < MaxPackets
  /\ logged' = [logged EXCEPT ![s] = @ + 1]
  /\ \/ /\ free = <<>>
        /\ UNCHANGED <<free, mem, held>>
     \/ /\ free # <<>>
        /\ free' = Tail(free)
        /\ mem' = [mem EXCEPT ![Head(free)] = <<s, logged[s] + 1>>]
        /\ held' = [held EXCEPT ![s] = Head(free)]
  /\ UNCHANGED <<mailbox, cache, pc, status, card, open, short, accepted, faults>>

(* chMBPost with TIME_IMMEDIATE, which gives the item back when it fails. *)
MBPost(item) ==
  IF Len(mailbox) < PoolItems
    THEN /\ mailbox' = Append(mailbox, item)
         /\ accepted' = accepted \union {mem'[item]}
         /\ UNCHANGED free
    ELSE /\ free' = <<item>> \o free
         /\ UNCHANGED <<mailbox, accepted>>

(* Fault: the item is freed although the mailbox has it. *)
Post_Frees(s) ==
  /\ LoggerWaits
  /\ held[s] # None
  /\ Len(mailbox) < PoolItems
  /\ mailbox' = Append(mailbox, held[s])
  /\ accepted' = accepted \union {mem[held[s]]}
  /\ free' = <<held[s]>> \o free
  /\ held' = [held EXCEPT ![s] = None]
  /\ UNCHANGED <<mem, cache, pc, status, card, open, short, logged, faults>>

Post(s) ==
  /\ LoggerWaits
  /\ held[s] # None
  /\ UNCHANGED mem
  /\ MBPost(held[s])
  /\ held' = [held EXCEPT ![s] = None]
  /\ UNCHANGED <<cache, pc, status, card, open, short, logged, faults>>

-----------------------------------------------------------------------------
(***************************************************************************)
(* The logger thread.  Each call into the card can fail.                   *)
(***************************************************************************)

(* microsd_card_try_init: it goes on until the card connects and mounts. *)
Connect ==
  /\ pc = "connect"
  /\ pc' = "open"
  /\ UNCHANGED <<free, mem, held, mailbox, cache, status, card, open, short,
                 logged, accepted, faults>>

ConnectFails == pc = "connect" /\ UNCHANGED vars

(* Fault: a retry goes on in the file that failed. *)
Open_SameFile ==
  /\ pc = "open"
  /\ files' = IF open = 0 THEN Append(files, <<>>) ELSE files
  /\ pc' = IF open = 0 THEN "location" ELSE "write"
  /\ UNCHANGED <<free, mem, held, mailbox, cache, status, unsynced, unconfirmed, open,
                 short, logged, accepted, faults>>

(* microsd_open_file_inc: create the first file whose number is not taken.
   The cache that could not be written is kept for the new file. *)
Open ==
  /\ pc = "open"
  /\ files' = Append(files, <<>>)
  /\ pc' = IF open = 0 THEN "location" ELSE "write"
  /\ UNCHANGED <<free, mem, held, mailbox, cache, status, unsynced, unconfirmed, open,
                 short, logged, accepted, faults>>

OpenFails ==
  /\ pc = "open"
  /\ pc' = "connect"
  /\ UNCHANGED <<free, mem, held, mailbox, cache, status, card, open, short,
                 logged, accepted, faults>>

(* The two packets the logger logs itself, once per boot. *)
Header ==
  /\ \/ pc = "location" /\ pc' = "version" /\ UNCHANGED <<open, status>>
     \/ pc = "version" /\ pc' = "fetch" /\ open' = 1 /\ status' = "OK"
  /\ logged' = [logged EXCEPT !["logger"] = @ + 1]
  /\ \/ /\ free = <<>>
        /\ UNCHANGED <<free, mem, mailbox, accepted>>
     \/ /\ free # <<>>
        /\ free' = Tail(free)
        /\ mem' = [mem EXCEPT ![Head(free)] = <<"logger", logged'["logger"]>>]
        /\ mailbox' = Append(mailbox, Head(free))
        /\ accepted' = accepted \union {mem'[Head(free)]}
  /\ UNCHANGED <<held, cache, card, short, faults>>

(* Fault: the item is not given back. *)
Fetch_NoFree ==
  /\ pc = "fetch" /\ mailbox # <<>>
  /\ cache' = Append(cache, mem[Head(mailbox)])
  /\ mailbox' = Tail(mailbox)
  /\ pc' = IF Len(cache) + 1 = CacheSize THEN "write" ELSE "fetch"
  /\ UNCHANGED <<free, mem, held, status, card, open, short, logged, accepted, faults>>

(* Fault: the test for a full cache is one packet late. *)
Fetch_PastEnd ==
  /\ pc = "fetch" /\ mailbox # <<>>
  /\ cache' = Append(cache, mem[Head(mailbox)])
  /\ mailbox' = Tail(mailbox)
  /\ free' = <<Head(mailbox)>> \o free
  /\ pc' = IF Len(cache) = CacheSize THEN "write" ELSE "fetch"
  /\ UNCHANGED <<mem, held, status, card, open, short, logged, accepted, faults>>

(* chMBFetch, memcpy to the cache, chPoolFree. *)
Fetch ==
  /\ pc = "fetch" /\ mailbox # <<>>
  /\ cache' = Append(cache, mem[Head(mailbox)])
  /\ mailbox' = Tail(mailbox)
  /\ free' = <<Head(mailbox)>> \o free
  /\ pc' = IF Len(cache) + 1 = CacheSize THEN "write" ELSE "fetch"
  /\ UNCHANGED <<mem, held, status, card, open, short, logged, accepted, faults>>

(* n packets of the cache are written, and f_sync or f_close makes them last together
   with what an earlier f_sync has not ... *)
Store(n) ==
  /\ files' = [files EXCEPT ![Len(files)] = @ \o unsynced \o SubSeq(cache, 1, n)]
  /\ unsynced' = <<>>
  /\ unconfirmed' = unconfirmed \ ToSet(unsynced)

(* ... or f_sync fails: a later one may do it. *)
Buffer(n) ==
  /\ unsynced' = unsynced \o SubSeq(cache, 1, n)
  /\ unconfirmed' = unconfirmed \union ToSet(SubSeq(cache, 1, n))
  /\ UNCHANGED files

(* microsd_write returns FR_OK.  The number of bytes written is not looked at:
   on a full card the rest of the cache is lost.  Nor is what f_sync returns. *)
Write ==
  /\ pc = "write"
  /\ \E n \in 0..Len(cache) :
       /\ n <= Room /\ n \in {Len(cache), Room}
       /\ \/ Store(n) /\ UNCHANGED faults
          \/ Buffer(n) /\ faults < MaxFaults /\ faults' = faults + 1
       /\ short' = IF n = Len(cache) THEN short ELSE 1
  /\ cache' = <<>>
  /\ pc' = "fetch"
  /\ status' = "OK"
  /\ UNCHANGED <<free, mem, held, mailbox, open, logged, accepted>>

(* microsd_close_file after a failed write: n packets and what was not yet committed are
   committed at last, or lost with the file object. *)
CloseFile ==
  \/ \E n \in 0..Len(cache) : n <= Room /\ Store(n)
  \/ unsynced' = <<>> /\ UNCHANGED <<files, unconfirmed>>

(* Fault: the cache is given up when its write fails. *)
WriteFails_DropsCache ==
  /\ pc = "write"
  /\ faults < MaxFaults /\ faults' = faults + 1
  /\ CloseFile
  /\ pc' = "connect" /\ cache' = <<>>
  /\ status' = "ERR"
  /\ UNCHANGED <<free, mem, held, mailbox, open, short, logged, accepted>>

(* The write fails, part-way or at once.  Close and unmount. *)
WriteFails ==
  /\ pc = "write"
  /\ faults < MaxFaults /\ faults' = faults + 1
  /\ CloseFile
  /\ pc' = "connect"
  /\ status' = "ERR"
  /\ UNCHANGED <<free, mem, held, mailbox, cache, open, short, logged, accepted>>

(* Power is lost and comes back: what is committed survives, what is in memory does not. *)
PowerCycle ==
  /\ faults < MaxFaults /\ faults' = faults + 1
  /\ free' = FullPool /\ mem' = Zeroed
  /\ held' = [s \in Sources |-> None]
  /\ mailbox' = <<>> /\ cache' = <<>> /\ unsynced' = <<>>
  /\ pc' = "connect" /\ status' = "WAIT" /\ open' = 0
  /\ accepted' = (accepted \ InMemory) \union OnCard
  /\ UNCHANGED <<files, unconfirmed, short, logged>>

(* Nothing is left to log; the logger waits for the next packet. *)
AllLogged ==
  /\ pc = "fetch" /\ mailbox = <<>>
  /\ \A s \in Sources : held[s] = None /\ logged[s] = MaxPackets
  /\ UNCHANGED vars

-----------------------------------------------------------------------------
Logger == Connect \/ Open \/ Header \/ Fetch \/ Write

Next ==
  \/ \E s \in Sources : Alloc(s) \/ Post(s)
  \/ Logger \/ ConnectFails \/ OpenFails \/ WriteFails \/ PowerCycle
  \/ AllLogged

Spec == Init /\ [][Next]_vars

(* A thread that logs gets its turn, and a card that is tried again and again
   connects, opens and writes in the end. *)
FairSpec ==
  /\ Spec
  /\ \A s \in Sources : WF_vars(Post(s))
  /\ WF_vars(Header \/ Fetch)
  /\ SF_vars(Connect) /\ SF_vars(Open) /\ SF_vars(Write)

-----------------------------------------------------------------------------
(***************************************************************************)
(* Properties.                                                             *)
(***************************************************************************)

(* Every variable has its type. *)
TypeOK ==
  /\ free \in Seq(Items) /\ mailbox \in Seq(Items)
  /\ mem \in [Items -> Packets]
  /\ held \in [Sources -> Items \union {None}]
  /\ cache \in Seq(Packets) /\ Len(cache) <= CacheSize
  /\ pc \in {"connect", "open", "location", "version", "fetch", "write"}
  /\ status \in {"WAIT", "OK", "ERR"}
  /\ files \in Seq(Seq(Packets)) /\ unsynced \in Seq(Packets)
  /\ unconfirmed \subseteq Packets
  /\ open \in {0, 1} /\ short \in {0, 1}
  /\ logged \in [Sources \union {"logger"} -> Nat]
  /\ accepted \subseteq Packets
  /\ faults \in 0..MaxFaults

(* Each item of the pool is in exactly one place: free, with a source that has
   still to post it, or in the mailbox.  No item leaks or is freed twice. *)
PoolConserved ==
  /\ \A i \in Items :
       Cardinality({n \in DOMAIN free : free[n] = i})
         + Cardinality({s \in Sources : held[s] = i})
         + Cardinality({n \in DOMAIN mailbox : mailbox[n] = i}) = 1

(* As long as the card has room, every packet that was accepted, in this boot or before,
   is on the card for good or in memory, whatever writes failed part-way; unless it was
   written and the f_sync that nobody looks at failed. *)
NothingLost == short = 0 => accepted \subseteq OnCard \union InMemory \union unconfirmed

(* Within one file the packets of one source are in the order in which it
   logged them, and none is there twice, retries included. *)
FilesInOrder ==
  \A k \in DOMAIN files : \A m, n \in DOMAIN files[k] :
    m < n /\ files[k][m][1] = files[k][n][1] => files[k][m][2] < files[k][n][2]

(* An exhausted pool recovers: logging resumes after any backlog. *)
PoolRecovers == free = <<>> ~> free # <<>>
=============================================================================
