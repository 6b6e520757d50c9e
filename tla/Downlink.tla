------------------------------ MODULE Downlink ------------------------------
(***************************************************************************)
(* StatusExchange and Radio together: from a thread of the nose that       *)
(* reports a status to the text that is on the air.  They share the radio  *)
(* board's copy of the nose's status, which m2serial_thread writes and the *)
(* timer interrupt reads, in the middle of a memcpy too.                   *)
(***************************************************************************)
EXTENDS StatusExchange

CONSTANTS TextLengths, InitLength, Wrap, BitsPerChar

ASSUME DownlinkAssumption ==
  /\ Wrap \in Nat /\ InitLength \in 1..(Wrap - 1) /\ BitsPerChar \in Nat \ {0}
  /\ DOMAIN TextLengths = Status
  /\ \A s \in Status :
       TextLengths[s] # {} /\ TextLengths[s] \subseteq Nat \ {0}

VARIABLES text, byteidx, bitidx

INSTANCE Radio

vars == <<exchangeVars, radioVars>>

Init == ExchangeInit /\ RadioInit

Next ==
  \/ ExchangeNext /\ UNCHANGED <<text, byteidx, bitidx>>
  \/ RadioNext /\ UNCHANGED <<rollupVars, sendVars, line, copying, ready, steady, damage>>

Spec == Init /\ [][Next]_vars

FairSpec == Spec /\ ExchangeFairness /\ RadioFairness

-----------------------------------------------------------------------------
(* What a subsystem of the nose reports, once it no longer changes, comes to be what is
   on the air and stays there, although it is reported again and again and the interrupt
   may read a struct that is half copied: unless a shell is left open for ever, or a text
   was made that is too long to end. *)
SettledIsHeard ==
  [](<>(mtx # "shell")) =>
    \A s \in Status : <>[]Settled(s) => <>[](text.sub = s) \/ <>[]TooLong
=============================================================================
