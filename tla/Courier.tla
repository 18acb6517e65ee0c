------------------------------ MODULE Courier ------------------------------
(***************************************************************************)
(* What the webhook service promises its partners: an item handed to the   *)
(* courier stays under way until the partner has taken it, the retries are *)
(* used up or the partner is gone.  It is handed over once, tried only     *)
(* while under way, and never taken up again afterwards.                   *)
(***************************************************************************)
EXTENDS Naturals

CONSTANTS Item,            \* what can be delivered, each to its partner
          Limit            \* retries after the first try

VARIABLES handed,          \* items given to the courier
          underway,        \* those it is still responsible for
          tries, taken,    \* tries made for each item, and those that succeeded
          gone             \* items whose partner can no longer be reached

cvars == <<handed, underway, tries, taken, gone>>

Settled(i) == taken[i] > 0 \/ tries[i] > Limit \/ i \in gone

Hand(S) ==
  /\ S \cap handed = {}
  /\ handed' = handed \cup S
  /\ underway' = underway \cup S
  /\ UNCHANGED <<tries, taken, gone>>

Try(i) ==
  /\ i \in underway
  /\ tries' = [tries EXCEPT ![i] = @ + 1]
  /\ taken' \in {taken, [taken EXCEPT ![i] = @ + 1]}
  /\ UNCHANGED <<handed, underway, gone>>

Close(i) ==
  /\ i \in underway /\ Settled(i)
  /\ underway' = underway \ {i}
  /\ UNCHANGED <<handed, tries, taken, gone>>

Leave(S) ==
  /\ gone' = gone \cup S
  /\ UNCHANGED <<handed, underway, tries, taken>>

CInit ==
  /\ handed = {} /\ underway = {} /\ gone = {}
  /\ tries = [i \in Item |-> 0] /\ taken = [i \in Item |-> 0]
CNext ==
  \/ \E S \in SUBSET Item : Hand(S) \/ Leave(S)
  \/ \E i \in Item : Try(i) \/ Close(i)
CSpec == CInit /\ [][CNext]_cvars
=============================================================================
