-------------------------- MODULE SessionContract ---------------------------
(***************************************************************************)
(* What a loaded model promises the threads that share it: every call is   *)
(* answered once, with the outputs of its own rows and under one binning   *)
(* map, or it raises; the map changes between calls only.                  *)
(***************************************************************************)
EXTENDS Naturals

CONSTANTS
  Threads,
  Questions,          \* the lists of items a call may carry
  Answers(_, _, _),   \* the reply to thread t's items under a map
  Raised              \* the reply of a call that fails

VARIABLES
  asked,              \* asked[t]: {the items thread t waits for}, or {}
  replied,            \* replied[t]: {what its last call came back with}, or {}
  map                 \* the binning map installed, by number

vars == <<asked, replied, map>>

Init ==
  /\ asked = [t \in Threads |-> {}]
  /\ replied = [t \in Threads |-> {}]
  /\ map = 0

Ask(t) ==
  /\ asked[t] = {}
  /\ \E items \in Questions : asked' = [asked EXCEPT ![t] = {items}]
  /\ UNCHANGED <<replied, map>>

Reply(t) ==
  /\ \E items \in asked[t] : \E r \in {Answers(t, items, map), Raised} :
       replied' = [replied EXCEPT ![t] = {r}]
  /\ asked' = [asked EXCEPT ![t] = {}]
  /\ UNCHANGED map

Install ==
  /\ \A t \in Threads : asked[t] = {}
  /\ map' = map + 1
  /\ UNCHANGED <<asked, replied>>

Next == Install \/ \E t \in Threads : Ask(t) \/ Reply(t)

\* A call asked for is answered or raises.
Spec == Init /\ [][Next]_vars /\ \A t \in Threads : WF_vars(Reply(t))
=============================================================================
