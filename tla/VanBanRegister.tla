--------------------------- MODULE VanBanRegister ---------------------------
(***************************************************************************)
(* What a register of documents promises, without forms, flows or users:   *)
(* an open document may be given numbers, each for the first time; it is   *)
(* issued under the number it has, and from then on it stands: its number  *)
(* does not change, it is not cancelled and it is not deleted.             *)
(***************************************************************************)
EXTENDS Integers

CONSTANTS Doc, NoNumber

VARIABLES
  status,       \* of each document
  number,       \* of each document
  given         \* numbers given to any document so far

vars == <<status, number, given>>

Init ==
  /\ status = [d \in Doc |-> "none"]
  /\ number = [d \in Doc |-> NoNumber]
  /\ given  = {}

\* n is no number, or one that was never given.
Give(n) ==
  \/ n = NoNumber /\ UNCHANGED given
  \/ n \in Nat \ given /\ given' = given \cup {n}

Register(d) ==
  /\ status[d] = "none"
  /\ status' = [status EXCEPT ![d] = "open"]
  /\ Give(number'[d])
  /\ number' = [number EXCEPT ![d] = number'[d]]

Renumber(d) ==
  /\ status[d] = "open"
  /\ Give(number'[d])
  /\ number' = [number EXCEPT ![d] = number'[d]]
  /\ UNCHANGED status

Issue(d) ==
  /\ status[d] = "open"
  /\ number[d] # NoNumber
  /\ status' = [status EXCEPT ![d] = "issued"]
  /\ UNCHANGED <<number, given>>

Cancel(d) ==
  /\ status[d] = "open"
  /\ status' = [status EXCEPT ![d] = "cancelled"]
  /\ number' = [number EXCEPT ![d] = NoNumber]
  /\ UNCHANGED given

Delete(d) ==
  /\ status[d] \in {"open", "cancelled"}
  /\ status' = [status EXCEPT ![d] = "deleted"]
  /\ number' = [number EXCEPT ![d] = NoNumber]
  /\ UNCHANGED given

Next == \E d \in Doc : Register(d) \/ Renumber(d) \/ Issue(d) \/ Cancel(d) \/ Delete(d)

Spec == Init /\ [][Next]_vars
=============================================================================
