------------------------------ MODULE RpcThrows ------------------------------
(***************************************************************************)
(* What the request functions promise when callbacks may throw: while a    *)
(* request is outstanding its callback may be run and throw any number of  *)
(* times; after a run that returned, or after the caller gave up, it is    *)
(* never run again.                                                        *)
(***************************************************************************)
EXTENDS Naturals

CONSTANT Id

VARIABLES
  phase,  \* of each identifier
  runs    \* how often its callback was run

Phase == {"unused", "pending", "over"}

Init == phase = [i \in Id |-> "unused"] /\ runs = [i \in Id |-> 0]

\* A request, with a callback or without.
Call(i) ==
  /\ phase[i] = "unused"
  /\ phase' \in {[phase EXCEPT ![i] = p] : p \in {"pending", "over"}}
  /\ UNCHANGED runs

Throw(i) ==
  /\ phase[i] = "pending"
  /\ runs' = [runs EXCEPT ![i] = @ + 1]
  /\ UNCHANGED phase

Answer(i) ==
  /\ phase[i] = "pending"
  /\ phase' = [phase EXCEPT ![i] = "over"]
  /\ runs' = [runs EXCEPT ![i] = @ + 1]

GiveUp(i) ==
  /\ phase[i] = "pending"
  /\ phase' = [phase EXCEPT ![i] = "over"]
  /\ UNCHANGED runs

Next == \E i \in Id : Call(i) \/ Throw(i) \/ Answer(i) \/ GiveUp(i)

Spec == Init /\ [][Next]_<<phase, runs>>
=============================================================================
