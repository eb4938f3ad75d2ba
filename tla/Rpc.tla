-------------------------------- MODULE Rpc --------------------------------
(***************************************************************************)
(* What the request functions promise their caller: a callback is run at   *)
(* most once, only while the request is outstanding, and never again once  *)
(* the request was answered or given up.                                   *)
(***************************************************************************)
EXTENDS Naturals

CONSTANT Id

VARIABLES
  phase,  \* of each identifier
  runs    \* how often its callback was run

Phase == {"unused", "pending", "answered", "closed"}

TypeOK == phase \in [Id -> Phase] /\ runs \in [Id -> Nat]

Init == phase = [i \in Id |-> "unused"] /\ runs = [i \in Id |-> 0]

\* A request with a callback.
Call(i) ==
  /\ phase[i] = "unused"
  /\ phase' = [phase EXCEPT ![i] = "pending"]
  /\ UNCHANGED runs

\* A request nobody waits for.
Post(i) ==
  /\ phase[i] = "unused"
  /\ phase' = [phase EXCEPT ![i] = "closed"]
  /\ UNCHANGED runs

Answer(i) ==
  /\ phase[i] = "pending"
  /\ phase' = [phase EXCEPT ![i] = "answered"]
  /\ runs' = [runs EXCEPT ![i] = @ + 1]

GiveUp(i) ==
  /\ phase[i] = "pending"
  /\ phase' = [phase EXCEPT ![i] = "closed"]
  /\ UNCHANGED runs

Next == \E i \in Id : Call(i) \/ Post(i) \/ Answer(i) \/ GiveUp(i)

Spec == Init /\ [][Next]_<<phase, runs>>
=============================================================================
