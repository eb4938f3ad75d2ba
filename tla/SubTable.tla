------------------------------ MODULE SubTable ------------------------------
(***************************************************************************)
(* What the calls on one path promise of its subscribers.  AddSubscriber   *)
(* and DelSubscriber put the client in, or out, at one moment of the call, *)
(* and affect nobody else.  sendQueue takes a subscriber in hand, serves   *)
(* it, and enters it again with its mark: should the client have gone in   *)
(* between, it is back.                                                    *)
(***************************************************************************)
CONSTANTS Client, Publisher, Standing, Nobody

VARIABLES
  members,  \* the subscribers
  doing,    \* what each client's connection is executing
  done,     \* those whose call has had its effect already
  hand      \* the subscriber that each publisher's sendQueue has in hand

vars == <<members, doing, done, hand>>

Init ==
  /\ members = Standing
  /\ doing = [c \in Client |-> "none"]
  /\ done = {}
  /\ hand = [g \in Publisher |-> Nobody]

Start(c, op) ==
  /\ doing[c] = "none"
  /\ doing' = [doing EXCEPT ![c] = op]
  /\ UNCHANGED <<members, done, hand>>

Take(c) ==
  /\ doing[c] # "none" /\ c \notin done
  /\ members' = IF doing[c] = "add" THEN members \cup {c} ELSE members \ {c}
  /\ done' = done \cup {c}
  /\ UNCHANGED <<doing, hand>>

Return(c) ==
  /\ doing[c] # "none" /\ c \in done
  /\ doing' = [doing EXCEPT ![c] = "none"]
  /\ done' = done \ {c}
  /\ UNCHANGED <<members, hand>>

Serve(g) ==
  /\ hand[g] = Nobody
  /\ \E c \in members : hand' = [hand EXCEPT ![g] = c]
  /\ UNCHANGED <<members, doing, done>>

Mark(g) ==
  /\ hand[g] # Nobody
  /\ members' = members \cup {hand[g]}
  /\ hand' = [hand EXCEPT ![g] = Nobody]
  /\ UNCHANGED <<doing, done>>

Next ==
  \/ \E c \in Client :
       \/ \E op \in {"add", "del"} : Start(c, op)
       \/ Take(c)
       \/ Return(c)
  \/ \E g \in Publisher : Serve(g) \/ Mark(g)

Spec == Init /\ [][Next]_vars
=============================================================================
