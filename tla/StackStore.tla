----------------------------- MODULE StackStore -----------------------------
(***************************************************************************)
(* What a store of stacks promises, whatever its writers do inside.        *)
(*                                                                         *)
(* A stack is begun once, takes in items while it is open, and then        *)
(* becomes readable as a whole, with exactly the items it took in, or is   *)
(* lost as a whole; a readable stack never changes.  An item is taken in   *)
(* by one stack: that is when its put is acknowledged.                     *)
(***************************************************************************)
CONSTANTS Stacks, Items

VARIABLES
  phase,     \* phase[s]: "free", "open", "readable" or "lost"
  contents   \* contents[s]: the items stack s took in; of a readable stack,
             \* the items that can be read from it

vars == <<phase, contents>>

Init ==
  /\ phase = [s \in Stacks |-> "free"]
  /\ contents = [s \in Stacks |-> {}]

Moves(s, from, to) ==
  /\ phase[s] = from
  /\ phase' = [phase EXCEPT ![s] = to]

Begin(s) == Moves(s, "free", "open") /\ UNCHANGED contents

TakeIn(s, n) ==
  /\ phase[s] = "open"
  /\ \A t \in Stacks : n \notin contents[t]
  /\ contents' = [contents EXCEPT ![s] = @ \cup {n}]
  /\ UNCHANGED phase

Publish(s) == Moves(s, "open", "readable") /\ UNCHANGED contents

Lose(s) == Moves(s, "open", "lost") /\ UNCHANGED contents

Next ==
  \E s \in Stacks :
    \/ Begin(s)
    \/ \E n \in Items : TakeIn(s, n)
    \/ Publish(s)
    \/ Lose(s)

Spec == Init /\ [][Next]_vars
=============================================================================
