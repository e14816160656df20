----------------------------- MODULE PreloadInv -----------------------------
(***************************************************************************)
(* The inductive invariant behind the safety properties of Preload.        *)
(*                                                                         *)
(* That an adjustment leaves exactly the replicas asked for needs that the *)
(* documents it counted are still there, and no others, when it commits.   *)
(* A request that has locked what it counted is safe from changes of these *)
(* documents, not from new ones: what keeps those away is that whoever     *)
(* inserts them has locked documents too, which are among those counted    *)
(* here or came later still.                                               *)
(***************************************************************************)
EXTENDS Preload

(* What a transaction has written, and what it counts. *)
Writes(r) == r.locked \cup r.ins \cup r.del
Counts(r) == (r.seen \ r.del) \cup r.ins

(* Where a request may be with a transaction of each kind. *)
PhaseOK(r) ==
  /\ r.txn # "open" => r.locked = {} /\ r.ins = {} /\ r.del = {}
  /\ r.pc = "new" => r.touched = {}
  /\ r.txn = "fresh" => r.pc = "count" /\ r.touched = {}
  /\ r.pc \in {"lock", "change"} => r.txn = "open" /\ r.left > 0 /\ r.tries > 0
  /\ r.pc = "commit" /\ r.txn = "open" => r.tries > 0
  /\ r.txn = "open" => r.pc \in {"count", "retry", "lock", "change", "commit"}

(* What an open transaction saw is still live unless others touched it,    *)
(* what is live now and it did not see has been touched, and nobody        *)
(* touches what it has locked.                                             *)
SnapshotOK(r) ==
  r.txn = "open" =>
    /\ \A d \in r.seen \ r.touched : doc[d] = "live"
    /\ Live \subseteq r.seen \cup r.touched
    /\ r.locked \subseteq r.seen \ r.touched
    /\ r.del \subseteq r.locked \cup r.ins
    /\ \A d \in r.ins : doc[d] = "none"

(* What it is about to delete is its own. *)
LockedOK(r) == r.pc = "change" => Counts(r) \subseteq r.locked \cup r.ins

(* New documents come from adjustments that had locked others: one of what *)
(* the transaction saw has been touched, unless it was overtaken.          *)
NewcomersOK(r) ==
  r.txn = "open" /\ "overtaken" \notin r.excuse /\ ~(Live \subseteq r.seen) =>
    r.seen \cap r.touched # {}

(* What is left to do of the adjustment, in a transaction that was not     *)
(* continued after a lost reply.                                           *)
ProgressOK(r) ==
  LET n == Cardinality(Counts(r))
  IN  r.txn = "open" /\ "lost" \notin r.excuse =>
        /\ r.pc \in {"lock", "change", "commit"}
        /\ r.pc = "lock" => r.locked = {} /\ r.ins = {} /\ r.del = {}
        /\ r.pc # "lock" => r.locked = r.seen
        /\ r.pc # "commit" =>
             /\ n # r.target
             /\ r.left = IF n < r.target THEN r.target - n ELSE n - r.target
        /\ r.pc = "commit" => n = r.target
        /\ r.ins \cap r.del = {}
        /\ r.ins # {} => n <= r.target

RequestOK(r) ==
  PhaseOK(r) /\ SnapshotOK(r) /\ LockedOK(r) /\ NewcomersOK(r) /\ ProgressOK(r)

(* No two open transactions have written one document. *)
WritesApart ==
  \A c, o \in PreLoads :
    c # o /\ req[c].txn = "open" /\ req[o].txn = "open" =>
      Writes(req[c]) \cap Writes(req[o]) = {}

IInv ==
  /\ TypeOK
  /\ \A c \in PreLoads : RequestOK(req[c])
  /\ WritesApart
=============================================================================
