------------------------------ MODULE Preload ------------------------------
(***************************************************************************)
(* The Controller's pre_load and locate_stack                              *)
(* (services/controller/src/server.rs): requests served concurrently, each *)
(* adjusting, or reading, the preload documents of one stack.  Documents   *)
(* of other stacks match none of the filters, so one stack is modelled.    *)
(*                                                                         *)
(* MongoDB is external and modelled as the code uses it: a transaction     *)
(* reads the snapshot of its first operation and its own writes; writing   *)
(* a document that another open transaction has written, or that changed   *)
(* since the snapshot, is a write conflict: the server aborts the          *)
(* transaction and the error is a TransientTransactionError; so is every   *)
(* later operation of that transaction.  An operation can also fail with   *)
(* its effect in place, or lose the transaction with the primary.          *)
(***************************************************************************)
EXTENDS Integers, FiniteSets, FiniteSetsExt

CONSTANTS
  PreLoads,     \* concurrent pre_load requests
  Locates,      \* concurrent locate_stack requests
  Targets,      \* replicas callers ask for
  MaxReplicas,  \* _MAX_PRELAOD_REPLICAS: 5 in the code
  InitDocs,     \* preload documents there at the start
  MaxDocs,      \* bound on documents: enough for what all requests insert
  MaxTries,     \* max_try_time: 100 in the code
  MaxFaults     \* bound on failed operations

Docs == 1 .. MaxDocs

ASSUME TargetsAssumption == Targets \subseteq Int /\ MaxReplicas \in Nat
ASSUME BoundsAssumption ==
  /\ MaxDocs \in Nat /\ InitDocs \in 0 .. MaxDocs
  /\ MaxTries \in Nat \ {0} /\ MaxFaults \in Nat

VARIABLES
  doc,      \* doc[d]: "none" yet, in a state other than deleting, or ...
  req,      \* req[c]: the pre_load request and its transaction
  locate,   \* locate[c]: the locate_stack request
  faults

vars == <<doc, req, locate, faults>>

DocState == {"none", "live", "deleting", "gone"}

(* txn: "fresh" before its first operation, "open" with the snapshot       *)
(* `seen`, "committed" when only the reply is missing, "dead" when the     *)
(* server has aborted it and the driver does not know.                     *)
Request ==
  [pc : {"new", "count", "retry", "lock", "change", "commit", "recommit",
         "find", "ok", "err"},
   txn : {"none", "fresh", "open", "committed", "dead"},
   target : Int,
   seen : SUBSET Docs,     \* documents counted in the snapshot
   touched : SUBSET Docs,  \* documents others changed since the snapshot
   locked : SUBSET Docs, ins : SUBSET Docs, del : SUBSET Docs,
   left : Nat, tries : Nat,
   out : SUBSET Docs,      \* the assignments returned
   excuse : SUBSET {"overtaken", "lost"}]

NewRequest ==
  [pc |-> "new", txn |-> "none", target |-> 0, seen |-> {}, touched |-> {},
   locked |-> {}, ins |-> {}, del |-> {}, left |-> 0, tries |-> 0,
   out |-> {}, excuse |-> {}]

Init ==
  /\ doc = [d \in Docs |-> IF d <= InitDocs THEN "live" ELSE "none"]
  /\ req = [c \in PreLoads |-> NewRequest]
  /\ locate = [c \in Locates |-> [pc |-> "new", out |-> {}]]
  /\ faults = 0

-----------------------------------------------------------------------------
(* Mutant of Live: the state is left out of the filter. *)
AnyState == {d \in Docs : doc[d] \in {"live", "deleting"}}

(* The filter {"stack_id": .., "state": {"$ne": Deleting}}. *)
Live == {d \in Docs : doc[d] = "live"}

Fault == faults < MaxFaults /\ faults' = faults + 1

Becomes(c, r) == req' = [req EXCEPT ![c] = r]

At(c, pc) == req[c].pc = pc

Written(c) == req[c].locked \cup req[c].ins \cup req[c].del

(* What transaction c counts: its snapshot with its own writes. *)
View(c) ==
  IF req[c].txn = "open" THEN (req[c].seen \ req[c].del) \cup req[c].ins
                         ELSE Live

(* Writing d in transaction c is a write conflict. *)
Conflicts(c, d) ==
  \/ d \in req[c].touched
  \/ \E o \in PreLoads \ {c} : req[o].txn = "open" /\ d \in Written(o)

(* The server has aborted the transaction: its writes are gone. *)
Aborted(r, txn) ==
  [r EXCEPT !.txn = txn, !.locked = {}, !.ins = {}, !.del = {}]

(* The adjustment is over; the session's transaction with it. *)
Adjusted(r) == [Aborted(r, "none") EXCEPT !.pc = "find"]

-----------------------------------------------------------------------------
(* pre_load: replicas are capped, and a transaction is started that the    *)
(* server does not know of before its first operation.                     *)
Start(c, t) ==
  /\ At(c, "new")
  /\ Becomes(c, [req[c] EXCEPT !.pc = "count", !.txn = "fresh",
                   !.target = IF t > MaxReplicas THEN MaxReplicas ELSE t])
  /\ UNCHANGED <<doc, locate, faults>>

(* Mutant of NeedsLock: the documents counted are not locked. *)
NeverLocks(n) == FALSE

(* "lock all preload if exists" *)
NeedsLock(n) == n # 0

(* The first operation takes the snapshot. *)
Opened(c) ==
  IF req[c].txn = "fresh"
    THEN [req[c] EXCEPT !.txn = "open", !.seen = View(c)]
    ELSE req[c]

(* count_documents, and the branches up to the next operation. *)
Count(c) ==
  LET n == Cardinality(View(c))
      target == req[c].target
  IN  /\ At(c, "count")
      /\ req[c].txn \in {"fresh", "open"}
      /\ \/ /\ n = target
            /\ Becomes(c, Adjusted(Opened(c)))
         \/ /\ n # target
            /\ Becomes(c, [Opened(c) EXCEPT
                 !.pc = IF NeedsLock(n) THEN "lock" ELSE "change",
                 !.left = IF n < target THEN target - n ELSE n - target,
                 !.tries = MaxTries])
      /\ UNCHANGED <<doc, locate, faults>>

(* What the next operation of c makes of its transaction: update_many of   *)
(* the documents counted, those it inserted itself being its own; or one   *)
(* insert_one; or one delete_one, of whichever document the server picks.  *)
Unused(d) == doc[d] = "none" /\ \A c \in PreLoads : d \notin req[c].ins

Counted(c) == View(c) \ req[c].ins

AllLocked(c) == [req[c] EXCEPT !.locked = @ \cup Counted(c)]

OneInserted(c) ==
  {[req[c] EXCEPT !.ins = @ \cup {d}] :
     d \in {e \in Docs : Unused(e) /\ \A f \in Docs : Unused(f) => e <= f}}

OneDeleted(c) ==
  {[req[c] EXCEPT !.del = @ \cup {d}] :
     d \in {e \in View(c) : e \in req[c].ins \/ ~Conflicts(c, e)}}

Changed(c) ==
  IF Cardinality(View(c)) < req[c].target THEN OneInserted(c) ELSE OneDeleted(c)

CanLock(c) == \A d \in Counted(c) : ~Conflicts(c, d)

Lock(c) ==
  /\ At(c, "lock")
  /\ req[c].txn = "open"
  /\ CanLock(c)
  /\ Becomes(c, [AllLocked(c) EXCEPT !.pc = "change"])
  /\ UNCHANGED <<doc, locate, faults>>

(* A write conflict in the lock: the error goes up to pre_load, whose loop *)
(* tries again.                                                            *)
LockConflicts(c) ==
  /\ At(c, "lock")
  /\ req[c].txn = "open"
  /\ ~CanLock(c)
  /\ Becomes(c, [Aborted(req[c], "dead") EXCEPT !.pc = "retry"])
  /\ UNCHANGED <<doc, locate, faults>>

(* Mutant of OneDone: a successful insert or delete is not counted. *)
NoneDone(n) == n

OneDone(n) == n - 1

(* One turn of the loop that inserts what is missing, or deletes what is   *)
(* too much.  When nothing is left to delete, the loop turns in vain.      *)
Change(c) ==
  /\ At(c, "change")
  /\ req[c].txn = "open"
  /\ \E r \in Changed(c) :
       Becomes(c, [r EXCEPT !.left = OneDone(@),
                            !.pc = IF OneDone(r.left) = 0 THEN "commit" ELSE "change"])
  /\ UNCHANGED <<doc, locate, faults>>

(* An operation of the transaction fails with a transient error: the       *)
(* transaction is lost with the primary, or only the reply is and the      *)
(* operation has been carried out or not.                                  *)
OperationFails(c) ==
  /\ req[c].pc \in {"count", "lock", "change"}
  /\ req[c].txn \in {"fresh", "open"}
  /\ Fault
  /\ Becomes(c, [Aborted(req[c], "dead") EXCEPT !.pc = "retry"])
  /\ UNCHANGED <<doc, locate>>

CarriedOut(c) ==
  CASE At(c, "count")  -> {Opened(c)}
    [] At(c, "lock")   -> IF CanLock(c) THEN {AllLocked(c)} ELSE {}
    [] At(c, "change") -> Changed(c)

ReplyLost(c) ==
  /\ req[c].pc \in {"count", "lock", "change"}
  /\ req[c].txn \in {"fresh", "open"}
  /\ Fault
  /\ \E r \in CarriedOut(c) \cup (IF req[c].txn = "open" THEN {req[c]} ELSE {}) :
       Becomes(c, [r EXCEPT !.pc = "retry", !.excuse = @ \cup {"lost"}])
  /\ UNCHANGED <<doc, locate>>

(* A permanent error ends the request; the session is dropped and with it  *)
(* the transaction.                                                        *)
RequestFails(c) ==
  /\ req[c].pc \in {"count", "lock", "change", "find"}
  /\ Fault
  /\ Becomes(c, [Aborted(req[c], "none") EXCEPT !.pc = "err"])
  /\ UNCHANGED <<doc, locate>>

(* The loop in pre_load calls mongo_adjust_preload_replicas again, on the  *)
(* same session and without a new start_transaction.                       *)
Retry(c) ==
  /\ At(c, "retry")
  /\ Becomes(c, [req[c] EXCEPT !.pc = "count"])
  /\ UNCHANGED <<doc, locate, faults>>

(* The server knows no such transaction; the error is transient as well. *)
CountUnknown(c) ==
  /\ At(c, "count")
  /\ req[c].txn = "dead"
  /\ Becomes(c, [req[c] EXCEPT !.pc = "retry"])
  /\ UNCHANGED <<doc, locate, faults>>

-----------------------------------------------------------------------------
(* The effect of a commit of c: its writes appear; for every other         *)
(* transaction with a snapshot, what c wrote has been touched.  `r` is     *)
(* what becomes of c itself.  A commit that locked nothing overtakes them. *)
Commits(c, r) ==
  /\ doc' = [d \in Docs |-> CASE d \in req[c].del -> "gone"
                              [] d \in req[c].ins \ req[c].del -> "live"
                              [] OTHER -> doc[d]]
  /\ req' = [o \in PreLoads |->
               IF o = c THEN r
               ELSE IF req[o].txn = "open"
                 THEN [req[o] EXCEPT
                         !.touched = @ \cup Written(c),
                         !.excuse = IF req[c].locked = {}
                                      THEN @ \cup {"overtaken"} ELSE @]
                 ELSE req[o]]

Commit(c) ==
  /\ At(c, "commit")
  /\ req[c].txn = "open"
  /\ Commits(c, Adjusted(req[c]))
  /\ UNCHANGED <<locate, faults>>

(* UNKNOWN_TRANSACTION_COMMIT_RESULT: committed or not, try again; at the  *)
(* last try the request fails, and dropping the session aborts what is not *)
(* committed.                                                              *)
CommitUnknown(c) ==
  LET last == req[c].tries = 1
      tried == [req[c] EXCEPT !.tries = @ - 1]
  IN  /\ At(c, "commit")
      /\ req[c].txn = "open"
      /\ Fault
      /\ \/ Commits(c, IF last THEN [Aborted(tried, "none") EXCEPT !.pc = "err"]
                               ELSE Aborted(tried, "committed"))
         \/ /\ Becomes(c, IF last THEN [Aborted(tried, "none") EXCEPT !.pc = "err"]
                                  ELSE tried)
            /\ UNCHANGED doc
      /\ UNCHANGED locate

(* The commit is repeated after all and confirmed. *)
CommitConfirmed(c) ==
  /\ At(c, "commit")
  /\ req[c].txn = "committed"
  /\ Becomes(c, Adjusted(req[c]))
  /\ UNCHANGED <<doc, locate, faults>>

(* The transaction is lost with the primary before the commit.  The error  *)
(* is not of the unknown kind, and the loop goes round again.              *)
CommitLost(c) ==
  /\ At(c, "commit")
  /\ req[c].txn = "open"
  /\ Fault
  /\ Becomes(c, [Aborted(req[c], "dead") EXCEPT !.pc = "recommit"])
  /\ UNCHANGED <<doc, locate>>

Recommit(c) ==
  /\ req[c].pc \in {"commit", "recommit"}
  /\ req[c].txn = "dead"
  /\ Becomes(c, [req[c] EXCEPT !.pc = IF @ = "commit" THEN "recommit" ELSE "commit"])
  /\ UNCHANGED <<doc, locate, faults>>

(* A document is written with the fields of InnerPreLoad and read back     *)
(* with those of InnerPreLoadAssignment, none of which has a default.      *)
PreLoadFields ==
  {"stack_id", "state", "size", "loaded", "bserver", "creation_timestamp",
   "loaded_timestamp", "update_timestamp"}

AssignmentFields ==
  {"stack_id", "total_size", "loaded", "bserver", "data_addr",
   "creation_timestamp"}

(* The documents a loop over the cursor gets: it ends at the first one     *)
(* that does not decode.                                                   *)
Decoded(ds) == IF AssignmentFields \subseteq PreLoadFields THEN ds ELSE {}

(* The final find of pre_load. *)
Find(c) ==
  /\ At(c, "find")
  /\ Becomes(c, [req[c] EXCEPT !.pc = "ok", !.out = Decoded(Live)])
  /\ UNCHANGED <<doc, locate, faults>>

-----------------------------------------------------------------------------
(* locate_stack: all documents of the stack.  An error ends the loop over  *)
(* the cursor, but the end of the cursor does not.                         *)
Found == {d \in Docs : doc[d] \in {"live", "deleting"}}

Locate(c) ==
  /\ locate[c].pc = "new"
  /\ locate' = [locate EXCEPT ![c] =
                  [pc |-> IF Decoded(Found) = Found THEN "spin" ELSE "ok",
                   out |-> Decoded(Found)]]
  /\ UNCHANGED <<doc, req, faults>>

(* None => {} *)
Spin(c) ==
  /\ locate[c].pc \in {"spin", "spins"}
  /\ locate' = [locate EXCEPT ![c].pc = IF @ = "spin" THEN "spins" ELSE "spin"]
  /\ UNCHANGED <<doc, req, faults>>

(* External: a bserver gives a replica up.  A document an open transaction *)
(* has written has to wait.                                                *)
MarkDeleting(d) ==
  /\ doc[d] = "live"
  /\ \A c \in PreLoads : req[c].txn = "open" => d \notin Written(c)
  /\ doc' = [doc EXCEPT ![d] = "deleting"]
  /\ req' = [c \in PreLoads |->
               IF req[c].txn = "open" THEN [req[c] EXCEPT !.touched = @ \cup {d}]
                                      ELSE req[c]]
  /\ UNCHANGED <<locate, faults>>

-----------------------------------------------------------------------------
(* The steps of a request that was received. *)
Step(c) ==
  \/ Count(c)
  \/ Lock(c)
  \/ LockConflicts(c)
  \/ Change(c)
  \/ Retry(c)
  \/ CountUnknown(c)
  \/ Commit(c)
  \/ CommitConfirmed(c)
  \/ Recommit(c)
  \/ Find(c)

Failure(c) ==
  \/ OperationFails(c)
  \/ ReplyLost(c)
  \/ RequestFails(c)
  \/ CommitUnknown(c)
  \/ CommitLost(c)

Next ==
  \/ \E c \in PreLoads :
       \/ \E t \in Targets : Start(c, t)
       \/ Step(c)
       \/ Failure(c)
  \/ \E c \in Locates : Locate(c) \/ Spin(c)
  \/ \E d \in Docs : MarkDeleting(d)

Spec == Init /\ [][Next]_vars

(* The runtime polls the future of every request, and the driver's calls   *)
(* return: each step of a request received is taken, or a failure in its   *)
(* place.                                                                  *)
FairSpec ==
  /\ Spec
  /\ \A c \in PreLoads : WF_vars(Step(c))
  /\ \A c \in Locates : WF_vars(Spin(c))

-----------------------------------------------------------------------------
Alive(c) == req[c].txn \in {"fresh", "open", "committed"}

(* Type invariant; a request past its count has its own transaction, which *)
(* has written only what it saw or made (server.rs:222-237).               *)
TypeOK ==
  /\ doc \in [Docs -> DocState]
  /\ req \in [PreLoads -> Request]
  /\ locate \in [Locates -> [pc : {"new", "spin", "spins", "ok"}, out : SUBSET Docs]]
  /\ faults \in 0 .. MaxFaults
  /\ \A c \in PreLoads :
       /\ At(c, "change") => req[c].txn = "open"
       /\ req[c].del \subseteq req[c].locked \cup req[c].ins
       /\ \A d \in req[c].ins : doc[d] = "none"

(* server.rs:269, "change the replicas of stack preload to replicas":      *)
(* whenever an adjustment takes effect or finds nothing to do, exactly the *)
(* replicas asked for are there, whatever other requests, bservers and     *)
(* failures do meanwhile.  Excepted are one overtaken by a request that    *)
(* had counted zero and so locked nothing, and one that went on in a       *)
(* transaction with a lost reply.                                          *)
AdjustExact ==
  [][\A c \in PreLoads :
       /\ req[c].excuse = {}
       /\ \/ ~At(c, "find") /\ At(c, "find")' /\ req[c].txn # "committed"
          \/ req[c].txn = "open" /\ req'[c].txn = "committed"
       => Cardinality(Live') = req[c].target]_vars

(* server.rs:277, "once delete triggered, we ignore it": a document a      *)
(* bserver is deleting is left alone by every adjustment, also by one that *)
(* counted it before.                                                      *)
DeletingIgnored ==
  [][\A d \in Docs : doc[d] = "deleting" => doc'[d] = "deleting"]_vars

(* A request whose transaction the server still knows comes to an end: it  *)
(* returns or loses its transaction.  No lock is waited for and no loop    *)
(* runs dry, as long as the replicas asked for are not negative            *)
(* (server.rs:305-345).                                                    *)
LiveRequestEnds ==
  \A c \in PreLoads :
    Alive(c) /\ req[c].target >= 0 ~> ~Alive(c)

(* Stated by server.rs:269: after requests for the same replicas have all  *)
(* returned, the stack has these replicas.                                 *)
ReplicasAsAsked ==
  \A c \in PreLoads :
    /\ At(c, "ok")
    /\ \A o \in PreLoads : req[o].pc \in {"new", "ok"}
    /\ \A d \in Docs : doc[d] # "deleting"
    => \E o \in PreLoads : At(o, "ok") /\ Cardinality(Live) = req[o].target
=============================================================================
