--------------------------- MODULE PreloadProofs ---------------------------
(***************************************************************************)
(* The safety properties of Preload, for any number of requests, targets,  *)
(* replicas and failures.                                                  *)
(***************************************************************************)
EXTENDS PreloadInv, FiniteSetTheorems, TLAPS

(* Sets of documents are finite and have sizes. *)
LEMMA DocsCounted ==
  ASSUME NEW D \in SUBSET Docs
  PROVE  /\ IsFiniteSet(D) /\ Cardinality(D) \in Nat
         /\ Cardinality(D) = 0 <=> D = {}
<1>1. IsFiniteSet(Docs)
  <2>1. 1 \in Int /\ MaxDocs \in Int
    BY BoundsAssumption
  <2> QED BY <2>1, FS_Interval DEF Docs
<1>2. IsFiniteSet(D)
  BY <1>1, FS_Subset
<1> QED BY <1>2, FS_CardinalityType, FS_EmptySet

(* An insert adds one document, a delete takes one away. *)
LEMMA OneMoreOneLess ==
  ASSUME NEW D \in SUBSET Docs, NEW d \in Docs
  PROVE  /\ d \notin D => Cardinality(D \cup {d}) = Cardinality(D) + 1
         /\ d \in D => Cardinality(D \ {d}) = Cardinality(D) - 1
<1>1. IsFiniteSet(D)
  BY DocsCounted
<1>2. d \notin D => Cardinality(D \cup {d}) = Cardinality(D) + 1
  BY <1>1, FS_AddElement
<1>3. d \in D => Cardinality(D \ {d}) = Cardinality(D) - 1
  BY <1>1, FS_RemoveElement
<1> QED BY <1>2, <1>3

(* Nothing is requested at first. *)
THEOREM InitIInv == Init => IInv
<1> SUFFICES ASSUME Init PROVE IInv
  OBVIOUS
<1>1. NewRequest \in Request
  BY DEF NewRequest, Request
<1>2. req = [c \in PreLoads |-> NewRequest]
  BY DEF Init
<1>3. doc \in [Docs -> DocState]
  BY DEF Init, DocState
<1>4. locate \in [Locates -> [pc : {"new", "spin", "spins", "ok"}, out : SUBSET Docs]]
  BY DEF Init
<1>5. faults \in 0 .. MaxFaults
  BY BoundsAssumption DEF Init
<1>6. TypeOK
  BY <1>1, <1>2, <1>3, <1>4, <1>5 DEF TypeOK, At, NewRequest
<1>7. RequestOK(NewRequest)
  BY DEF RequestOK, PhaseOK, SnapshotOK, LockedOK, NewcomersOK, ProgressOK, NewRequest
<1>8. WritesApart
  BY <1>2 DEF WritesApart, NewRequest
<1> QED BY <1>2, <1>6, <1>7, <1>8 DEF IInv

-----------------------------------------------------------------------------
(* r, put in c's place, has written nothing that another open transaction  *)
(* has written.                                                            *)
Apart(c, r) ==
  r.txn = "open" =>
    \A o \in PreLoads \ {c} : req[o].txn = "open" => Writes(r) \cap Writes(req[o]) = {}

(* A step of one request that leaves the documents alone. *)
LEMMA OwnStep ==
  ASSUME IInv, NEW c \in PreLoads, NEW r \in Request, Becomes(c, r),
         UNCHANGED <<doc, locate>>, UNCHANGED faults \/ Fault,
         RequestOK(r), Apart(c, r)
  PROVE  IInv'
<1>1. /\ req' \in [PreLoads -> Request] /\ req'[c] = r
      /\ \A o \in PreLoads \ {c} : req'[o] = req[o]
  BY DEF IInv, TypeOK, Becomes
<1>2. faults' \in 0 .. MaxFaults
  BY BoundsAssumption DEF IInv, TypeOK, Fault
<1>3. \A o \in PreLoads : RequestOK(req'[o])
  BY <1>1 DEF IInv
<1>4. \A o \in PreLoads : RequestOK(req[o])'
  BY <1>3 DEF RequestOK, PhaseOK, SnapshotOK, LockedOK, NewcomersOK, ProgressOK, Live
<1>5. TypeOK'
  <2>1. ASSUME NEW o \in PreLoads
        PROVE  /\ req'[o].pc = "change" => req'[o].txn = "open"
               /\ req'[o].del \subseteq req'[o].locked \cup req'[o].ins
               /\ \A d \in req'[o].ins : doc[d] = "none"
    BY <1>3 DEF RequestOK, PhaseOK, SnapshotOK
  <2> QED BY <1>1, <1>2, <2>1 DEF IInv, TypeOK, At
<1>6. WritesApart'
  BY <1>1 DEF WritesApart, IInv, Apart
<1> QED BY <1>4, <1>5, <1>6 DEF IInv

(* The transaction is over: nothing is promised of it. *)
LEMMA OverStep ==
  ASSUME IInv, NEW c \in PreLoads, NEW r \in Request, Becomes(c, r),
         UNCHANGED <<doc, locate>>, UNCHANGED faults \/ Fault,
         r.txn \in {"none", "dead", "committed"},
         r.locked = {}, r.ins = {}, r.del = {},
         r.pc \notin {"new", "lock", "change"}
  PROVE  IInv'
<1>1. RequestOK(r)
  BY DEF RequestOK, PhaseOK, SnapshotOK, LockedOK, NewcomersOK, ProgressOK
<1>2. Apart(c, r)
  BY DEF Apart
<1> QED BY <1>1, <1>2, OwnStep

(* What an aborted transaction leaves. *)
LEMMA AbortedTyped ==
  ASSUME NEW r \in Request, NEW txn \in {"none", "dead", "committed"}
  PROVE  /\ Aborted(r, txn) \in Request /\ Aborted(r, txn).txn = txn
         /\ Aborted(r, txn).locked = {} /\ Aborted(r, txn).ins = {}
         /\ Aborted(r, txn).del = {} /\ Aborted(r, txn).pc = r.pc
BY DEF Aborted, Request

(* pre_load: the replicas asked for are capped (server.rs:299-303). *)
LEMMA StartStep ==
  ASSUME IInv, NEW c \in PreLoads, NEW t \in Targets, Start(c, t)
  PROVE  IInv'
<1> DEFINE q == req[c]
           target == IF t > MaxReplicas THEN MaxReplicas ELSE t
           r == [q EXCEPT !.pc = "count", !.txn = "fresh", !.target = target]
<1>1. /\ q \in Request /\ q.pc = "new" /\ Becomes(c, r) /\ UNCHANGED <<doc, locate, faults>>
  BY DEF IInv, TypeOK, Start, At
<1>2. target \in Int
  BY TargetsAssumption
<1>3. q.txn # "open" /\ q.touched = {} /\ q.locked = {} /\ q.ins = {} /\ q.del = {}
  BY <1>1 DEF IInv, RequestOK, PhaseOK
<1> HIDE DEF q, target
<1>4. /\ r \in Request /\ r.pc = "count" /\ r.txn = "fresh" /\ r.touched = {}
      /\ r.locked = {} /\ r.ins = {} /\ r.del = {}
  BY <1>1, <1>2, <1>3 DEF Request
<1> HIDE DEF r
<1>5. RequestOK(r)
  BY <1>4 DEF RequestOK, PhaseOK, SnapshotOK, LockedOK, NewcomersOK, ProgressOK
<1>6. Apart(c, r)
  BY <1>4 DEF Apart
<1> QED BY <1>1, <1>4, <1>5, <1>6, OwnStep

(* Failures that end the transaction or the request, and waiting for one   *)
(* that is gone.                                                           *)
LEMMA OverSteps ==
  ASSUME IInv, NEW c \in PreLoads,
         \/ LockConflicts(c) \/ OperationFails(c) \/ RequestFails(c)
         \/ CountUnknown(c) \/ CommitConfirmed(c) \/ CommitLost(c)
         \/ Recommit(c) \/ Find(c)
  PROVE  IInv'
<1> DEFINE q == req[c]
<1>1. q \in Request /\ RequestOK(q)
  BY DEF IInv, TypeOK
<1>2. q.txn # "open" => q.locked = {} /\ q.ins = {} /\ q.del = {}
  BY <1>1 DEF RequestOK, PhaseOK
<1>3. CASE LockConflicts(c) \/ OperationFails(c) \/ RequestFails(c) \/ CommitLost(c)
  <2>1. PICK txn \in {"none", "dead"}, pc \in {"retry", "err", "recommit"} :
          Becomes(c, [Aborted(q, txn) EXCEPT !.pc = pc])
    BY <1>3 DEF LockConflicts, OperationFails, RequestFails, CommitLost
  <2>2. UNCHANGED <<doc, locate>> /\ (UNCHANGED faults \/ Fault)
    BY <1>3 DEF LockConflicts, OperationFails, RequestFails, CommitLost
  <2> DEFINE a == Aborted(q, txn)
             r == [a EXCEPT !.pc = pc]
  <2>3. a \in Request /\ a.txn = txn /\ a.locked = {} /\ a.ins = {} /\ a.del = {}
    BY <1>1, AbortedTyped
  <2>4. Becomes(c, r)
    BY <2>1
  <2> HIDE DEF a
  <2>5. /\ r \in Request /\ r.txn = txn /\ r.pc = pc
        /\ r.locked = {} /\ r.ins = {} /\ r.del = {}
    BY <2>3 DEF Request
  <2> HIDE DEF r
  <2> QED BY <2>2, <2>4, <2>5, OverStep
<1>4. CASE CommitConfirmed(c)
  <2> DEFINE a == Aborted(q, "none")
             r == [a EXCEPT !.pc = "find"]
  <2>1. Becomes(c, r) /\ UNCHANGED <<doc, locate, faults>>
    BY <1>4 DEF CommitConfirmed, Adjusted
  <2>2. a \in Request /\ a.txn = "none" /\ a.locked = {} /\ a.ins = {} /\ a.del = {}
    BY <1>1, AbortedTyped
  <2> HIDE DEF a
  <2>3. /\ r \in Request /\ r.txn = "none" /\ r.pc = "find"
        /\ r.locked = {} /\ r.ins = {} /\ r.del = {}
    BY <2>2 DEF Request
  <2> HIDE DEF r
  <2> QED BY <2>1, <2>3, OverStep
<1>5. CASE CountUnknown(c) \/ Recommit(c)
  <2>1. q.txn = "dead" /\ UNCHANGED <<doc, locate, faults>>
    BY <1>5 DEF CountUnknown, Recommit
  <2>2. PICK pc \in {"retry", "recommit", "commit"} : Becomes(c, [q EXCEPT !.pc = pc])
    BY <1>5 DEF CountUnknown, Recommit
  <2> DEFINE r == [q EXCEPT !.pc = pc]
  <2> HIDE DEF q
  <2>3. /\ r \in Request /\ r.txn = "dead" /\ r.pc = pc
        /\ r.locked = {} /\ r.ins = {} /\ r.del = {}
    BY <1>1, <1>2, <2>1 DEF Request
  <2> QED BY <2>1, <2>2, <2>3, OverStep
<1>6. CASE Find(c)
  <2> DEFINE out == Decoded(Live)
             r == [q EXCEPT !.pc = "ok", !.out = out]
  <2>1. q.pc = "find" /\ Becomes(c, r) /\ UNCHANGED <<doc, locate, faults>>
    BY <1>6 DEF Find, At
  <2>2. q.txn \in {"none", "dead", "committed"}
    BY <1>1, <2>1 DEF RequestOK, PhaseOK, Request
  <2>3. out \subseteq Docs
    BY DEF Decoded, Live
  <2> HIDE DEF q, out
  <2>4. /\ r \in Request /\ r.txn = q.txn /\ r.pc = "ok"
        /\ r.locked = {} /\ r.ins = {} /\ r.del = {}
    BY <1>1, <1>2, <2>2, <2>3 DEF Request
  <2> HIDE DEF r
  <2> QED BY <2>1, <2>2, <2>4, OverStep
<1> QED BY <1>3, <1>4, <1>5, <1>6

-----------------------------------------------------------------------------
(* The transaction of a request in progress, and the result r of its next  *)
(* operation, whatever the reply.                                          *)
SnapOK(c, r) ==
  /\ r \in Request /\ r.txn = "open"
  /\ SnapshotOK(r) /\ NewcomersOK(r) /\ Apart(c, r)

(* What an open transaction counts is its snapshot and its writes. *)
LEMMA ViewTyped ==
  ASSUME IInv, NEW c \in PreLoads
  PROVE  /\ View(c) \in SUBSET Docs
         /\ req[c].txn = "open" => View(c) = Counts(req[c])
         /\ req[c].txn # "open" => View(c) = Live
BY DEF IInv, TypeOK, Request, View, Counts, Live

(* The first operation takes a snapshot of what is live. *)
LEMMA OpenedSnap ==
  ASSUME IInv, NEW c \in PreLoads, req[c].txn \in {"fresh", "open"}
  PROVE  LET q == req[c]
             r == Opened(c)
         IN  /\ SnapOK(c, r) /\ Counts(r) = View(c)
             /\ r.target = q.target /\ r.excuse = q.excuse /\ r.pc = q.pc
             /\ q.txn = "fresh" => /\ r.seen = View(c) /\ r.locked = {}
                                   /\ r.ins = {} /\ r.del = {}
<1> DEFINE q == req[c]
           r == Opened(c)
           view == View(c)
<1>1. q \in Request /\ RequestOK(q) /\ view \in SUBSET Docs
  BY ViewTyped DEF IInv, TypeOK
<1>2. CASE q.txn = "open"
  <2>1. r = q
    BY <1>2 DEF Opened
  <2>2. Apart(c, q)
    BY DEF IInv, WritesApart, Apart
  <2> QED BY <1>1, <1>2, <2>1, <2>2, ViewTyped DEF RequestOK, SnapOK
<1>3. CASE q.txn = "fresh"
  <2>1. q.touched = {} /\ q.locked = {} /\ q.ins = {} /\ q.del = {}
    BY <1>1, <1>3 DEF RequestOK, PhaseOK
  <2>2. r = [q EXCEPT !.txn = "open", !.seen = view] /\ view = Live
    BY <1>3, ViewTyped DEF Opened
  <2> HIDE DEF q, view, r
  <2>3. /\ r \in Request /\ r.txn = "open" /\ r.seen = view /\ r.touched = {}
        /\ r.locked = {} /\ r.ins = {} /\ r.del = {}
        /\ r.target = q.target /\ r.excuse = q.excuse /\ r.pc = q.pc
    BY <1>1, <2>1, <2>2 DEF Request
  <2>4. SnapshotOK(r) /\ NewcomersOK(r)
    BY <2>2, <2>3 DEF SnapshotOK, NewcomersOK, Live
  <2>5. Apart(c, r) /\ Counts(r) = view
    BY <2>3 DEF Apart, Writes, Counts
  <2> QED BY <2>3, <2>4, <2>5 DEF SnapOK, q, r, view
<1> QED BY <1>2, <1>3

(* update_many locks what was counted and nobody else has touched          *)
(* (server.rs:276-288).                                                    *)
LEMMA LockedSnap ==
  ASSUME IInv, NEW c \in PreLoads, req[c].txn = "open", CanLock(c)
  PROVE  LET q == req[c]
             r == AllLocked(c)
         IN  /\ SnapOK(c, r) /\ Counts(r) = Counts(q)
             /\ Counts(r) \subseteq r.locked \cup r.ins
             /\ r.seen = q.seen /\ r.ins = q.ins /\ r.del = q.del
             /\ r.locked = q.locked \cup (Counts(q) \ q.ins)
             /\ r.target = q.target /\ r.excuse = q.excuse /\ r.pc = q.pc
             /\ r.left = q.left /\ r.tries = q.tries
<1> DEFINE q == req[c]
           r == AllLocked(c)
           L == Counts(q) \ q.ins
<1>1. q \in Request /\ RequestOK(q)
  BY DEF IInv, TypeOK
<1>2. L = Counted(c) /\ L \in SUBSET Docs /\ L \subseteq q.seen
  BY <1>1, ViewTyped DEF Counted, Counts, Request
<1>3. \A d \in L : /\ d \notin q.touched
                   /\ \A o \in PreLoads \ {c} : req[o].txn = "open" => d \notin Writes(req[o])
  BY <1>2 DEF CanLock, Conflicts, Written, Writes
<1>4. r = [q EXCEPT !.locked = q.locked \cup L]
  BY <1>2 DEF AllLocked
<1>5. Apart(c, q)
  BY DEF IInv, WritesApart, Apart
<1>6. Counts(q) \subseteq L \cup q.ins
  OBVIOUS
<1>7. q.txn = "open" /\ SnapshotOK(q) /\ NewcomersOK(q)
  BY <1>1 DEF RequestOK
<1> HIDE DEF q, r, L
<1>8. /\ r \in Request /\ r.txn = "open" /\ r.locked = q.locked \cup L
      /\ r.seen = q.seen /\ r.ins = q.ins /\ r.del = q.del /\ r.touched = q.touched
      /\ r.target = q.target /\ r.excuse = q.excuse /\ r.pc = q.pc
      /\ r.left = q.left /\ r.tries = q.tries
  BY <1>1, <1>2, <1>4, <1>7 DEF Request
<1>9. SnapshotOK(r)
  BY <1>2, <1>3, <1>7, <1>8 DEF SnapshotOK
<1>10. NewcomersOK(r)
  BY <1>7, <1>8 DEF NewcomersOK
<1>11. Apart(c, r)
  BY <1>3, <1>5, <1>7, <1>8 DEF Apart, Writes
<1>12. Counts(r) = Counts(q)
  BY <1>8 DEF Counts
<1> QED BY <1>6, <1>8, <1>9, <1>10, <1>11, <1>12 DEF SnapOK, q, r, L

(* insert_one makes a new document, delete_one takes one that the          *)
(* transaction has locked or made itself (server.rs:305-345).              *)
LEMMA ChangedSnap ==
  ASSUME IInv, NEW c \in PreLoads, req[c].pc = "change", NEW r \in Changed(c)
  PROVE  LET q == req[c]
             n == Cardinality(Counts(q))
         IN  /\ SnapOK(c, r) /\ Counts(r) \subseteq r.locked \cup r.ins
             /\ r.seen = q.seen /\ r.locked = q.locked
             /\ r.target = q.target /\ r.excuse = q.excuse /\ r.pc = q.pc
             /\ r.left = q.left /\ r.tries = q.tries
             /\ \E d \in Docs :
                  \/ /\ n < q.target /\ r.ins = q.ins \cup {d} /\ r.del = q.del
                     /\ d \notin Counts(q) /\ d \notin q.del
                  \/ /\ ~(n < q.target) /\ r.del = q.del \cup {d} /\ r.ins = q.ins
                     /\ d \in Counts(q)
<1> DEFINE q == req[c]
           n == Cardinality(Counts(q))
<1>1. q \in Request /\ RequestOK(q) /\ q.txn = "open" /\ Apart(c, q)
  <2>1. q \in Request /\ RequestOK(q)
    BY DEF IInv, TypeOK
  <2>2. q.txn = "open"
    BY <2>1 DEF RequestOK, PhaseOK
  <2> QED BY <2>1, <2>2 DEF IInv, WritesApart, Apart
<1>2. SnapshotOK(q) /\ NewcomersOK(q) /\ Counts(q) \subseteq q.locked \cup q.ins
  BY <1>1 DEF RequestOK, LockedOK
<1>3. View(c) = Counts(q)
  BY <1>1, ViewTyped
<1>4. CASE n < q.target
  <2>1. PICK d \in Docs : Unused(d) /\ r = [q EXCEPT !.ins = q.ins \cup {d}]
    BY <1>3, <1>4 DEF Changed, OneInserted
  <2>2. doc[d] = "none" /\ \A o \in PreLoads : d \notin req[o].ins
    BY <2>1 DEF Unused
  <2>3. \A o \in PreLoads : req[o].txn = "open" => d \notin Writes(req[o])
    <3>1. ASSUME NEW o \in PreLoads, req[o].txn = "open" PROVE d \notin Writes(req[o])
      <4>1. SnapshotOK(req[o])
        BY DEF IInv, RequestOK
      <4>2. d \notin req[o].locked
        BY <2>2, <3>1, <4>1 DEF SnapshotOK
      <4> QED BY <2>2, <3>1, <4>1, <4>2 DEF SnapshotOK, Writes
    <3> QED BY <3>1
  <2>4. d \notin Writes(q)
    BY <1>1, <2>3
  <2>5. d \notin Counts(q)
    BY <1>2, <2>4 DEF Writes
  <2> HIDE DEF q
  <2>6. /\ r \in Request /\ r.txn = "open" /\ r.ins = q.ins \cup {d} /\ r.del = q.del
        /\ r.seen = q.seen /\ r.locked = q.locked /\ r.touched = q.touched
        /\ r.target = q.target /\ r.excuse = q.excuse /\ r.pc = q.pc
        /\ r.left = q.left /\ r.tries = q.tries
    BY <1>1, <2>1 DEF Request
  <2>7. SnapshotOK(r) /\ NewcomersOK(r)
    BY <1>1, <1>2, <2>2, <2>6 DEF SnapshotOK, NewcomersOK
  <2>8. Apart(c, r)
    BY <1>1, <2>3, <2>6 DEF Apart, Writes
  <2>9. Counts(r) \subseteq r.locked \cup r.ins
    BY <1>2, <2>6 DEF Counts
  <2>10. d \notin q.del
    BY <2>4 DEF Writes
  <2> QED BY <1>4, <2>5, <2>6, <2>7, <2>8, <2>9, <2>10 DEF SnapOK, q
<1>5. CASE ~(n < q.target)
  <2>1. PICK d \in View(c) : /\ d \in q.ins \/ ~Conflicts(c, d)
                             /\ r = [q EXCEPT !.del = q.del \cup {d}]
    BY <1>3, <1>5 DEF Changed, OneDeleted
  <2>2. d \in Counts(q) /\ d \in q.locked \cup q.ins
    BY <1>2, <1>3, <2>1
  <2> HIDE DEF q
  <2>3. q.del \cup {d} \in SUBSET Docs /\ d \in Docs
    BY <1>1, <2>2 DEF Request
  <2>4. /\ r \in Request /\ r.txn = "open" /\ r.del = q.del \cup {d} /\ r.ins = q.ins
        /\ r.seen = q.seen /\ r.locked = q.locked /\ r.touched = q.touched
        /\ r.target = q.target /\ r.excuse = q.excuse /\ r.pc = q.pc
        /\ r.left = q.left /\ r.tries = q.tries
    BY <1>1, <2>1, <2>3 DEF Request
  <2>5. SnapshotOK(r) /\ NewcomersOK(r)
    BY <1>1, <1>2, <2>2, <2>4 DEF SnapshotOK, NewcomersOK
  <2>6. Writes(r) = Writes(q)
    BY <2>2, <2>4 DEF Writes
  <2>7. Apart(c, r)
    BY <1>1, <2>4, <2>6 DEF Apart
  <2>8. Counts(r) \subseteq r.locked \cup r.ins
    BY <1>2, <2>4 DEF Counts
  <2> QED BY <1>5, <2>2, <2>3, <2>4, <2>5, <2>7, <2>8 DEF SnapOK, q
<1> QED BY <1>4, <1>5

(* The request goes on from there: only the locals of the loop change, and *)
(* an excuse may be added.                                                 *)
LEMMA SnapStep ==
  ASSUME IInv, NEW c \in PreLoads, NEW q, SnapOK(c, q), NEW r \in Request,
         r.txn = "open", r.seen = q.seen, r.touched = q.touched,
         r.locked = q.locked, r.ins = q.ins, r.del = q.del,
         q.excuse \subseteq r.excuse,
         Becomes(c, r), UNCHANGED <<doc, locate>>, UNCHANGED faults \/ Fault,
         PhaseOK(r), LockedOK(r), ProgressOK(r)
  PROVE  IInv'
<1>1. SnapshotOK(r) /\ NewcomersOK(r)
  BY DEF SnapOK, SnapshotOK, NewcomersOK
<1>2. Apart(c, r)
  BY DEF SnapOK, Apart, Writes
<1> QED BY <1>1, <1>2, OwnStep DEF RequestOK

-----------------------------------------------------------------------------
(* count_documents: nothing to do, or what there is to do is noted         *)
(* (server.rs:269-304).                                                    *)
LEMMA CountStep ==
  ASSUME IInv, NEW c \in PreLoads, Count(c)
  PROVE  IInv'
<1> DEFINE q == req[c]
           o == Opened(c)
           n == Cardinality(View(c))
           target == q.target
<1>1. /\ q \in Request /\ RequestOK(q) /\ q.pc = "count" /\ q.txn \in {"fresh", "open"}
      /\ UNCHANGED <<doc, locate, faults>>
  BY DEF IInv, TypeOK, Count, At
<1>2. /\ SnapOK(c, o) /\ Counts(o) = View(c)
      /\ o.target = target /\ o.excuse = q.excuse
      /\ q.txn = "fresh" => /\ o.seen = View(c) /\ o.locked = {}
                            /\ o.ins = {} /\ o.del = {}
  BY <1>1, OpenedSnap
<1>3. n \in Nat /\ target \in Int /\ (n = 0 <=> View(c) = {})
  BY <1>1, ViewTyped, DocsCounted DEF Request
<1>4. CASE n = target /\ Becomes(c, Adjusted(o))
  <2> DEFINE a == Aborted(o, "none")
             r == [a EXCEPT !.pc = "find"]
  <2>1. a \in Request /\ a.txn = "none" /\ a.locked = {} /\ a.ins = {} /\ a.del = {}
    BY <1>2, AbortedTyped DEF SnapOK
  <2>2. Becomes(c, r)
    BY <1>4 DEF Adjusted
  <2> HIDE DEF a
  <2>3. /\ r \in Request /\ r.txn = "none" /\ r.pc = "find"
        /\ r.locked = {} /\ r.ins = {} /\ r.del = {}
    BY <2>1 DEF Request
  <2> HIDE DEF r
  <2> QED BY <1>1, <2>2, <2>3, OverStep
<1> DEFINE pc == IF NeedsLock(n) THEN "lock" ELSE "change"
           left == IF n < target THEN target - n ELSE n - target
           r == [o EXCEPT !.pc = pc, !.left = left, !.tries = MaxTries]
<1>5. CASE n # target /\ Becomes(c, r)
  <2>1. left \in Nat /\ left > 0 /\ MaxTries \in Nat /\ MaxTries > 0
    <3> HIDE DEF n, target
    <3> QED BY <1>3, <1>5, BoundsAssumption
  <2>2. pc \in {"lock", "change"} /\ (pc = "change" => View(c) = {})
    BY <1>3 DEF NeedsLock
  <2>3. o \in Request /\ o.txn = "open"
    BY <1>2 DEF SnapOK
  <2>4. "lost" \notin q.excuse => q.txn = "fresh"
    BY <1>1 DEF RequestOK, ProgressOK
  <2> HIDE DEF o, pc, left
  <2>5. /\ r \in Request /\ r.txn = "open" /\ r.pc = pc /\ r.left = left
        /\ r.tries = MaxTries /\ r.seen = o.seen /\ r.touched = o.touched
        /\ r.locked = o.locked /\ r.ins = o.ins /\ r.del = o.del
        /\ r.excuse = q.excuse /\ r.target = target
    BY <1>2, <2>1, <2>2, <2>3 DEF Request
  <2>6. Counts(r) = View(c)
    BY <1>2, <2>5 DEF Counts
  <2> HIDE DEF r
  <2>7. PhaseOK(r)
    BY <2>1, <2>2, <2>5 DEF PhaseOK
  <2>8. LockedOK(r)
    BY <2>2, <2>5, <2>6 DEF LockedOK
  <2>9. ProgressOK(r)
    <3> SUFFICES ASSUME "lost" \notin r.excuse PROVE ProgressOK(r)
      BY DEF ProgressOK
    <3>1. /\ r.seen = View(c) /\ r.locked = {} /\ r.ins = {} /\ r.del = {}
      BY <1>2, <2>4, <2>5
    <3>2. Cardinality(Counts(r)) = n /\ n # r.target
      BY <1>5, <2>5, <2>6
    <3>3. r.left = IF n < r.target THEN r.target - n ELSE n - r.target
      BY <2>5 DEF left
    <3> HIDE DEF n
    <3> QED BY <2>2, <2>5, <3>1, <3>2, <3>3 DEF ProgressOK
  <2> QED BY <1>1, <1>2, <1>5, <2>5, <2>7, <2>8, <2>9, SnapStep
<1> QED BY <1>4, <1>5 DEF Count

(* The lock, if nobody else wrote what was counted (server.rs:276-288). *)
LEMMA LockStep ==
  ASSUME IInv, NEW c \in PreLoads, Lock(c)
  PROVE  IInv'
<1> DEFINE q == req[c]
           o == AllLocked(c)
           r == [o EXCEPT !.pc = "change"]
<1>1. /\ q \in Request /\ RequestOK(q) /\ q.pc = "lock" /\ q.txn = "open" /\ CanLock(c)
      /\ UNCHANGED <<doc, locate, faults>> /\ Becomes(c, r)
  BY DEF IInv, TypeOK, Lock, At
<1>2. /\ SnapOK(c, o) /\ Counts(o) = Counts(q)
      /\ Counts(o) \subseteq o.locked \cup o.ins
      /\ o.seen = q.seen /\ o.ins = q.ins /\ o.del = q.del
      /\ o.locked = q.locked \cup (Counts(q) \ q.ins)
      /\ o.target = q.target /\ o.excuse = q.excuse
      /\ o.left = q.left /\ o.tries = q.tries
  BY <1>1, LockedSnap
<1>3. q.left > 0 /\ q.tries > 0
  BY <1>1 DEF RequestOK, PhaseOK
<1> HIDE DEF q, o
<1>4. /\ r \in Request /\ r.txn = "open" /\ r.pc = "change" /\ r.left = q.left
      /\ r.tries = q.tries /\ r.seen = o.seen /\ r.touched = o.touched
      /\ r.locked = o.locked /\ r.ins = o.ins /\ r.del = o.del
      /\ r.excuse = o.excuse /\ r.target = o.target
  BY <1>2 DEF Request, SnapOK
<1> HIDE DEF r
<1>5. Counts(r) = Counts(o)
  BY <1>4 DEF Counts
<1>6. PhaseOK(r) /\ LockedOK(r)
  BY <1>2, <1>3, <1>4, <1>5 DEF PhaseOK, LockedOK
<1>7. ProgressOK(r)
  <2> DEFINE n == Cardinality(Counts(r))
  <2> SUFFICES ASSUME "lost" \notin r.excuse PROVE ProgressOK(r)
    BY DEF ProgressOK
  <2>1. /\ q.locked = {} /\ q.ins = {} /\ q.del = {} /\ n # q.target
        /\ q.left = IF n < q.target THEN q.target - n ELSE n - q.target
    BY <1>1, <1>2, <1>4, <1>5 DEF RequestOK, ProgressOK
  <2>2. Counts(q) = q.seen /\ r.locked = r.seen
    BY <1>2, <1>4, <2>1 DEF Counts
  <2> HIDE DEF n
  <2> QED BY <1>2, <1>4, <2>1, <2>2 DEF ProgressOK, n
<1> QED BY <1>1, <1>2, <1>4, <1>6, <1>7, SnapStep

(* One turn of the loop of inserts or deletes (server.rs:305-345). *)
LEMMA ChangeStep ==
  ASSUME IInv, NEW c \in PreLoads, Change(c)
  PROVE  IInv'
<1> DEFINE q == req[c]
           n == Cardinality(Counts(q))
<1>1. /\ q \in Request /\ RequestOK(q) /\ q.pc = "change" /\ q.txn = "open"
      /\ UNCHANGED <<doc, locate, faults>>
  BY DEF IInv, TypeOK, Change, At
<1>2. PICK o \in Changed(c) :
        Becomes(c, [o EXCEPT !.left = OneDone(@),
                             !.pc = IF OneDone(o.left) = 0 THEN "commit" ELSE "change"])
  BY DEF Change
<1>3. /\ SnapOK(c, o) /\ Counts(o) \subseteq o.locked \cup o.ins
      /\ o.seen = q.seen /\ o.locked = q.locked
      /\ o.target = q.target /\ o.excuse = q.excuse
      /\ o.left = q.left /\ o.tries = q.tries
  BY <1>1, ChangedSnap
<1>4. PICK d \in Docs :
        \/ /\ n < q.target /\ o.ins = q.ins \cup {d} /\ o.del = q.del
           /\ d \notin Counts(q) /\ d \notin q.del
        \/ /\ ~(n < q.target) /\ o.del = q.del \cup {d} /\ o.ins = q.ins
           /\ d \in Counts(q)
  BY <1>1, ChangedSnap
<1>5. q.left \in Nat /\ q.left > 0 /\ q.tries > 0
  BY <1>1 DEF RequestOK, PhaseOK, Request
<1> DEFINE left == q.left - 1
           pc == IF left = 0 THEN "commit" ELSE "change"
           r == [o EXCEPT !.left = left, !.pc = pc]
<1>6. Becomes(c, r)
  BY <1>2, <1>3 DEF OneDone, SnapOK, Request
<1>7. left \in Nat /\ pc \in {"commit", "change"} /\ (pc = "change" <=> left # 0)
  <2> HIDE DEF q
  <2> QED BY <1>5
<1>8. Counts(q) \in SUBSET Docs /\ n \in Nat /\ q.target \in Int
  BY <1>1, DocsCounted DEF Counts, Request
<1>9. left = q.left - 1
  OBVIOUS
<1> HIDE DEF left, pc
<1>10. /\ r \in Request /\ r.txn = "open" /\ r.pc = pc /\ r.left = left
       /\ r.tries = q.tries /\ r.seen = q.seen /\ r.touched = o.touched
       /\ r.locked = q.locked /\ r.ins = o.ins /\ r.del = o.del
       /\ r.excuse = q.excuse /\ r.target = q.target
  <2> HIDE DEF q
  <2> QED BY <1>3, <1>7 DEF Request, SnapOK
<1> HIDE DEF r
<1>11. Counts(r) = Counts(o)
  BY <1>3, <1>10 DEF Counts
<1>12. PhaseOK(r)
  BY <1>5, <1>7, <1>10 DEF PhaseOK
<1>13. LockedOK(r)
  BY <1>3, <1>10, <1>11 DEF LockedOK
<1>14. ProgressOK(r)
  <2> SUFFICES ASSUME "lost" \notin r.excuse PROVE ProgressOK(r)
    BY DEF ProgressOK
  <2>1. /\ q.locked = q.seen /\ q.ins \cap q.del = {} /\ n # q.target
        /\ q.left = IF n < q.target THEN q.target - n ELSE n - q.target
        /\ q.ins # {} => n <= q.target
    BY <1>1, <1>10 DEF RequestOK, ProgressOK
  <2> DEFINE m == Cardinality(Counts(r))
  <2>2. CASE /\ n < q.target /\ o.ins = q.ins \cup {d} /\ o.del = q.del
             /\ d \notin Counts(q) /\ d \notin q.del
    <3>1. Counts(r) = Counts(q) \cup {d}
      BY <1>10, <2>2 DEF Counts
    <3>2. m = n + 1
      BY <1>8, <2>2, <3>1, OneMoreOneLess
    <3>3. r.ins \cap r.del = {}
      BY <1>10, <2>1, <2>2
    <3>4. m <= q.target /\ left = q.target - m
      <4> HIDE DEF m, n, q
      <4> QED BY <1>8, <1>9, <2>1, <2>2, <3>2
    <3>5. (left # 0 => m < q.target) /\ (left = 0 => m = q.target) /\ m \in Nat
      <4> HIDE DEF m, n, q
      <4> QED BY <1>8, <3>2, <3>4
    <3> HIDE DEF m
    <3> QED BY <1>7, <1>10, <2>1, <3>3, <3>4, <3>5 DEF ProgressOK, m
  <2>3. CASE /\ ~(n < q.target) /\ o.del = q.del \cup {d} /\ o.ins = q.ins
             /\ d \in Counts(q)
    <3>1. q.ins = {}
      <4> HIDE DEF n, q
      <4> QED BY <1>8, <2>1, <2>3
    <3>2. Counts(r) = Counts(q) \ {d}
      BY <1>10, <2>3, <3>1 DEF Counts
    <3>3. m = n - 1
      BY <1>8, <2>3, <3>2, OneMoreOneLess
    <3>4. m >= q.target /\ left = m - q.target /\ m \in Int
      <4> HIDE DEF m, n, q
      <4> QED BY <1>8, <1>9, <2>1, <2>3, <3>3
    <3>5. (left # 0 => m # q.target) /\ (left = 0 => m = q.target) /\ ~(m < q.target)
      <4> HIDE DEF m, n, q
      <4> QED BY <1>8, <3>4
    <3>6. r.ins = {}
      BY <1>10, <2>3, <3>1
    <3> HIDE DEF m
    <3> QED BY <1>7, <1>10, <2>1, <3>4, <3>5, <3>6 DEF ProgressOK, m
  <2> QED BY <1>4, <2>2, <2>3
<1> QED BY <1>1, <1>3, <1>6, <1>10, <1>12, <1>13, <1>14, SnapStep

(* The loop of pre_load goes round again in the same transaction. *)
LEMMA RetryStep ==
  ASSUME IInv, NEW c \in PreLoads, Retry(c)
  PROVE  IInv'
<1> DEFINE q == req[c]
           r == [q EXCEPT !.pc = "count"]
<1>1. /\ q \in Request /\ RequestOK(q) /\ q.pc = "retry"
      /\ UNCHANGED <<doc, locate, faults>> /\ Becomes(c, r) /\ Apart(c, q)
  BY DEF IInv, TypeOK, Retry, At, WritesApart, Apart
<1> HIDE DEF q
<1>2. /\ r \in Request /\ r.txn = q.txn /\ r.pc = "count" /\ r.seen = q.seen
      /\ r.touched = q.touched /\ r.locked = q.locked /\ r.ins = q.ins
      /\ r.del = q.del /\ r.excuse = q.excuse
  BY <1>1 DEF Request
<1> HIDE DEF r
<1>3. CASE q.txn = "open"
  <2>1. "lost" \in q.excuse
    BY <1>1, <1>3 DEF RequestOK, ProgressOK
  <2>2. PhaseOK(r) /\ LockedOK(r) /\ ProgressOK(r)
    BY <1>2, <1>3, <2>1 DEF PhaseOK, LockedOK, ProgressOK
  <2>3. SnapOK(c, q)
    BY <1>1, <1>3 DEF SnapOK, RequestOK
  <2> QED BY <1>1, <1>2, <1>3, <2>2, <2>3, SnapStep
<1>4. CASE q.txn # "open"
  <2>1. /\ q.locked = {} /\ q.ins = {} /\ q.del = {}
        /\ q.txn \in {"none", "dead", "committed"}
    BY <1>1, <1>4 DEF RequestOK, PhaseOK, Request
  <2> QED BY <1>1, <1>2, <2>1, OverStep
<1> QED BY <1>3, <1>4

(* Only the reply of an operation is lost, or nothing happened. *)
LEMMA ReplyLostStep ==
  ASSUME IInv, NEW c \in PreLoads, ReplyLost(c)
  PROVE  IInv'
<1> DEFINE q == req[c]
<1>1. /\ q \in Request /\ RequestOK(q) /\ q.txn \in {"fresh", "open"}
      /\ q.pc \in {"count", "lock", "change"}
      /\ UNCHANGED <<doc, locate>> /\ Fault
  BY DEF IInv, TypeOK, ReplyLost
<1>2. PICK o \in CarriedOut(c) \cup (IF q.txn = "open" THEN {q} ELSE {}) :
        Becomes(c, [o EXCEPT !.pc = "retry", !.excuse = @ \cup {"lost"}])
  BY DEF ReplyLost
<1>3. SnapOK(c, o)
  <2>1. CASE o = q /\ q.txn = "open"
    <3>1. Apart(c, q)
      BY DEF IInv, WritesApart, Apart
    <3> QED BY <1>1, <2>1, <3>1 DEF SnapOK, RequestOK
  <2>2. CASE q.pc = "count" /\ o = Opened(c)
    BY <1>1, <2>2, OpenedSnap
  <2>3. CASE q.pc = "lock" /\ CanLock(c) /\ o = AllLocked(c)
    <3>1. q.txn = "open"
      BY <1>1, <2>3 DEF RequestOK, PhaseOK
    <3> QED BY <2>3, <3>1, LockedSnap
  <2>4. CASE q.pc = "change" /\ o \in Changed(c)
    BY <2>4, ChangedSnap
  <2>5. \/ o = q /\ q.txn = "open"
        \/ o \in CarriedOut(c)
    BY <1>2
  <2>6. /\ q.pc = "count" => CarriedOut(c) = {Opened(c)}
        /\ q.pc = "lock" => CarriedOut(c) = IF CanLock(c) THEN {AllLocked(c)} ELSE {}
        /\ q.pc = "change" => CarriedOut(c) = Changed(c)
    BY DEF CarriedOut, At
  <2> QED BY <1>1, <2>1, <2>2, <2>3, <2>4, <2>5, <2>6
<1> DEFINE excuse == o.excuse \cup {"lost"}
           r == [o EXCEPT !.pc = "retry", !.excuse = excuse]
<1>4. o \in Request /\ o.txn = "open" /\ Becomes(c, r)
  BY <1>2, <1>3 DEF SnapOK, Request
<1>5. excuse \in SUBSET {"overtaken", "lost"}
  BY <1>4 DEF Request
<1>6. o.excuse \subseteq excuse /\ "lost" \in excuse
  OBVIOUS
<1> HIDE DEF excuse
<1>7. /\ r \in Request /\ r.txn = "open" /\ r.pc = "retry" /\ r.excuse = excuse
      /\ r.seen = o.seen /\ r.touched = o.touched
      /\ r.locked = o.locked /\ r.ins = o.ins /\ r.del = o.del
  BY <1>4, <1>5 DEF Request
<1> HIDE DEF r
<1>8. PhaseOK(r) /\ LockedOK(r) /\ ProgressOK(r)
  BY <1>6, <1>7 DEF PhaseOK, LockedOK, ProgressOK
<1> QED BY <1>1, <1>3, <1>4, <1>6, <1>7, <1>8, SnapStep

-----------------------------------------------------------------------------
(* An open transaction beside which documents T change, which it has not   *)
(* written: they count as touched.                                         *)
LEMMA OtherTouched ==
  ASSUME IInv, NEW o \in PreLoads, req[o].txn = "open",
         NEW p \in Request, NEW T \in SUBSET Docs,
         p.txn = "open", p.pc = req[o].pc, p.target = req[o].target,
         p.seen = req[o].seen, p.touched = req[o].touched \cup T,
         p.locked = req[o].locked, p.ins = req[o].ins, p.del = req[o].del,
         p.left = req[o].left, p.tries = req[o].tries,
         req[o].excuse \subseteq p.excuse,
         "lost" \in p.excuse => "lost" \in req[o].excuse,
         T \cap Writes(req[o]) = {},
         \A d \in Docs \ T : doc'[d] = doc[d],
         "overtaken" \notin p.excuse => Live' \subseteq Live \/ \E e \in T : doc[e] = "live"
  PROVE  RequestOK(p)'
<1> DEFINE q == req[o]
<1>1. q \in Request /\ RequestOK(q)
  BY DEF IInv, TypeOK
<1>2. Live' \subseteq Live \cup T
  BY DEF Live
<1> HIDE DEF q
<1>3. Counts(p) = Counts(q)
  BY DEF Counts, q
<1>4. PhaseOK(p) /\ LockedOK(p) /\ ProgressOK(p)
  <2>1. PhaseOK(p)
    BY <1>1 DEF RequestOK, PhaseOK, q
  <2>2. LockedOK(p)
    BY <1>1, <1>3 DEF RequestOK, LockedOK, q
  <2>3. ProgressOK(p)
    BY <1>1, <1>3 DEF RequestOK, ProgressOK, q
  <2> QED BY <2>1, <2>2, <2>3
<1>5. SnapshotOK(p)'
  <2>1. /\ \A d \in q.seen \ q.touched : doc[d] = "live"
        /\ Live \subseteq q.seen \cup q.touched
        /\ q.locked \subseteq q.seen \ q.touched
        /\ q.del \subseteq q.locked \cup q.ins
        /\ \A d \in q.ins : doc[d] = "none"
        /\ T \cap q.locked = {} /\ T \cap q.ins = {}
        /\ q.seen \subseteq Docs /\ q.ins \subseteq Docs
    BY <1>1 DEF RequestOK, SnapshotOK, Writes, Request, q
  <2>2. \A d \in p.seen \ p.touched : doc'[d] = "live"
    BY <2>1 DEF q
  <2>3. Live' \subseteq p.seen \cup p.touched
    BY <1>2, <2>1 DEF q
  <2>4. p.locked \subseteq p.seen \ p.touched
    BY <2>1 DEF q
  <2>5. \A d \in p.ins : doc'[d] = "none"
    BY <2>1 DEF q
  <2> QED BY <2>1, <2>2, <2>3, <2>4, <2>5 DEF SnapshotOK, q
<1>6. NewcomersOK(p)'
  <2> SUFFICES ASSUME "overtaken" \notin p.excuse, ~(Live' \subseteq p.seen)
               PROVE  p.seen \cap p.touched # {}
    BY DEF NewcomersOK
  <2>1. ~(Live \subseteq q.seen) => q.seen \cap q.touched # {}
    BY <1>1 DEF RequestOK, NewcomersOK, q
  <2>2. CASE Live' \subseteq Live
    BY <2>1, <2>2 DEF q
  <2>3. CASE \E e \in T : doc[e] = "live"
    <3>1. PICK e \in T : e \in Live
      BY <2>3 DEF Live
    <3> QED BY <2>1, <3>1 DEF q
  <2> QED BY <2>2, <2>3
<1>7. PhaseOK(p)' /\ LockedOK(p)' /\ ProgressOK(p)'
  BY <1>4 DEF PhaseOK, LockedOK, ProgressOK
<1> QED BY <1>5, <1>6, <1>7 DEF RequestOK

(* A request without an open transaction does not look at the documents.   *)
LEMMA OtherClosed ==
  ASSUME IInv, NEW o \in PreLoads, req[o].txn # "open"
  PROVE  \A p : p = req[o] => RequestOK(p)'
<1> SUFFICES ASSUME NEW p, p = req[o] PROVE RequestOK(p)'
  OBVIOUS
<1>1. RequestOK(p) /\ p.txn # "open"
  BY DEF IInv
<1>2. PhaseOK(p) /\ p.pc # "change"
  BY <1>1 DEF RequestOK, PhaseOK
<1> QED BY <1>1, <1>2 DEF RequestOK, PhaseOK, SnapshotOK, LockedOK, NewcomersOK, ProgressOK

(* Documents change beside the requests. *)
LEMMA DocsStep ==
  ASSUME IInv, doc' \in [Docs -> DocState], req' \in [PreLoads -> Request],
         UNCHANGED locate, UNCHANGED faults \/ Fault,
         \A o \in PreLoads : \E p : p = req'[o] /\ RequestOK(p)',
         \A o \in PreLoads : req'[o].txn = "open" =>
           req[o].txn = "open" /\ Writes(req'[o]) = Writes(req[o])
  PROVE  IInv'
<1>1. ASSUME NEW o \in PreLoads PROVE RequestOK(req[o])'
  <2>1. PICK p : p = req'[o] /\ RequestOK(p)'
    OBVIOUS
  <2> QED
    BY <2>1 DEF RequestOK, PhaseOK, SnapshotOK, LockedOK, NewcomersOK, ProgressOK, Counts
<1>2. faults' \in 0 .. MaxFaults
  BY BoundsAssumption DEF IInv, TypeOK, Fault
<1>3. TypeOK'
  <2>1. ASSUME NEW o \in PreLoads
        PROVE  /\ req'[o].pc = "change" => req'[o].txn = "open"
               /\ req'[o].del \subseteq req'[o].locked \cup req'[o].ins
               /\ \A d \in req'[o].ins : doc'[d] = "none"
    <3>1. PhaseOK(req[o])' /\ SnapshotOK(req[o])'
      BY <1>1 DEF RequestOK
    <3> QED BY <3>1 DEF PhaseOK, SnapshotOK
  <2> QED BY <1>2, <2>1 DEF IInv, TypeOK, At
<1>4. WritesApart'
  <2>1. \A c, o \in PreLoads : c # o /\ req'[c].txn = "open" /\ req'[o].txn = "open"
          => Writes(req'[c]) \cap Writes(req'[o]) = {}
    BY DEF IInv, WritesApart
  <2> QED BY <2>1 DEF WritesApart, Writes
<1> QED BY <1>1, <1>3, <1>4 DEF IInv

(* What is written is not a document that is being deleted. *)
LEMMA WritesTyped ==
  ASSUME IInv, NEW c \in PreLoads, req[c].txn = "open"
  PROVE  /\ Written(c) = Writes(req[c]) /\ Writes(req[c]) \in SUBSET Docs
         /\ \A d \in Writes(req[c]) : doc[d] \in {"live", "none"}
         /\ \A d \in req[c].locked : doc[d] = "live"
<1>1. req[c] \in Request /\ SnapshotOK(req[c])
  BY DEF IInv, TypeOK, RequestOK
<1>2. \A d \in req[c].locked : doc[d] = "live"
  BY <1>1 DEF SnapshotOK
<1>3. \A d \in req[c].ins : doc[d] = "none"
  BY <1>1 DEF SnapshotOK
<1>4. \A d \in Writes(req[c]) : d \in req[c].locked \/ d \in req[c].ins
  BY <1>1 DEF SnapshotOK, Writes
<1>5. Writes(req[c]) \in SUBSET Docs
  BY <1>1 DEF Writes, Request
<1> QED BY <1>2, <1>3, <1>4, <1>5 DEF Written, Writes

(* The effect of a commit on the others and on itself. *)
LEMMA CommitsStep ==
  ASSUME IInv, NEW c \in PreLoads, req[c].txn = "open", NEW r \in Request,
         Commits(c, r), UNCHANGED locate, UNCHANGED faults \/ Fault,
         r.txn \in {"none", "committed"},
         r.locked = {}, r.ins = {}, r.del = {},
         r.pc \notin {"new", "lock", "change"}
  PROVE  IInv'
<1> DEFINE W == Writes(req[c])
<1>1. /\ W = Written(c) /\ W \in SUBSET Docs
      /\ \A d \in req[c].locked : doc[d] = "live" /\ d \in W
  BY WritesTyped DEF Writes
<1>2. doc' = [d \in Docs |-> CASE d \in req[c].del -> "gone"
                               [] d \in req[c].ins \ req[c].del -> "live"
                               [] OTHER -> doc[d]]
  BY DEF Commits
<1>3. /\ doc' \in [Docs -> DocState]
      /\ \A d \in Docs \ W : doc'[d] = doc[d]
  BY <1>2 DEF Writes, IInv, TypeOK, DocState
<1>4. req' = [o \in PreLoads |->
               IF o = c THEN r
               ELSE IF req[o].txn = "open"
                 THEN [req[o] EXCEPT
                         !.touched = @ \cup Written(c),
                         !.excuse = IF req[c].locked = {}
                                      THEN @ \cup {"overtaken"} ELSE @]
                 ELSE req[o]]
  BY DEF Commits
<1>5. req'[c] = r /\ RequestOK(r)'
  <2>1. req'[c] = r
    BY <1>4
  <2> QED BY <2>1 DEF RequestOK, PhaseOK, SnapshotOK, LockedOK, NewcomersOK, ProgressOK
<1>6. ASSUME NEW o \in PreLoads, o # c, req[o].txn # "open"
      PROVE  /\ req'[o] = req[o] /\ req'[o] \in Request
             /\ \E p : p = req'[o] /\ RequestOK(p)'
  <2>1. req'[o] = req[o] /\ req[o] \in Request
    BY <1>4, <1>6 DEF IInv, TypeOK
  <2>2. PICK p : p = req[o]
    OBVIOUS
  <2>3. RequestOK(p)'
    BY <1>6, <2>2, OtherClosed
  <2>4. req'[o] = p
    BY <2>1, <2>2
  <2> QED BY <2>1, <2>3, <2>4
<1>7. ASSUME NEW o \in PreLoads, o # c, req[o].txn = "open"
      PROVE  /\ req'[o] \in Request
             /\ \E p : p = req'[o] /\ RequestOK(p)'
             /\ Writes(req'[o]) = Writes(req[o])
  <2> DEFINE q == req[o]
             t == q.touched \cup W
             e == IF req[c].locked = {} THEN q.excuse \cup {"overtaken"} ELSE q.excuse
  <2>1. req'[o] = [q EXCEPT !.touched = t, !.excuse = e] /\ q \in Request
    BY <1>1, <1>4, <1>7 DEF IInv, TypeOK
  <2>2. t \in SUBSET Docs /\ e \in SUBSET {"overtaken", "lost"}
    BY <1>1, <2>1 DEF Request
  <2>3. PICK p : p = req'[o]
    OBVIOUS
  <2>4. /\ p \in Request /\ p.txn = "open" /\ p.pc = q.pc /\ p.target = q.target
        /\ p.seen = q.seen /\ p.touched = t /\ p.excuse = e
        /\ p.locked = q.locked /\ p.ins = q.ins /\ p.del = q.del
        /\ p.left = q.left /\ p.tries = q.tries
    <3>1. q.txn = "open"
      BY <1>7
    <3> HIDE DEF q, t, e
    <3> QED BY <2>1, <2>2, <2>3, <3>1, ZenonT(40) DEF Request
  <2>5. W \cap Writes(req[o]) = {}
    BY <1>7 DEF IInv, WritesApart
  <2>6. "overtaken" \notin p.excuse => \E d \in W : doc[d] = "live"
    BY <1>1, <2>4
  <2>7. q.excuse \subseteq p.excuse /\ ("lost" \in p.excuse => "lost" \in q.excuse)
    BY <2>4
  <2> HIDE DEF W
  <2>8. RequestOK(p)'
    BY <1>1, <1>3, <1>7, <2>4, <2>5, <2>6, <2>7, OtherTouched
  <2> QED BY <2>3, <2>4, <2>8 DEF Writes
<1>8. req' \in [PreLoads -> Request]
  <2>1. \A o \in PreLoads : req'[o] \in Request
    BY <1>5, <1>6, <1>7
  <2> QED BY <1>4, <2>1
<1>9. \A o \in PreLoads : \E p : p = req'[o] /\ RequestOK(p)'
  BY <1>5, <1>6, <1>7
<1>10. \A o \in PreLoads : req'[o].txn = "open" =>
         req[o].txn = "open" /\ Writes(req'[o]) = Writes(req[o])
  BY <1>5, <1>6, <1>7
<1> QED BY <1>3, <1>8, <1>9, <1>10, DocsStep

(* The commit, with or without its reply (server.rs:346-377). *)
LEMMA CommitStep ==
  ASSUME IInv, NEW c \in PreLoads, Commit(c) \/ CommitUnknown(c)
  PROVE  IInv'
<1> DEFINE q == req[c]
           tries == q.tries - 1
           tried == [q EXCEPT !.tries = tries]
<1>1. q \in Request /\ RequestOK(q) /\ q.pc = "commit" /\ q.txn = "open" /\ Apart(c, q)
  BY DEF IInv, TypeOK, Commit, CommitUnknown, At, WritesApart, Apart
<1>2. UNCHANGED locate /\ (UNCHANGED faults \/ Fault)
  BY DEF Commit, CommitUnknown
<1>3. tries \in Nat /\ (q.tries # 1 => tries > 0)
  <2>1. q.tries \in Nat /\ q.tries > 0
    BY <1>1 DEF RequestOK, PhaseOK, Request
  <2> HIDE DEF q
  <2> QED BY <2>1
<1>4. /\ tried \in Request /\ tried.txn = "open" /\ tried.pc = "commit"
      /\ tried.tries = tries /\ tried.seen = q.seen /\ tried.touched = q.touched
      /\ tried.locked = q.locked /\ tried.ins = q.ins /\ tried.del = q.del
      /\ tried.excuse = q.excuse /\ tried.target = q.target /\ tried.left = q.left
  <2> HIDE DEF q, tries
  <2> QED BY <1>1, <1>3 DEF Request
<1>5. Commit(c) => Commits(c, Adjusted(q))
  BY DEF Commit
<1>6. CommitUnknown(c) =>
        \/ Commits(c, [Aborted(tried, "none") EXCEPT !.pc = "err"])
        \/ Commits(c, Aborted(tried, "committed"))
        \/ UNCHANGED doc /\ Becomes(c, [Aborted(tried, "none") EXCEPT !.pc = "err"])
        \/ UNCHANGED doc /\ Becomes(c, tried) /\ q.tries # 1
  BY DEF CommitUnknown
<1>7. \A a : a \in {Aborted(q, "none"), Aborted(tried, "none"), Aborted(tried, "committed")}
        => /\ a \in Request /\ a.txn \in {"none", "committed"}
           /\ a.locked = {} /\ a.ins = {} /\ a.del = {} /\ a.pc = "commit"
  <2> HIDE DEF q, tried
  <2>1. \A x \in {q, tried}, txn \in {"none", "committed"} :
          /\ Aborted(x, txn) \in Request /\ Aborted(x, txn).txn = txn
          /\ Aborted(x, txn).locked = {} /\ Aborted(x, txn).ins = {}
          /\ Aborted(x, txn).del = {} /\ Aborted(x, txn).pc = "commit"
    BY <1>1, <1>4, AbortedTyped
  <2> QED BY <2>1
<1> HIDE DEF q, tried
<1>8. ASSUME NEW a \in Request, a.txn \in {"none", "committed"},
             a.locked = {}, a.ins = {}, a.del = {}, NEW pc \in {"find", "err"}
      PROVE  LET r == [a EXCEPT !.pc = pc]
             IN  /\ r \in Request /\ r.txn \in {"none", "committed"} /\ r.pc = pc
                 /\ r.locked = {} /\ r.ins = {} /\ r.del = {}
  BY <1>8 DEF Request
<1>9. CASE Commit(c)
  <2> DEFINE a == Aborted(q, "none")
             r == [a EXCEPT !.pc = "find"]
  <2>1. Commits(c, r)
    BY <1>5, <1>9 DEF Adjusted
  <2>2. /\ r \in Request /\ r.txn \in {"none", "committed"} /\ r.pc = "find"
        /\ r.locked = {} /\ r.ins = {} /\ r.del = {}
    BY <1>7, <1>8
  <2> HIDE DEF r
  <2> QED BY <1>1, <1>2, <2>1, <2>2, CommitsStep DEF q
<1>10. CASE CommitUnknown(c)
  <2> DEFINE a == Aborted(tried, "none")
             b == Aborted(tried, "committed")
             r == [a EXCEPT !.pc = "err"]
  <2>1. /\ r \in Request /\ r.txn \in {"none", "committed"} /\ r.pc = "err"
        /\ r.locked = {} /\ r.ins = {} /\ r.del = {}
    BY <1>7, <1>8
  <2>2. /\ b \in Request /\ b.txn \in {"none", "committed"} /\ b.pc = "commit"
        /\ b.locked = {} /\ b.ins = {} /\ b.del = {}
    BY <1>7
  <2> HIDE DEF r, b
  <2>3. CASE Commits(c, r)
    BY <1>1, <1>2, <2>1, <2>3, CommitsStep DEF q
  <2>4. CASE Commits(c, b)
    BY <1>1, <1>2, <2>2, <2>4, CommitsStep DEF q
  <2>5. CASE UNCHANGED doc /\ Becomes(c, r)
    BY <1>2, <2>1, <2>5, OverStep
  <2>6. CASE UNCHANGED doc /\ Becomes(c, tried) /\ q.tries # 1
    <3>1. PhaseOK(tried)
      BY <1>1, <1>3, <1>4, <2>6 DEF PhaseOK, RequestOK
    <3>2. Counts(tried) = Counts(q)
      BY <1>4 DEF Counts
    <3>3. LockedOK(tried)
      BY <1>4 DEF LockedOK
    <3>4. ProgressOK(tried)
      BY <1>1, <1>4, <3>2 DEF ProgressOK, RequestOK
    <3>5. SnapOK(c, q)
      BY <1>1 DEF SnapOK, RequestOK
    <3> QED BY <1>2, <1>4, <2>6, <3>1, <3>3, <3>4, <3>5, SnapStep
  <2> QED BY <1>6, <1>10, <2>3, <2>4, <2>5, <2>6 DEF r, b
<1> QED BY <1>9, <1>10

(* A bserver gives a replica up that no open transaction has written. *)
LEMMA MarkDeletingStep ==
  ASSUME IInv, NEW d \in Docs, MarkDeleting(d)
  PROVE  IInv'
<1>1. /\ doc' = [doc EXCEPT ![d] = "deleting"] /\ doc[d] = "live"
      /\ \A c \in PreLoads : req[c].txn = "open" => d \notin Written(c)
      /\ req' = [c \in PreLoads |->
                   IF req[c].txn = "open" THEN [req[c] EXCEPT !.touched = @ \cup {d}]
                                          ELSE req[c]]
      /\ UNCHANGED <<locate, faults>>
  BY DEF MarkDeleting
<1>2. doc' \in [Docs -> DocState] /\ \A e \in Docs \ {d} : doc'[e] = doc[e]
  BY <1>1 DEF IInv, TypeOK, DocState
<1>3. Live' \subseteq Live
  <2>1. doc \in [Docs -> DocState]
    BY DEF IInv, TypeOK
  <2> QED BY <1>1, <1>2, <2>1 DEF Live
<1>4. ASSUME NEW o \in PreLoads, req[o].txn # "open"
      PROVE  /\ req'[o] = req[o] /\ req'[o] \in Request
             /\ \E p : p = req'[o] /\ RequestOK(p)'
  <2>1. req'[o] = req[o] /\ req[o] \in Request
    BY <1>1, <1>4 DEF IInv, TypeOK
  <2>2. PICK p : p = req[o]
    OBVIOUS
  <2>3. RequestOK(p)'
    BY <1>4, <2>2, OtherClosed
  <2>4. req'[o] = p
    BY <2>1, <2>2
  <2> QED BY <2>1, <2>3, <2>4
<1>5. ASSUME NEW o \in PreLoads, req[o].txn = "open"
      PROVE  /\ req'[o] \in Request
             /\ \E p : p = req'[o] /\ RequestOK(p)'
             /\ Writes(req'[o]) = Writes(req[o])
  <2> DEFINE q == req[o]
             t == q.touched \cup {d}
  <2>1. req'[o] = [q EXCEPT !.touched = t] /\ q \in Request
    BY <1>1, <1>5 DEF IInv, TypeOK
  <2>2. t \in SUBSET Docs
    BY <2>1 DEF Request
  <2>3. PICK p : p = req'[o]
    OBVIOUS
  <2>4. /\ p \in Request /\ p.txn = "open" /\ p.pc = q.pc /\ p.target = q.target
        /\ p.seen = q.seen /\ p.touched = t /\ p.excuse = q.excuse
        /\ p.locked = q.locked /\ p.ins = q.ins /\ p.del = q.del
        /\ p.left = q.left /\ p.tries = q.tries
    <3>1. q.txn = "open"
      BY <1>5
    <3> HIDE DEF q, t
    <3> QED BY <2>1, <2>2, <2>3, <3>1 DEF Request
  <2>5. {d} \cap Writes(req[o]) = {} /\ {d} \in SUBSET Docs
    BY <1>1, <1>5, WritesTyped
  <2>6. RequestOK(p)'
    BY <1>2, <1>3, <1>5, <2>4, <2>5, OtherTouched
  <2> QED BY <2>3, <2>4, <2>6 DEF Writes
<1>6. req' \in [PreLoads -> Request]
  <2>1. \A o \in PreLoads : req'[o] \in Request
    BY <1>4, <1>5
  <2> QED BY <1>1, <2>1
<1>7. \A o \in PreLoads : \E p : p = req'[o] /\ RequestOK(p)'
  BY <1>4, <1>5
<1>8. \A o \in PreLoads : req'[o].txn = "open" =>
        req[o].txn = "open" /\ Writes(req'[o]) = Writes(req[o])
  BY <1>4, <1>5
<1> QED BY <1>1, <1>2, <1>6, <1>7, <1>8, DocsStep

(* locate_stack reads and changes nothing. *)
LEMMA LocateStep ==
  ASSUME IInv, UNCHANGED <<doc, req, faults>>,
         locate' \in [Locates -> [pc : {"new", "spin", "spins", "ok"}, out : SUBSET Docs]]
  PROVE  IInv'
<1>1. \A o \in PreLoads : RequestOK(req[o])'
  BY DEF IInv, RequestOK, PhaseOK, SnapshotOK, LockedOK, NewcomersOK, ProgressOK,
         Counts, Live
<1>2. TypeOK' /\ WritesApart'
  BY DEF IInv, TypeOK, WritesApart, Writes, At
<1> QED BY <1>1, <1>2 DEF IInv

(* The two steps of locate_stack are of that kind. *)
LEMMA LocatesStep ==
  ASSUME IInv, NEW c \in Locates, Locate(c) \/ Spin(c)
  PROVE  IInv'
<1> DEFINE L == [pc : {"new", "spin", "spins", "ok"}, out : SUBSET Docs]
<1>1. locate \in [Locates -> L]
  BY DEF IInv, TypeOK
<1>2. UNCHANGED <<doc, req, faults>>
  BY DEF Locate, Spin
<1>3. CASE Locate(c)
  <2> DEFINE out == Decoded(Found)
             pc == IF out = Found THEN "spin" ELSE "ok"
  <2>1. out \in SUBSET Docs /\ pc \in {"spin", "ok"}
    BY DEF Decoded, Found
  <2>2. locate' = [locate EXCEPT ![c] = [pc |-> pc, out |-> out]]
    BY <1>3 DEF Locate
  <2> HIDE DEF out, pc
  <2>3. locate' \in [Locates -> L]
    BY <1>1, <2>1, <2>2
  <2> QED BY <1>2, <2>3, LocateStep
<1>4. CASE Spin(c)
  <2> DEFINE pc == IF locate[c].pc = "spin" THEN "spins" ELSE "spin"
  <2>1. pc \in {"spin", "spins"}
    OBVIOUS
  <2>2. locate' = [locate EXCEPT ![c].pc = pc]
    BY <1>4 DEF Spin
  <2> HIDE DEF pc
  <2>3. locate' \in [Locates -> L]
    BY <1>1, <2>1, <2>2
  <2> QED BY <1>2, <2>3, LocateStep
<1> QED BY <1>3, <1>4

(* Every step of every request, bserver and failure keeps the invariant. *)
THEOREM NextIInv == IInv /\ [Next]_vars => IInv'
<1> SUFFICES ASSUME IInv, [Next]_vars PROVE IInv'
  OBVIOUS
<1>1. CASE UNCHANGED vars
  <2>1. locate' \in [Locates -> [pc : {"new", "spin", "spins", "ok"}, out : SUBSET Docs]]
    BY <1>1 DEF IInv, TypeOK, vars
  <2> QED BY <1>1, <2>1, LocateStep DEF vars
<1>2. ASSUME NEW c \in PreLoads, NEW t \in Targets, Start(c, t) PROVE IInv'
  BY <1>2, StartStep
<1>3. ASSUME NEW c \in PreLoads, Step(c) PROVE IInv'
  BY <1>3, CountStep, LockStep, ChangeStep, RetryStep, CommitStep, OverSteps DEF Step
<1>4. ASSUME NEW c \in PreLoads, Failure(c) PROVE IInv'
  BY <1>4, OverSteps, ReplyLostStep, CommitStep DEF Failure
<1>5. ASSUME NEW c \in Locates, Locate(c) \/ Spin(c) PROVE IInv'
  BY <1>5, LocatesStep
<1>6. ASSUME NEW d \in Docs, MarkDeleting(d) PROVE IInv'
  BY <1>6, MarkDeletingStep
<1> QED BY <1>1, <1>2, <1>3, <1>4, <1>5, <1>6 DEF Next

(* The invariant holds in every reachable state. *)
THEOREM SpecIInv == Spec => []IInv
BY InitIInv, NextIInv, PTL DEF Spec

(* Type correctness of Preload (server.rs:222-377). *)
THEOREM SpecTypeOK == Spec => []TypeOK
<1>1. IInv => TypeOK
  BY DEF IInv
<1> QED BY <1>1, SpecIInv, PTL

-----------------------------------------------------------------------------
(* A commit without excuse: what the transaction saw is what is there.     *)
LEMMA CommitExact ==
  ASSUME IInv, NEW c \in PreLoads, req[c].txn = "open", req[c].pc = "commit",
         req[c].excuse = {}, NEW r, Commits(c, r)
  PROVE  Cardinality(Live') = req[c].target
<1> DEFINE q == req[c]
<1>1. /\ q.locked = q.seen /\ q.ins \cap q.del = {}
      /\ Cardinality(Counts(q)) = q.target
  BY DEF IInv, RequestOK, ProgressOK
<1>2. q \in Request /\ SnapshotOK(q) /\ NewcomersOK(q)
  BY DEF IInv, TypeOK, RequestOK
<1>3. q.seen \cap q.touched = {} /\ Live = q.seen
  <2>1. q.seen \cap q.touched = {}
    BY <1>1, <1>2 DEF SnapshotOK
  <2>2. Live \subseteq q.seen
    BY <1>2, <2>1 DEF NewcomersOK
  <2>3. q.seen \subseteq Live
    BY <1>2, <2>1 DEF SnapshotOK, Live, Request
  <2> QED BY <2>1, <2>2, <2>3
<1>4. doc' = [d \in Docs |-> CASE d \in q.del -> "gone"
                               [] d \in q.ins \ q.del -> "live"
                               [] OTHER -> doc[d]]
  BY DEF Commits
<1>5. q.ins \subseteq Docs
  BY <1>2 DEF Request
<1>6. Live' = Counts(q)
  <2>1. ASSUME NEW d \in Docs PROVE doc'[d] = "live" <=> d \in Counts(q)
    <3>1. CASE d \in q.del
      BY <1>1, <1>4, <3>1 DEF Counts
    <3>2. CASE d \in q.ins \ q.del
      BY <1>4, <3>2 DEF Counts
    <3>3. CASE d \notin q.del /\ d \notin q.ins
      <4>1. doc'[d] = doc[d]
        BY <1>4, <3>3
      <4> QED BY <1>3, <3>3, <4>1 DEF Counts, Live
    <3> QED BY <3>1, <3>2, <3>3
  <2>2. Counts(q) \subseteq Docs
    BY <1>2 DEF Counts, Request
  <2> QED BY <2>1, <2>2 DEF Live
<1> QED BY <1>1, <1>6

(* An adjustment is over when its count finds nothing to do, or when it    *)
(* commits.                                                                *)
LEMMA Finishing ==
  ASSUME IInv, [Next]_vars, NEW c \in PreLoads, req[c].txn # "committed",
         \/ ~At(c, "find") /\ At(c, "find")'
         \/ req[c].txn = "open" /\ req'[c].txn = "committed"
  PROVE  \/ Count(c) /\ Cardinality(View(c)) = req[c].target
         \/ req[c].pc = "commit" /\ req[c].txn = "open" /\ \E r : Commits(c, r)
<1> DEFINE q == req[c]
           p == req'[c]
           Goal == \/ Count(c) /\ Cardinality(View(c)) = req[c].target
                   \/ req[c].pc = "commit" /\ req[c].txn = "open" /\ \E r : Commits(c, r)
<1>1. q \in Request /\ req \in [PreLoads -> Request]
  BY DEF IInv, TypeOK
<1>2. p.pc # q.pc \/ p.txn # q.txn
  BY DEF At
<1>3. p.pc = "find" \/ p.txn = "committed"
  BY DEF At
<1>4. ASSUME p = q PROVE FALSE
  BY <1>2, <1>4
<1>5. ASSUME NEW o \in PreLoads, NEW r, Becomes(o, r)
      PROVE  IF o = c THEN p = r ELSE p = q
  BY <1>1, <1>5 DEF Becomes
<1>6. ASSUME NEW o \in PreLoads, o # c, NEW r, Commits(o, r)
      PROVE  FALSE
  <2>1. req' = [x \in PreLoads |->
               IF x = o THEN r
               ELSE IF req[x].txn = "open"
                 THEN [req[x] EXCEPT
                         !.touched = @ \cup Written(o),
                         !.excuse = IF req[o].locked = {}
                                      THEN @ \cup {"overtaken"} ELSE @]
                 ELSE req[x]]
    BY <1>6 DEF Commits
  <2>2. p.pc = q.pc /\ p.txn = q.txn
    BY <1>1, <1>6, <2>1 DEF Request
  <2> QED BY <1>2, <2>2
<1>7. CASE UNCHANGED req
  BY <1>4, <1>7
<1>8. ASSUME NEW d \in Docs, MarkDeleting(d) PROVE FALSE
  <2>1. req' = [x \in PreLoads |->
                  IF req[x].txn = "open" THEN [req[x] EXCEPT !.touched = @ \cup {d}]
                                         ELSE req[x]]
    BY <1>8 DEF MarkDeleting
  <2>2. p.pc = q.pc /\ p.txn = q.txn
    BY <1>1, <2>1 DEF Request
  <2> QED BY <1>2, <2>2
<1>9. ASSUME NEW o \in PreLoads, NEW t \in Targets, Start(o, t) PROVE FALSE
  <2>1. PICK target : Becomes(o, [req[o] EXCEPT !.pc = "count", !.txn = "fresh",
                                                !.target = target])
    BY <1>9 DEF Start
  <2>2. p = q \/ p = [q EXCEPT !.pc = "count", !.txn = "fresh", !.target = target]
    BY <1>5, <2>1
  <2>3. p = q \/ (p.pc = "count" /\ p.txn = "fresh")
    <3> HIDE DEF q, p
    <3> QED BY <1>1, <2>2 DEF Request
  <2> QED BY <1>2, <1>3, <2>3
<1>10. ASSUME NEW o \in PreLoads,
              \/ LockConflicts(o) \/ OperationFails(o) \/ RequestFails(o) \/ CommitLost(o)
       PROVE  FALSE
  <2>1. PICK txn \in {"none", "dead"}, pc \in {"retry", "err", "recommit"} :
          Becomes(o, [Aborted(req[o], txn) EXCEPT !.pc = pc])
    BY <1>10 DEF LockConflicts, OperationFails, RequestFails, CommitLost
  <2>2. p = q \/ p = [Aborted(q, txn) EXCEPT !.pc = pc]
    BY <1>5, <2>1
  <2>3. p = q \/ (p.pc = pc /\ p.txn = txn)
    <3>1. PICK a : a = Aborted(q, txn)
      OBVIOUS
    <3>2. a \in Request /\ a.txn = txn
      BY <1>1, <3>1, AbortedTyped
    <3>3. p = q \/ p = [a EXCEPT !.pc = pc]
      BY <2>2, <3>1
    <3> HIDE DEF q, p
    <3> QED BY <3>2, <3>3 DEF Request
  <2> QED BY <1>2, <1>3, <2>3
<1>11. ASSUME NEW o \in PreLoads, Retry(o) \/ CountUnknown(o) \/ Recommit(o)
       PROVE  FALSE
  <2>1. PICK pc \in {"count", "retry", "commit", "recommit"} :
          Becomes(o, [req[o] EXCEPT !.pc = pc])
    BY <1>11 DEF Retry, CountUnknown, Recommit
  <2>2. p = q \/ p = [q EXCEPT !.pc = pc]
    BY <1>5, <2>1
  <2>3. p = q \/ (p.pc = pc /\ p.txn = q.txn)
    <3> HIDE DEF q, p
    <3> QED BY <1>1, <2>2 DEF Request
  <2> QED BY <1>2, <1>3, <2>3
<1>12. ASSUME NEW o \in PreLoads, Find(o) PROVE FALSE
  <2>1. PICK out : Becomes(o, [req[o] EXCEPT !.pc = "ok", !.out = out])
    BY <1>12 DEF Find
  <2>2. p = q \/ p = [q EXCEPT !.pc = "ok", !.out = out]
    BY <1>5, <2>1
  <2>3. p = q \/ (p.pc = "ok" /\ p.txn = q.txn)
    <3> HIDE DEF q, p
    <3> QED BY <1>1, <2>2 DEF Request
  <2> QED BY <1>2, <1>3, <2>3
<1>13. ASSUME NEW o \in PreLoads, CommitConfirmed(o) PROVE FALSE
  <2>1. req[o].txn = "committed" /\ Becomes(o, Adjusted(req[o]))
    BY <1>13 DEF CommitConfirmed
  <2>2. o # c
    BY <2>1
  <2> QED BY <1>4, <1>5, <2>1, <2>2
<1>14. ASSUME NEW o \in PreLoads, Lock(o) PROVE FALSE
  <2>1. Becomes(o, [AllLocked(o) EXCEPT !.pc = "change"])
    BY <1>14 DEF Lock
  <2>2. p = q \/ p = [AllLocked(c) EXCEPT !.pc = "change"]
    BY <1>5, <2>1
  <2>3. p = q \/ (p.pc = "change" /\ p.txn = q.txn)
    <3>1. PICK l : AllLocked(c) = [q EXCEPT !.locked = l]
      BY DEF AllLocked
    <3> HIDE DEF q, p
    <3> QED BY <1>1, <2>2, <3>1, ZenonT(40) DEF Request
  <2> QED BY <1>2, <1>3, <2>3
<1>15. ASSUME NEW o \in PreLoads, Change(o) PROVE FALSE
  <2>1. req[o].pc = "change"
    BY <1>15 DEF Change, At
  <2>2. PICK x \in Changed(o), pc \in {"commit", "change"} :
          Becomes(o, [x EXCEPT !.left = OneDone(@), !.pc = pc])
    BY <1>15 DEF Change
  <2>3. x \in Request /\ x.txn = "open" /\ req[o].txn = "open"
    <3>1. req[o].txn = "open"
      BY <2>1 DEF IInv, RequestOK, PhaseOK
    <3> QED BY <2>1, <3>1, ChangedSnap DEF SnapOK
  <2>4. p = q \/ p = [x EXCEPT !.left = OneDone(@), !.pc = pc]
    BY <1>5, <2>2
  <2>5. p = q \/ (p.pc = pc /\ p.txn = "open")
    <3> HIDE DEF q, p
    <3> QED BY <2>3, <2>4 DEF Request
  <2> QED BY <1>2, <1>3, <2>5
<1>16. ASSUME NEW o \in PreLoads, ReplyLost(o) PROVE FALSE
  <2>1. PICK x : Becomes(o, [x EXCEPT !.pc = "retry", !.excuse = @ \cup {"lost"}])
                 /\ (o = c => x \in CarriedOut(c) \cup
                                (IF q.txn = "open" THEN {q} ELSE {}))
    BY <1>16 DEF ReplyLost
  <2>2. ASSUME o = c PROVE x \in Request /\ x.txn = "open"
    <3>1. q.pc \in {"count", "lock", "change"} /\ q.txn \in {"fresh", "open"}
      BY <1>16, <2>2 DEF ReplyLost
    <3>2. q.pc \in {"lock", "change"} => q.txn = "open"
      BY DEF IInv, RequestOK, PhaseOK
    <3>3. CASE x = q /\ q.txn = "open"
      BY <1>1, <3>3
    <3>4. CASE q.pc = "count" /\ x = Opened(c)
      BY <3>1, <3>4, OpenedSnap DEF SnapOK
    <3>5. CASE q.pc = "lock" /\ CanLock(c) /\ x = AllLocked(c)
      BY <3>2, <3>5, LockedSnap DEF SnapOK
    <3>6. CASE q.pc = "change" /\ x \in Changed(c)
      BY <3>6, ChangedSnap DEF SnapOK
    <3>7. /\ q.pc = "count" => CarriedOut(c) = {Opened(c)}
          /\ q.pc = "lock" => CarriedOut(c) = IF CanLock(c) THEN {AllLocked(c)} ELSE {}
          /\ q.pc = "change" => CarriedOut(c) = Changed(c)
      BY DEF CarriedOut, At
    <3> QED BY <2>1, <2>2, <3>1, <3>3, <3>4, <3>5, <3>6, <3>7
  <2>3. p = q \/ (o = c /\ p = [x EXCEPT !.pc = "retry", !.excuse = @ \cup {"lost"}])
    BY <1>5, <2>1
  <2>4. p = q \/ (p.pc = "retry" /\ p.txn = "open")
    <3> HIDE DEF q, p
    <3> QED BY <2>2, <2>3 DEF Request
  <2> QED BY <1>2, <1>3, <2>4
<1>17. ASSUME NEW o \in PreLoads, Commit(o) PROVE Goal
  <2>1. req[o].pc = "commit" /\ req[o].txn = "open" /\ \E r : Commits(o, r)
    BY <1>17 DEF Commit, At
  <2> QED BY <1>6, <2>1
<1>18. ASSUME NEW o \in PreLoads, CommitUnknown(o) PROVE Goal
  <2> DEFINE tried == [req[o] EXCEPT !.tries = @ - 1]
  <2>1. /\ req[o].pc = "commit" /\ req[o].txn = "open"
        /\ \/ \E r : Commits(o, r)
           \/ Becomes(o, tried)
           \/ Becomes(o, [Aborted(tried, "none") EXCEPT !.pc = "err"])
    BY <1>18 DEF CommitUnknown, At
  <2>2. CASE \E r : Commits(o, r)
    BY <1>6, <2>1, <2>2
  <2>3. CASE Becomes(o, tried)
    <3>1. p = q \/ p = [q EXCEPT !.tries = @ - 1]
      BY <1>5, <2>3
    <3>2. p.pc = q.pc /\ p.txn = q.txn
      <4> HIDE DEF q, p
      <4> QED BY <1>1, <3>1 DEF Request
    <3> QED BY <1>2, <3>2
  <2>4. CASE Becomes(o, [Aborted(tried, "none") EXCEPT !.pc = "err"])
    <3> DEFINE x == [q EXCEPT !.tries = @ - 1]
               a == Aborted(x, "none")
    <3>1. p = q \/ p = [a EXCEPT !.pc = "err"]
      BY <1>5, <2>4
    <3>2. p = q \/ (p.pc = "err" /\ p.txn = "none")
      <4>1. a = [x EXCEPT !.txn = "none", !.locked = {}, !.ins = {}, !.del = {}]
        BY DEF Aborted
      <4> HIDE DEF q, p, a
      <4> QED BY <1>1, <3>1, <4>1 DEF Request
    <3> QED BY <1>2, <1>3, <3>2
  <2> QED BY <2>1, <2>2, <2>3, <2>4
<1>19. ASSUME NEW o \in PreLoads, Count(o) PROVE Goal
  <2> DEFINE n == Cardinality(View(o))
  <2>1. req[o].txn \in {"fresh", "open"}
    BY <1>19 DEF Count
  <2>2. CASE o = c /\ n = req[o].target
    BY <1>19, <2>2
  <2>3. CASE n = req[o].target /\ o # c /\ Becomes(o, Adjusted(Opened(o)))
    BY <1>4, <1>5, <2>3
  <2>4. CASE \E pc \in {"lock", "change"} : \E left :
               Becomes(o, [Opened(o) EXCEPT !.pc = pc, !.left = left, !.tries = MaxTries])
    <3>1. PICK pc \in {"lock", "change"} : \E left :
            Becomes(o, [Opened(o) EXCEPT !.pc = pc, !.left = left, !.tries = MaxTries])
      BY <2>4
    <3>2. PICK left : Becomes(o, [Opened(o) EXCEPT !.pc = pc, !.left = left, !.tries = MaxTries])
      BY <3>1
    <3> DEFINE x == Opened(o)
    <3>3. x \in Request /\ x.txn = "open"
      BY <2>1, OpenedSnap DEF SnapOK
    <3>4. p = q \/ p = [x EXCEPT !.pc = pc, !.left = left, !.tries = MaxTries]
      BY <1>5, <3>2
    <3>5. p = q \/ (p.pc = pc /\ p.txn = "open")
      <4> HIDE DEF q, p, x
      <4> QED BY <3>3, <3>4 DEF Request
    <3> QED BY <1>2, <1>3, <3>5
  <2>5. \/ n = req[o].target /\ Becomes(o, Adjusted(Opened(o)))
        \/ \E pc \in {"lock", "change"} : \E left :
             Becomes(o, [Opened(o) EXCEPT !.pc = pc, !.left = left, !.tries = MaxTries])
    BY <1>19 DEF Count
  <2> QED BY <2>2, <2>3, <2>4, <2>5
<1>20. ASSUME NEW o \in Locates, Locate(o) \/ Spin(o) PROVE FALSE
  BY <1>4, <1>20 DEF Locate, Spin
<1>21. ASSUME NEW o \in PreLoads, Step(o) PROVE Goal
  BY <1>10, <1>11, <1>12, <1>13, <1>14, <1>15, <1>17, <1>19, <1>21 DEF Step
<1>22. ASSUME NEW o \in PreLoads, Failure(o) PROVE Goal
  BY <1>10, <1>16, <1>18, <1>22 DEF Failure
<1>23. CASE UNCHANGED vars
  BY <1>7, <1>23 DEF vars
<1> QED BY <1>8, <1>9, <1>20, <1>21, <1>22, <1>23 DEF Next

(* Whenever an adjustment takes effect or finds nothing to do, the         *)
(* replicas asked for are there, no more and no fewer (server.rs:269).     *)
THEOREM SpecAdjustExact == Spec => AdjustExact
<1>1. IInv /\ [Next]_vars =>
        [\A c \in PreLoads :
           /\ req[c].excuse = {}
           /\ \/ ~At(c, "find") /\ At(c, "find")' /\ req[c].txn # "committed"
              \/ req[c].txn = "open" /\ req'[c].txn = "committed"
           => Cardinality(Live') = req[c].target]_vars
  <2> SUFFICES ASSUME IInv, [Next]_vars, NEW c \in PreLoads, req[c].excuse = {},
                      \/ ~At(c, "find") /\ At(c, "find")' /\ req[c].txn # "committed"
                      \/ req[c].txn = "open" /\ req'[c].txn = "committed"
               PROVE  Cardinality(Live') = req[c].target
    OBVIOUS
  <2>1. \/ Count(c) /\ Cardinality(View(c)) = req[c].target
        \/ req[c].pc = "commit" /\ req[c].txn = "open" /\ \E r : Commits(c, r)
    BY Finishing
  <2>2. CASE Count(c) /\ Cardinality(View(c)) = req[c].target
    <3>1. req[c].pc = "count" /\ doc' = doc
      BY <2>2 DEF Count, At
    <3>2. req[c].txn # "open"
      BY <3>1 DEF IInv, RequestOK, ProgressOK
    <3>3. View(c) = Live /\ Live' = Live
      BY <3>1, <3>2, ViewTyped DEF Live
    <3> QED BY <2>2, <3>3
  <2>3. CASE req[c].pc = "commit" /\ req[c].txn = "open" /\ \E r : Commits(c, r)
    BY <2>3, CommitExact
  <2> QED BY <2>1, <2>2, <2>3
<1> QED BY <1>1, SpecIInv, PTL DEF Spec, AdjustExact

(* A commit leaves documents alone that a bserver is deleting. *)
LEMMA CommitsIgnore ==
  ASSUME IInv, NEW c \in PreLoads, req[c].txn = "open", NEW r, Commits(c, r),
         NEW d \in Docs, doc[d] = "deleting"
  PROVE  doc'[d] = "deleting"
<1>1. d \notin req[c].del /\ d \notin req[c].ins
  BY WritesTyped DEF Writes
<1>2. doc' = [e \in Docs |-> CASE e \in req[c].del -> "gone"
                               [] e \in req[c].ins \ req[c].del -> "live"
                               [] OTHER -> doc[e]]
  BY DEF Commits
<1> QED BY <1>1, <1>2

(* Replicas that a bserver is giving up are left alone for good            *)
(* (server.rs:277).                                                        *)
THEOREM SpecDeletingIgnored == Spec => DeletingIgnored
<1>1. IInv /\ [Next]_vars =>
        [\A d \in Docs : doc[d] = "deleting" => doc'[d] = "deleting"]_vars
  <2> SUFFICES ASSUME IInv, [Next]_vars, NEW d \in Docs, doc[d] = "deleting"
               PROVE  doc'[d] = "deleting"
    OBVIOUS
  <2>1. CASE UNCHANGED doc
    BY <2>1
  <2>2. ASSUME NEW c \in PreLoads, Commit(c) \/ CommitUnknown(c)
        PROVE  doc'[d] = "deleting"
    <3>1. req[c].txn = "open" /\ (UNCHANGED doc \/ \E r : Commits(c, r))
      BY <2>2 DEF Commit, CommitUnknown
    <3> QED BY <2>1, <3>1, CommitsIgnore
  <2>3. ASSUME NEW c \in PreLoads, NEW t \in Targets, Start(c, t) PROVE UNCHANGED doc
    BY <2>3 DEF Start
  <2>4. ASSUME NEW c \in PreLoads, Step(c) PROVE UNCHANGED doc \/ Commit(c)
    BY <2>4 DEF Step, Count, Lock, LockConflicts, Change, Retry, CountUnknown,
       CommitConfirmed, Recommit, Find
  <2>5. ASSUME NEW c \in PreLoads, Failure(c) PROVE UNCHANGED doc \/ CommitUnknown(c)
    BY <2>5 DEF Failure, OperationFails, ReplyLost, RequestFails, CommitLost
  <2>6. ASSUME NEW c \in Locates, Locate(c) \/ Spin(c) PROVE UNCHANGED doc
    BY <2>6 DEF Locate, Spin
  <2>7. ASSUME NEW e \in Docs, MarkDeleting(e) PROVE doc'[d] = "deleting"
    <3>1. doc \in [Docs -> DocState]
      BY DEF IInv, TypeOK
    <3> QED BY <2>7, <3>1 DEF MarkDeleting
  <2>8. CASE UNCHANGED vars
    BY <2>8 DEF vars
  <2> QED BY <2>1, <2>2, <2>3, <2>4, <2>5, <2>6, <2>7, <2>8 DEF Next
<1> QED BY <1>1, SpecIInv, PTL DEF Spec, DeletingIgnored

=============================================================================
