------------------------- MODULE LocalWriterProofs -------------------------
(***************************************************************************)
(* The safety properties of LocalWriter, for any number of writers, puts,  *)
(* stacks, failures and crashes, any payload sizes and any limit.          *)
(***************************************************************************)
EXTENDS LocalWriterInv, FiniteSetTheorems, FunctionTheorems, TLAPS

(* A record of the data file takes at least its header (data.rs:133-170). *)
LEMMA RecordSizePositive ==
  ASSUME NEW n \in Nat
  PROVE  RecordSize(n) \in Nat /\ RecordSize(n) > 0
<1>1. n + HeaderSize \in Nat
  BY HeaderAssumption
<1>2. (n + HeaderSize) % Alignment \in 0 .. Alignment - 1
  BY <1>1, AlignmentAssumption
<1> QED BY <1>1, <1>2, HeaderAssumption, AlignmentAssumption
       DEF RecordSize, PaddedDataSize

(* The first index record comes right behind the header (index.rs:28-30). *)
LEMMA FirstRecord == IdxPlace(HeadSize("idx"))
<1>1. PICK h \in Nat, m \in Nat \ {0} : h = HeadSize("idx") /\ m = IdxSize
  BY IdxAssumption DEF HeadSize
<1>2. h - h = 0 /\ h <= h /\ 0 % m = 0
  BY <1>1
<1> QED BY <1>1, <1>2 DEF IdxPlace

(* Headers and records have natural lengths (data.rs:133-170). *)
LEMMA Sizes_Nat ==
  ASSUME NEW k \in Kinds, NEW n \in Nat
  PROVE  EntrySize(k, n) \in Nat /\ HeadSize(k) \in Nat
<1>1. RecordSize(n) \in Nat
  BY RecordSizePositive
<1> QED BY <1>1, LineAssumption, IdxAssumption, AlignmentAssumption
       DEF Kinds, EntrySize, HeadSize

(* data_offset moves forward with every record. *)
LEMMA Advance_Positive ==
  ASSUME NEW n \in Nat
  PROVE  DataAdvance(n) \in Nat /\ DataAdvance(n) > 0
BY RecordSizePositive DEF DataAdvance


(* Before the first open (writer.rs:82-94) the inductive invariant holds. *)
THEOREM InitIInv == Init => IInv
<1> SUFFICES ASSUME Init PROVE IInv
  OBVIOUS
<1> USE BoundsAssumption
<1>1. TypeOK
  BY DEF Init, TypeOK, File, NoFile, Writer, Gone, Booked, Kinds, Puts
<1>2. \A w \in Writers : CallOK(w) /\ PutOK(w) /\ OffsetOK(w) /\ Owns(w) = {}
  BY DEF Init, CallOK, PutOK, OffsetOK, Owns, Gone, At, Kinds
<1>3. NumbersOK /\ UnbuiltOK
  BY DEF Init, NumbersOK, UnbuiltOK, Gone, Kinds
<1>4. FilesOK /\ IndexAfterData
  BY DEF Init, FilesOK, IndexAfterData, NoFile, Kinds
<1>5. OwnersOK
  BY <1>2 DEF OwnersOK, ExclusiveStack
<1>6. AckedDurable /\ AckedIdsUnique
  BY DEF Init, AckedDurable, AckedIdsUnique
<1> QED BY <1>1, <1>2, <1>3, <1>4, <1>5, <1>6 DEF IInv

(* A step of writer w that touches no file, no booked record and no        *)
(* acknowledgement, leaves the writer outside the writing of a record, and *)
(* gives it no stack it did not have.                                      *)
LEMMA QuietStep ==
  ASSUME IInv, NEW w \in Writers, NEW r \in Writer,
         writer' = [writer EXCEPT ![w] = r],
         UNCHANGED <<file, book, acked>>,
         puts' \in {puts, puts + 1} /\ puts' <= MaxPuts,
         skew' \subseteq (Puts \X Kinds),
         nextId' \in Nat, opens' \in 0 .. MaxOpens, faults' \in 0 .. MaxFaults,
         CallOK(w)',
         r.pc \notin {"write", "sync"},
         r.call = "put" =>
           \/ /\ writer[w].call = "put" /\ r.put = writer[w].put
              /\ writer[w].pc \notin {"write", "sync"}
           \/ r.put = puts + 1,
         Owns(w)' \subseteq Owns(w),
         r.pc \in {"create", "header"} => Owns(w)' = {},
         r.have = Kinds =>
           /\ writer[w].have = Kinds
           /\ r.sid = writer[w].sid /\ r.off = writer[w].off
  PROVE  IInv'
<1> USE DEF IInv
<1>w. /\ writer'[w] = r
      /\ \A v \in Writers : v # w => writer'[v] = writer[v]
  BY DEF TypeOK
<1>1. TypeOK'
  <2>1. \A v \in Writers :
          writer'[v].pc \in {"build", "write", "sync"} => writer'[v].have = Kinds
    BY <1>w DEF TypeOK, CallOK
  <2>2. puts' \in 0 .. MaxPuts
    BY BoundsAssumption DEF TypeOK
  <2> QED BY <2>1, <2>2 DEF TypeOK
<1>2. \A v \in Writers : CallOK(v)'
  <2> SUFFICES ASSUME NEW v \in Writers, v # w PROVE CallOK(v)'
    OBVIOUS
  <2>1. CallOK(v) /\ writer'[v] = writer[v]
    BY <1>w
  <2>2. writer[v].call = "put" => writer[v].put <= puts'
    BY <2>1, BoundsAssumption DEF CallOK, TypeOK, Puts
  <2> QED BY <2>1, <2>2 DEF CallOK
<1>3. NumbersOK'
  <2>1. \A n \in acked : n <= puts' /\ n # puts + 1 /\ book[n].sid \in Sids
    BY BoundsAssumption DEF NumbersOK, TypeOK, Puts
  <2>2. \A v \in Writers : v # w /\ writer[v].call = "put" =>
          writer[v].put # puts + 1
    BY BoundsAssumption DEF TypeOK, CallOK, Puts
  <2> QED BY <1>w, <2>1, <2>2 DEF NumbersOK
<1>o. \A v \in Writers : Owns(v)' \subseteq Owns(v)
  BY <1>w DEF Owns, At
<1>4. FilesOK'
  BY BoundsAssumption DEF FilesOK, EntryEnd, TypeOK, File, Entry, Puts
<1>5. UnbuiltOK'
  <2> SUFFICES ASSUME NEW v \in Writers, (writer[v].call = "put")',
                      (writer[v].pc \notin {"write", "sync"})',
                      NEW s \in Sids, NEW k \in Kinds,
                      NEW e \in file[s][k].recs
               PROVE  e.put # writer'[v].put
    BY DEF UnbuiltOK
  <2>1. e.put <= puts /\ e.put \in Nat
    BY DEF FilesOK, TypeOK, File, Entry, Puts
  <2>2. CASE v # w
    BY <2>2, <1>w DEF UnbuiltOK
  <2>3. CASE v = w
    BY <2>1, <2>3, <1>w DEF UnbuiltOK, TypeOK
  <2> QED BY <2>2, <2>3
<1>6. OwnersOK'
  <2>1. ExclusiveStack'
    BY <1>o DEF OwnersOK, ExclusiveStack
  <2>2. \A v \in Writers : \A s \in Owns(v)' : file'[s]["data"].there
    BY <1>o DEF OwnersOK
  <2>3. \A v \in Writers : \A s \in Owns(v)' :
          writer'[v].pc \in {"create", "header"} =>
            \A k \in Kinds : file'[s][k].recs = {} /\ file'[s][k].synced = 0
    BY <1>o, <1>w DEF OwnersOK
  <2> QED BY <2>1, <2>2, <2>3 DEF OwnersOK
<1>7. \A v \in Writers : PutOK(v)'
  <2>1. \A n, k : Stored(n, k)' = Stored(n, k)
    BY DEF Stored, Durable, EntryEnd
  <2> QED BY <2>1, <1>w DEF PutOK
<1>8. IndexAfterData' /\ AckedDurable' /\ AckedIdsUnique'
  <2>1. \A n, k : Stored(n, k)' = Stored(n, k)
    BY DEF Stored, Durable, EntryEnd
  <2>2. IndexAfterData'
    BY <2>1 DEF IndexAfterData
  <2>3. AckedDurable'
    BY <2>1 DEF AckedDurable
  <2>4. AckedIdsUnique'
    BY DEF AckedIdsUnique
  <2> QED BY <2>2, <2>3, <2>4
<1>9. \A v \in Writers : OffsetOK(v)'
  BY <1>w DEF OffsetOK
<1> QED BY <1>1, <1>2, <1>3, <1>4, <1>5, <1>6, <1>7, <1>8, <1>9

(* A call that returns leaves a well-typed LocalWriter. *)
LEMMA ReturnedWriter ==
  ASSUME NEW x \in Writer
  PROVE  /\ Returned(x) \in Writer
         /\ Returned(x).pc = "idle" /\ Returned(x).call = "none"
         /\ Returned(x).have = x.have /\ Returned(x).new = 0
         /\ Returned(x).sid = x.sid /\ Returned(x).off = x.off
BY DEF Returned, Writer, Kinds

(* What a failing call leaves in the writer: nothing more than it had. *)
LEMMA FailedWriter ==
  ASSUME IInv, NEW w \in Writers,
         Becomes(w, Failed(w))
  PROVE  /\ Failed(w) \in Writer
         /\ Failed(w).call = "none" /\ Failed(w).pc \in {"gone", "idle"}
         /\ CallOK(w)'
         /\ Owns(w)' \subseteq Owns(w)
         /\ Failed(w).have = Kinds =>
              /\ writer[w].have = Kinds
              /\ Failed(w).sid = writer[w].sid /\ Failed(w).off = writer[w].off
<1> DEFINE r == Failed(w)
<1>1. /\ r \in Writer /\ r.call = "none" /\ writer'[w] = r
      /\ r = Gone \/ (r.pc = "idle" /\ r.have = writer[w].have
                      /\ r.sid = writer[w].sid /\ r.off = writer[w].off)
  <2>1. writer[w] \in Writer /\ writer'[w] = r
    BY DEF IInv, TypeOK, Becomes
  <2>2. CASE writer[w].call = "open"
    <3>1. r = Gone
      BY <2>2 DEF Failed
    <3> QED BY <2>1, <3>1 DEF Gone, Writer, Kinds
  <2>3. CASE writer[w].call # "open"
    <3>1. r = Returned(writer[w])
      BY <2>3 DEF Failed
    <3> QED BY <2>1, <3>1, ReturnedWriter
  <2> QED BY <2>2, <2>3
<1>2. r.have # {} => r.sid \in Sids /\ writer[w].have = r.have /\ writer[w].sid = r.sid
  BY <1>1 DEF IInv, CallOK, Gone
<1>3. r.pc \in {"gone", "idle"}
  BY <1>1 DEF Gone
<1>4. CallOK(w)'
  <2> HIDE DEF r
  <2> QED BY <1>1, <1>2, <1>3 DEF CallOK
<1>5. Owns(w)' \subseteq Owns(w)
  <2> HIDE DEF r
  <2> QED BY <1>1, <1>2, <1>3 DEF Owns, At
<1>6. Gone.have # Kinds
  BY DEF Gone, Kinds
<1> QED BY <1>1, <1>3, <1>4, <1>5, <1>6

(* A failure that touches no file. *)
LEMMA QuietFailure ==
  ASSUME IInv, NEW w \in Writers,
         Becomes(w, Failed(w)),
         UNCHANGED <<file, book, acked, puts, opens>>,
         skew' \subseteq (Puts \X Kinds), nextId' \in Nat, Fault
  PROVE  IInv'
<1>1. /\ opens' \in 0 .. MaxOpens /\ faults' \in 0 .. MaxFaults
      /\ puts' \in {puts, puts + 1} /\ puts' <= MaxPuts
  BY BoundsAssumption DEF IInv, TypeOK, Fault
<1>2. Failed(w).call # "put" /\ Failed(w).pc \notin {"write", "sync", "create", "header"}
  BY FailedWriter
<1> QED BY <1>1, <1>2, FailedWriter, QuietStep DEF Becomes

(* The error returns that touch no file (writer.rs:112, 127-141, 177-184). *)
LEMMA FailuresQuiet ==
  ASSUME IInv, NEW w \in Writers,
         \/ ResolveRemoteFails(w) \/ ProbeFails(w) \/ CreateFails(w)
         \/ SyncFails(w) \/ FlushFails(w)
  PROVE  IInv'
<1>1. nextId \in Nat /\ skew \subseteq (Puts \X Kinds)
  BY DEF IInv, TypeOK
<1>2. CASE ResolveRemoteFails(w)
  <2>1. nextId' \in Nat
    BY <1>1, <1>2 DEF ResolveRemoteFails
  <2> QED BY <1>1, <1>2, <2>1, QuietFailure DEF ResolveRemoteFails
<1>3. CASE ProbeFails(w) \/ CreateFails(w) \/ FlushFails(w)
  BY <1>1, <1>3, QuietFailure DEF ProbeFails, CreateFails, FlushFails
<1>4. CASE SyncFails(w)
  <2>1. writer[w].put \in Puts /\ writer[w].kind \in Kinds
    BY <1>4 DEF SyncFails, At, IInv, CallOK, TypeOK, Writer
  <2>2. skew' \subseteq (Puts \X Kinds)
    BY <1>1, <1>4, <2>1 DEF SyncFails
  <2> QED BY <1>1, <1>4, <2>2, QuietFailure DEF SyncFails
<1> QED BY <1>2, <1>3, <1>4

(* AlreadyExists from create_new is such an error return too. *)
LEMMA CreateExistsQuiet ==
  ASSUME IInv, NEW w \in Writers, CreateExists(w)
  PROVE  IInv'
<1>1. /\ opens' \in 0 .. MaxOpens /\ faults' \in 0 .. MaxFaults
      /\ puts' \in {puts, puts + 1} /\ puts' <= MaxPuts
      /\ skew' \subseteq (Puts \X Kinds) /\ nextId' \in Nat
      /\ UNCHANGED <<file, book, acked>>
      /\ Becomes(w, Failed(w))
  BY BoundsAssumption DEF CreateExists, IInv, TypeOK
<1>2. Failed(w).call # "put" /\ Failed(w).pc \notin {"write", "sync", "create", "header"}
  BY <1>1, FailedWriter
<1> QED BY <1>1, <1>2, FailedWriter, QuietStep DEF Becomes

(* What the bounds and counters of a step that leaves them alone satisfy. *)
LEMMA CountersTyped ==
  ASSUME IInv
  PROVE  /\ opens \in 0 .. MaxOpens /\ faults \in 0 .. MaxFaults
         /\ puts \in 0 .. MaxPuts /\ puts <= MaxPuts /\ puts \in {puts, puts + 1}
         /\ skew \subseteq (Puts \X Kinds) /\ nextId \in Nat
         /\ writer \in [Writers -> Writer]
BY BoundsAssumption DEF IInv, TypeOK

(* open starts with the fields of writer.rs:82-94 and touches no file. *)
LEMMA OpenQuiet ==
  ASSUME IInv, NEW w \in Writers, Open(w)
  PROVE  IInv'
<1> DEFINE r == [Gone EXCEPT !.pc = "resolve", !.call = "open"]
<1>1. /\ r \in Writer
      /\ r.pc = "resolve" /\ r.call = "open" /\ r.have = {} /\ r.kind = "data"
  BY DEF Gone, Writer, Kinds
<1>2. writer' = [writer EXCEPT ![w] = r]
  BY DEF Open, Becomes
<1> HIDE DEF r
<1>3. writer'[w] = r
  BY <1>2, CountersTyped
<1>4. CallOK(w)' /\ Owns(w)' = {} /\ r.have # Kinds
  BY <1>1, <1>3 DEF CallOK, Owns, At, Kinds
<1>5. opens' \in 0 .. MaxOpens
  BY CountersTyped, BoundsAssumption DEF Open
<1> QED
  BY <1>1, <1>2, <1>4, <1>5, CountersTyped, QuietStep DEF Open

(* A step of opening a stack that creates nothing: the writer has no file, *)
(* goes on with the same call and the same put, and has an id to try.      *)
LEMMA OpeningQuiet ==
  ASSUME IInv, NEW w \in Writers, NEW pc \in {"probe", "create"}, NEW s \in Sids,
         writer[w].pc \in {"resolve", "probe"},
         Becomes(w, [writer[w] EXCEPT !.pc = pc, !.kind = "data", !.new = s]),
         UNCHANGED <<file, book, acked, puts, skew, opens, faults>>,
         nextId' \in Nat
  PROVE  IInv'
<1> DEFINE r == [writer[w] EXCEPT !.pc = pc, !.kind = "data", !.new = s]
<1>1. /\ writer[w] \in Writer /\ writer' = [writer EXCEPT ![w] = r]
      /\ s \in Nat
  BY CountersTyped, BoundsAssumption DEF Sids, Becomes
<1>2. /\ r \in Writer
      /\ r.pc = pc /\ r.kind = "data" /\ r.new = s /\ r.put = writer[w].put
      /\ r.call = writer[w].call /\ r.have = writer[w].have
      /\ r.sid = writer[w].sid /\ r.size = writer[w].size
  BY <1>1 DEF Writer, Kinds
<1> HIDE DEF r
<1>3. writer'[w] = r /\ CallOK(w)
  BY <1>1, CountersTyped DEF IInv
<1>4. r.have = {} /\ r.call \in {"open", "put"}
  BY <1>2, <1>3 DEF CallOK
<1>5. CallOK(w)'
  BY <1>2, <1>3, <1>4 DEF CallOK
<1>6. Owns(w)' = {} /\ r.have # Kinds
  BY <1>2, <1>3, <1>4 DEF Owns, At, Kinds
<1> QED
  BY <1>1, <1>2, <1>5, <1>6, CountersTyped, QuietStep

(* So do the steps of resolve_stack_ids (writer.rs:99-119). *)
LEMMA OpeningSteps ==
  ASSUME IInv, NEW w \in Writers,
         ResolveRemote(w) \/ ResolveLocal(w) \/ ProbeTaken(w) \/ ProbeFree(w)
  PROVE  IInv'
<1>1. nextId \in Nat /\ CallOK(w) /\ writer[w] \in Writer
  BY CountersTyped DEF IInv
<1>2. CASE ResolveRemote(w)
  <2>1. nextId \in Sids /\ nextId' \in Nat
    BY <1>1, <1>2 DEF ResolveRemote
  <2> QED BY <1>2, <2>1, OpeningQuiet DEF ResolveRemote, At
<1>3. CASE ResolveLocal(w)
  <2>1. PICK now \in Clock :
          Becomes(w, [writer[w] EXCEPT !.pc = "probe", !.new = now])
    BY <1>3 DEF ResolveLocal
  <2>2. now \in Sids
    BY ModeAssumption
  <2>3. writer[w].kind = "data"
    BY <1>1, <1>3 DEF ResolveLocal, At, CallOK
  <2>4. [writer[w] EXCEPT !.pc = "probe", !.new = now]
          = [writer[w] EXCEPT !.pc = "probe", !.kind = "data", !.new = now]
    BY <1>1, <2>3 DEF Writer
  <2> QED BY <1>1, <1>3, <2>1, <2>2, <2>4, OpeningQuiet DEF ResolveLocal, At
<1>4. CASE ProbeTaken(w)
  <2> DEFINE next == NextCandidate(writer[w].new)
  <2>1. writer[w].new \in Sids /\ writer[w].pc = "probe" /\ writer[w].kind = "data"
    BY <1>1, <1>4 DEF ProbeTaken, At, CallOK
  <2>2. next \in Sids
    BY <2>1, <1>4, BoundsAssumption DEF ProbeTaken, NextCandidate, Sids
  <2>3. [writer[w] EXCEPT !.new = next]
          = [writer[w] EXCEPT !.pc = "probe", !.kind = "data", !.new = next]
    <3> HIDE DEF next
    <3> QED BY <1>1, <2>1 DEF Writer
  <2> QED BY <1>1, <1>4, <2>1, <2>2, <2>3, OpeningQuiet DEF ProbeTaken
<1>5. CASE ProbeFree(w)
  <2>1. writer[w].new \in Sids
    BY <1>1, <1>5 DEF ProbeFree, At, CallOK
  <2>2. [writer[w] EXCEPT !.pc = "create", !.kind = "data"]
          = [writer[w] EXCEPT !.pc = "create", !.kind = "data", !.new = writer[w].new]
    BY <1>1 DEF Writer
  <2> QED BY <1>1, <1>5, <2>1, <2>2, OpeningQuiet DEF ProbeFree, At
<1> QED BY <1>2, <1>3, <1>4, <1>5

(* A put past its checks gets a number of its own (writer.rs:228-243). *)
LEMMA PutQuiet ==
  ASSUME IInv, NEW w \in Writers, NEW n \in Sizes, Put(w, n)
  PROVE  IInv'
<1> DEFINE pc == IF NeedsRotation(w, n) THEN "flush" ELSE "build"
           r == [writer[w] EXCEPT !.call = "put", !.size = n, !.put = puts + 1,
                                  !.pc = pc, !.kind = "data"]
<1>1. /\ writer[w] \in Writer /\ writer' = [writer EXCEPT ![w] = r]
      /\ n \in Nat /\ puts + 1 \in Puts /\ puts + 1 \in Nat /\ puts' = puts + 1
      /\ pc \in {"flush", "build"}
      /\ writer[w].have = Kinds
  BY CountersTyped, SizesAssumption, BoundsAssumption
     DEF Put, Becomes, Puts, StackClosed
<1> HIDE DEF pc
<1>2. /\ r \in Writer
      /\ r.pc = pc /\ r.call = "put" /\ r.kind = "data" /\ r.put = puts + 1
      /\ r.size = n /\ r.have = Kinds
      /\ r.sid = writer[w].sid /\ r.off = writer[w].off
  BY <1>1 DEF Writer, Kinds
<1> HIDE DEF r
<1>3. writer'[w] = r /\ CallOK(w)
  BY <1>1, CountersTyped DEF IInv
<1>4. r.sid \in Sids
  BY <1>1, <1>2, <1>3 DEF CallOK, Kinds
<1>5. CallOK(w)'
  BY <1>1, <1>2, <1>3, <1>4 DEF CallOK
<1>6. Owns(w)' \subseteq Owns(w)
  BY <1>1, <1>2, <1>3 DEF Owns, At
<1>7. puts' <= MaxPuts /\ puts' \in {puts, puts + 1}
  BY <1>1, BoundsAssumption DEF Puts
<1>8. UNCHANGED <<file, book, acked, skew, nextId, opens, faults>>
  BY DEF Put
<1> QED BY <1>1, <1>2, <1>5, <1>6, <1>7, <1>8, CountersTyped, QuietStep

(* close begins (writer.rs:314). *)
LEMMA CloseQuiet ==
  ASSUME IInv, NEW w \in Writers, Close(w)
  PROVE  IInv'
<1> DEFINE r == [writer[w] EXCEPT !.pc = "flush", !.call = "close", !.kind = "data"]
<1>1. writer[w] \in Writer /\ writer' = [writer EXCEPT ![w] = r]
  BY CountersTyped DEF Close, Becomes
<1>2. /\ r \in Writer
      /\ r.pc = "flush" /\ r.call = "close" /\ r.kind = "data"
      /\ r.have = writer[w].have
      /\ r.sid = writer[w].sid /\ r.off = writer[w].off
  BY <1>1 DEF Writer, Kinds
<1> HIDE DEF r
<1>3. writer'[w] = r /\ CallOK(w)
  BY <1>1, CountersTyped DEF IInv
<1>4. CallOK(w)'
  BY <1>2, <1>3 DEF CallOK
<1>5. Owns(w)' \subseteq Owns(w)
  BY <1>2, <1>3 DEF Owns, At
<1>6. UNCHANGED <<file, book, acked, puts, skew, nextId, opens, faults>>
  BY DEF Close
<1> QED BY <1>1, <1>2, <1>4, <1>5, <1>6, CountersTyped, QuietStep

(* A step of writer w that creates a file of the stack s it is opening, or *)
(* writes its magic header: s belongs to no other writer, and its files    *)
(* hold no record.                                                         *)
EmptyChange(w, r, s, k, f) ==
  /\ Becomes(w, r)
  /\ file' = [file EXCEPT ![s][k] = f]
  /\ f.recs = {} /\ f.synced = 0
  /\ \A j \in Kinds : file[s][j].recs = {} /\ file[s][j].synced = 0
  /\ file[s][k].there \/ k = "data" => f.there
  /\ k = "data" \/ file[s]["data"].there
  /\ s \in Owns(w) \/ ~file[s]["data"].there
  /\ UNCHANGED <<book, acked, puts, skew, nextId, opens>>
  /\ faults' \in 0 .. MaxFaults
  /\ CallOK(w)'
  /\ r.pc \notin {"write", "sync"}
  /\ r.call = "put" => /\ writer[w].call = "put" /\ r.put = writer[w].put
                       /\ writer[w].pc \notin {"write", "sync"}
  /\ Owns(w)' \subseteq {s}
  /\ r.have = Kinds => r.sid = s

(* It keeps the invariant.                                                 *)
LEMMA EmptyFileStep ==
  ASSUME IInv, NEW w \in Writers, NEW r \in Writer,
         NEW s \in Sids, NEW k \in Kinds, NEW f \in File,
         EmptyChange(w, r, s, k, f)
  PROVE  IInv'
<1>own. Becomes(w, r)
  BY DEF EmptyChange
<1>empty. /\ file' = [file EXCEPT ![s][k] = f]
          /\ f.recs = {} /\ f.synced = 0
          /\ \A j \in Kinds : file[s][j].recs = {} /\ file[s][j].synced = 0
  BY DEF EmptyChange
<1>there. /\ file[s][k].there \/ k = "data" => f.there
          /\ k = "data" \/ file[s]["data"].there
  BY DEF EmptyChange
<1>free. s \in Owns(w) \/ ~file[s]["data"].there
  BY DEF EmptyChange
<1>same. /\ UNCHANGED <<book, acked, puts, skew, nextId, opens>>
         /\ faults' \in 0 .. MaxFaults
  BY DEF EmptyChange
<1>next. CallOK(w)'
  BY DEF EmptyChange
<1>call. /\ r.pc \notin {"write", "sync"}
         /\ r.call = "put" => /\ writer[w].call = "put" /\ r.put = writer[w].put
                              /\ writer[w].pc \notin {"write", "sync"}
         /\ Owns(w)' \subseteq {s}
         /\ r.have = Kinds => r.sid = s
  BY DEF EmptyChange
<1>typed. TypeOK
  BY DEF IInv
<1>calls. \A v \in Writers : CallOK(v)
  BY DEF IInv
<1>numbers. NumbersOK
  BY DEF IInv
<1>files. FilesOK
  BY DEF IInv
<1>unbuilt. UnbuiltOK
  BY DEF IInv
<1>owners. OwnersOK
  BY DEF IInv
<1>places. \A v \in Writers : PutOK(v) /\ OffsetOK(v)
  BY DEF IInv
<1>safe. IndexAfterData /\ AckedDurable /\ AckedIdsUnique
  BY DEF IInv
<1>w. /\ writer'[w] = r
      /\ writer' \in [Writers -> Writer]
      /\ \A v \in Writers : v # w => writer'[v] = writer[v]
  BY <1>typed, <1>own DEF TypeOK, Becomes
<1>f. /\ file' \in [Sids -> [Kinds -> File]]
      /\ file'[s][k] = f
      /\ \A t \in Sids, j \in Kinds : t # s \/ j # k => file'[t][j] = file[t][j]
  BY <1>typed, <1>empty DEF TypeOK
<1>r. \A t \in Sids, j \in Kinds :
        file'[t][j].recs = file[t][j].recs /\ file'[t][j].synced = file[t][j].synced
  <2>1. /\ file'[s][k].recs = file[s][k].recs
        /\ file'[s][k].synced = file[s][k].synced
    BY <1>f, <1>empty
  <2> QED BY <2>1, <1>f
<1>t. \A t \in Sids, j \in Kinds : file[t][j].there => file'[t][j].there
  BY <1>f, <1>empty, <1>there
<1>d. \A t \in Sids, j \in Kinds : Durable(t, j)' = Durable(t, j)
  BY <1>r, <1>same DEF Durable, EntryEnd
<1>1. TypeOK'
  <2>1. \A v \in Writers :
          writer'[v].pc \in {"build", "write", "sync"} => writer'[v].have = Kinds
    BY <1>w, <1>typed, <1>calls, <1>next DEF TypeOK, CallOK
  <2>2. \A t \in Sids, j \in Kinds : file'[t][j].synced <= file'[t][j].len
    BY <1>f, <1>typed, <1>empty DEF TypeOK, File
  <2> QED BY <1>w, <1>f, <2>1, <2>2, <1>typed, <1>same DEF TypeOK
<1>2. \A v \in Writers : CallOK(v)'
  BY <1>w, <1>calls, <1>next, <1>same DEF CallOK
<1>3. NumbersOK'
  BY <1>w, <1>numbers, <1>call, <1>same DEF NumbersOK
<1>4. FilesOK'
  <2>1. \A t \in Sids, j \in Kinds :
          ~file'[t]["data"].there => file'[t][j] = NoFile
    BY <1>f, <1>t, <1>files, <1>there DEF FilesOK, Kinds
  <2>2. \A t \in Sids, j \in Kinds : \A e \in file'[t][j].recs :
          book[e.put].sid = t /\ EntryEnd(j, e) <= file'[t][j].len /\ e.put <= puts
    BY <1>f, <1>files, <1>empty DEF FilesOK
  <2> QED BY <2>1, <2>2, <1>files, <1>same DEF FilesOK, EntryEnd
<1>5. UnbuiltOK'
  BY <1>w, <1>r, <1>unbuilt, <1>call DEF UnbuiltOK
<1>6. OwnersOK'
  <2>1. \A v \in Writers : v # w => s \notin Owns(v)
    BY <1>owners, <1>free DEF OwnersOK, ExclusiveStack
  <2>2. \A v \in Writers : v # w => Owns(v)' = Owns(v)
    BY <1>w DEF Owns, At
  <2>3. ExclusiveStack'
    BY <2>1, <2>2, <1>owners, <1>call DEF OwnersOK, ExclusiveStack
  <2>4. file'[s]["data"].there
    BY <1>f, <1>t, <1>there DEF Kinds
  <2>5. \A v \in Writers : \A t \in Owns(v)' : file'[t]["data"].there
    BY <2>2, <2>4, <1>t, <1>owners, <1>call DEF OwnersOK, Owns, Kinds
  <2>6. \A v \in Writers : \A t \in Owns(v)' :
          writer'[v].pc \in {"create", "header"} =>
            \A j \in Kinds : file'[t][j].recs = {} /\ file'[t][j].synced = 0
    <3> SUFFICES ASSUME NEW v \in Writers, NEW t \in Owns(v)',
                        writer'[v].pc \in {"create", "header"}, NEW j \in Kinds
                 PROVE  file'[t][j].recs = {} /\ file'[t][j].synced = 0
      OBVIOUS
    <3>1. t \in Sids
      BY DEF Owns
    <3>2. file[t][j].recs = {} /\ file[t][j].synced = 0
      BY <1>w, <2>2, <1>owners, <1>call, <1>empty DEF OwnersOK
    <3> QED BY <3>1, <3>2, <1>r
  <2> QED BY <2>3, <2>5, <2>6, <1>owners DEF OwnersOK
<1>7. \A v \in Writers : PutOK(v)'
  <2> SUFFICES ASSUME NEW v \in Writers, v # w, writer[v].pc \in {"write", "sync"}
               PROVE  PutOK(v)'
    BY <1>w, <1>places, <1>call, <1>same DEF PutOK
  <2>1. PutOK(v) /\ writer'[v] = writer[v]
    BY <1>w, <1>places
  <2>2. writer[v].sid \in Sids /\ writer[v].kind \in Kinds
    BY <1>typed, <1>calls DEF CallOK, Kinds, TypeOK, Writer
  <2>3. \A n \in Puts, j \in Kinds :
          book[n].sid \in Sids => (Stored(n, j) <=> Stored(n, j)')
    BY <1>d, <1>same DEF Stored
  <2>4. writer[v].put \in Puts
    BY <1>calls, <1>places DEF CallOK
  <2> QED BY <2>1, <2>2, <2>3, <2>4, <1>r, <1>same DEF PutOK, Kinds
<1>8. IndexAfterData' /\ AckedDurable'
  <2>1. \A t \in Sids : \A e \in file[t]["idx"].recs : book[e.put].sid = t
    BY <1>safe DEF IndexAfterData
  <2>2. IndexAfterData'
    BY <2>1, <1>r, <1>d, <1>safe, <1>same DEF IndexAfterData, Stored, Kinds
  <2>3. AckedDurable'
    BY <1>d, <1>numbers, <1>safe, <1>same DEF AckedDurable, Stored, NumbersOK
  <2> QED BY <2>2, <2>3
<1>9. AckedIdsUnique'
  BY <1>safe, <1>same DEF AckedIdsUnique
<1>10. \A v \in Writers : OffsetOK(v)'
  <2>1. \A n \in acked : book[n].sid # s
    BY <1>safe, <1>empty DEF AckedDurable, Stored, Durable, Kinds
  <2> QED BY <1>w, <2>1, <1>places, <1>call, <1>same, <1>next DEF OffsetOK
<1> QED BY <1>1, <1>2, <1>3, <1>4, <1>5, <1>6, <1>7, <1>8, <1>9, <1>10 DEF IInv

(* While a stack is being opened its files hold nothing. *)
LEMMA OpeningEmpty ==
  ASSUME IInv, NEW w \in Writers, writer[w].pc \in {"create", "header"},
         \/ writer[w].pc = "header" \/ writer[w].kind # "data"
         \/ ~file[writer[w].new]["data"].there
  PROVE  LET s == writer[w].new
         IN  /\ s \in Sids /\ s \in Nat
             /\ writer[w].kind \in Kinds /\ writer[w].have = {}
             /\ writer[w].call \in {"open", "put"}
             /\ \A j \in Kinds : file[s][j] \in File
             /\ \A j \in Kinds : file[s][j].recs = {} /\ file[s][j].synced = 0
             /\ s \in Owns(w) \/ (writer[w].pc = "create" /\ writer[w].kind = "data"
                                  /\ ~file[s]["data"].there)
             /\ s \in Owns(w) => file[s]["data"].there
<1> USE DEF IInv
<1> DEFINE s == writer[w].new
<1>1. /\ s \in Sids /\ writer[w].kind \in Kinds /\ writer[w].have = {}
      /\ writer[w].call \in {"open", "put"}
  BY DEF CallOK, TypeOK, Writer
<1>2. s \in Nat /\ \A j \in Kinds : file[s][j] \in File
  BY <1>1, BoundsAssumption DEF Sids, TypeOK
<1>3. CASE s \in Owns(w)
  BY <1>1, <1>2, <1>3 DEF OwnersOK
<1>4. CASE s \notin Owns(w)
  <2>1. writer[w].pc = "create" /\ writer[w].kind = "data" /\ ~file[s]["data"].there
    BY <1>1, <1>4 DEF Owns, At
  <2>2. \A j \in Kinds : file[s][j] = NoFile
    BY <1>1, <2>1 DEF FilesOK
  <2> QED BY <1>1, <1>2, <1>4, <2>1, <2>2 DEF NoFile
<1> QED BY <1>3, <1>4

(* create_new makes the stack its writer's own (writer.rs:127-141). *)
LEMMA CreateStep ==
  ASSUME IInv, NEW w \in Writers, Create(w)
  PROVE  IInv'
<1> DEFINE s == writer[w].new
           k == writer[w].kind
           f == [NoFile EXCEPT !.there = TRUE]
           r == [writer[w] EXCEPT
                   !.pc = IF k = "meta" THEN "header" ELSE "create",
                   !.kind = IF k = "meta" THEN "data" ELSE NextOpened(k)]
<1>1. /\ writer[w].pc = "create" /\ ~file[s][k].there
      /\ file' = [file EXCEPT ![s][k] = f]
      /\ Becomes(w, r)
      /\ UNCHANGED <<book, puts, acked, skew, nextId, opens, faults>>
  BY DEF Create, At, Taken
<1>2. f \in File /\ f.there /\ f.recs = {} /\ f.synced = 0
  BY DEF NoFile, File
<1>3. k # "data" \/ ~file[s]["data"].there
  BY <1>1
<1>4. /\ s \in Sids /\ k \in Kinds /\ writer[w].have = {}
      /\ writer[w].call \in {"open", "put"}
      /\ \A j \in Kinds : file[s][j].recs = {} /\ file[s][j].synced = 0
      /\ s \in Owns(w) \/ (k = "data" /\ ~file[s]["data"].there)
      /\ s \in Owns(w) => file[s]["data"].there
  BY <1>1, <1>3, OpeningEmpty
<1>5. writer[w] \in Writer /\ CallOK(w)
  BY CountersTyped DEF IInv
<1> HIDE DEF f
<1>6. /\ r \in Writer /\ r.pc \in {"create", "header"}
      /\ r.have = {} /\ r.new = s /\ r.call = writer[w].call
      /\ r.put = writer[w].put /\ r.size = writer[w].size
  BY <1>4, <1>5 DEF Writer, Kinds, NextOpened
<1> HIDE DEF r
<1>7. writer'[w] = r
  BY <1>1, CountersTyped DEF Becomes
<1>8. CallOK(w)'
  BY <1>1, <1>4, <1>5, <1>6, <1>7 DEF CallOK
<1>9. Owns(w)' \subseteq {s} /\ r.have # Kinds
  BY <1>6, <1>7 DEF Owns, At, Kinds
<1>11. file[s][k].there \/ k = "data" => f.there
  BY <1>2
<1>10. k = "data" \/ file[s]["data"].there
  BY <1>4
<1> QED
  <2>1. faults' \in 0 .. MaxFaults
    BY <1>1, CountersTyped
  <2>2. /\ r.pc \notin {"write", "sync"}
        /\ r.call = "put" =>
             /\ writer[w].call = "put" /\ r.put = writer[w].put
             /\ writer[w].pc \notin {"write", "sync"}
        /\ r.have = Kinds => r.sid = s
    BY <1>1, <1>6, <1>9
  <2>3. s \in Owns(w) \/ ~file[s]["data"].there
    BY <1>4
  <2> HIDE DEF s, k
  <2> QED
    BY <1>1, <1>2, <1>4, <1>6, <1>8, <1>9, <1>10, <1>11,
       <2>1, <2>2, <2>3, EmptyFileStep DEF EmptyChange

(* A header cut off leaves an empty file behind (writer.rs:143-157). *)
LEMMA HeaderFailsStep ==
  ASSUME IInv, NEW w \in Writers, HeaderFails(w)
  PROVE  IInv'
<1> DEFINE s == writer[w].new
           k == writer[w].kind
<1>1. PICK part \in 0 .. HeadSize(k) : file' = [file EXCEPT ![s][k].len = part]
  BY DEF HeaderFails
<1>2. /\ writer[w].pc = "header" /\ Becomes(w, Failed(w))
      /\ UNCHANGED <<book, puts, acked, skew, nextId, opens>>
      /\ faults' \in 0 .. MaxFaults
  BY CountersTyped, BoundsAssumption DEF HeaderFails, At, Fault
<1>3. /\ s \in Sids /\ k \in Kinds
      /\ writer[w].have = {}
      /\ \A j \in Kinds : file[s][j] \in File
      /\ \A j \in Kinds : file[s][j].recs = {} /\ file[s][j].synced = 0
      /\ s \in Owns(w) /\ file[s]["data"].there
  BY <1>2, OpeningEmpty
<1> DEFINE f == [file[s][k] EXCEPT !.len = part]
           r == Failed(w)
<1>4. /\ file[s][k] \in File /\ file[s][k].recs = {} /\ file[s][k].synced = 0
      /\ HeadSize(k) \in Nat
  BY <1>3, Sizes_Nat
<1>5. f \in File /\ f.there = file[s][k].there /\ f.recs = {} /\ f.synced = 0
  <2>1. part \in Nat
    BY <1>4
  <2>2. ASSUME NEW g \in File
        PROVE  /\ [g EXCEPT !.len = part] \in File
               /\ [g EXCEPT !.len = part].there = g.there
               /\ [g EXCEPT !.len = part].recs = g.recs
               /\ [g EXCEPT !.len = part].synced = g.synced
    BY <2>1 DEF File
  <2> QED BY <1>4, <2>2
<1>6. file' = [file EXCEPT ![s][k] = f]
  BY <1>1, <1>3 DEF IInv, TypeOK
<1>7. /\ r \in Writer /\ r.call = "none" /\ r.pc \in {"gone", "idle"}
      /\ CallOK(w)'
      /\ r.have # Kinds
  BY <1>2, <1>3, FailedWriter DEF Kinds
<1>8. writer'[w] = r /\ r.have = {}
  <2> HIDE DEF r
  <2>1. writer'[w] = r
    BY <1>2, CountersTyped DEF Becomes, r
  <2> QED BY <2>1, <1>3 DEF r, Failed, Gone, Returned
<1>9. Owns(w)' \subseteq {s}
  BY <1>7, <1>8 DEF Owns, At
<1> QED
  <2>2. /\ r.pc \notin {"write", "sync"}
        /\ r.call = "put" =>
             /\ writer[w].call = "put" /\ r.put = writer[w].put
             /\ writer[w].pc \notin {"write", "sync"}
        /\ r.have = Kinds => r.sid = s
    BY <1>7
  <2>3. Becomes(w, r)
    BY <1>2
  <2>4. file[s][k].there \/ k = "data" => f.there
    BY <1>3, <1>5
  <2> HIDE DEF s, k, f, r
  <2> QED
    BY <1>2, <1>3, <2>4, <1>5, <1>6, <1>7, <1>9, <2>2, <2>3, EmptyFileStep DEF EmptyChange

(* Moving on to the next step keeps the LocalWriter typed. *)
LEMMA PcWriter ==
  ASSUME NEW x \in Writer, NEW pc \in {"idle", "build", "write", "sync"}
  PROVE  LET r == [x EXCEPT !.pc = pc]
         IN  /\ r \in Writer
             /\ r.pc = pc /\ r.call = x.call /\ r.kind = x.kind
             /\ r.have = x.have /\ r.sid = x.sid /\ r.off = x.off
             /\ r.put = x.put /\ r.size = x.size
BY DEF Writer

(* So does setting the fields of an opened stack (writer.rs:159-166). *)
LEMMA OpenedWriter ==
  ASSUME NEW x \in Writer
  PROVE  /\ Opened(x) \in Writer
         /\ Opened(x).pc = x.pc /\ Opened(x).call = x.call
         /\ Opened(x).have = Kinds /\ Opened(x).sid = x.new
         /\ Opened(x).put = x.put /\ Opened(x).size = x.size
         /\ Opened(x).kind = "data" /\ Opened(x).new = 0
<1>1. HeadSize("data") \in Nat /\ HeadSize("meta") \in Nat
  BY Sizes_Nat DEF Kinds
<1> QED BY <1>1 DEF Opened, Writer, Kinds

(* Headers are written to empty files of an owned stack (writer.rs:143-166). *)
LEMMA HeaderStep ==
  ASSUME IInv, NEW w \in Writers, Header(w)
  PROVE  IInv'
<1> DEFINE s == writer[w].new
           k == writer[w].kind
           f == [file[s][k] EXCEPT !.len = HeadSize(k)]
<1>1. /\ writer[w].pc = "header"
      /\ file' = [file EXCEPT ![s][k].len = HeadSize(k)]
      /\ UNCHANGED <<book, puts, acked, skew, nextId, opens, faults>>
  BY DEF Header, At
<1>2. /\ s \in Sids /\ k \in Kinds /\ writer[w].have = {}
      /\ \A j \in Kinds : file[s][j] \in File
      /\ \A j \in Kinds : file[s][j].recs = {} /\ file[s][j].synced = 0
      /\ s \in Owns(w) /\ file[s]["data"].there
  BY <1>1, OpeningEmpty
<1>3. /\ file[s][k] \in File /\ file[s][k].recs = {} /\ file[s][k].synced = 0
      /\ HeadSize(k) \in Nat
  BY <1>2, Sizes_Nat
<1>4. /\ f \in File /\ f.there = file[s][k].there /\ f.recs = {} /\ f.synced = 0
  BY <1>3 DEF File
<1>5. file' = [file EXCEPT ![s][k] = f]
  BY <1>1, <1>2 DEF IInv, TypeOK
<1>6. /\ writer[w] \in Writer /\ CallOK(w)
      /\ faults' \in 0 .. MaxFaults
      /\ file[s][k].there \/ k = "data" => f.there
  BY <1>1, <1>2, <1>4, CountersTyped DEF IInv
<1>7. ASSUME NEW r \in Writer, Becomes(w, r), CallOK(w)', r.have = Kinds \/ r.have = {},
             r.pc \in {"header", "idle", "build"},
             r.call = "put" => writer[w].call = "put" /\ r.put = writer[w].put,
             r.have = Kinds => r.sid = s,
             r.pc = "header" => r.new = s /\ r.have = {}
      PROVE  IInv'
  <2>1. writer'[w] = r
    BY <1>7, CountersTyped DEF Becomes
  <2>2. Owns(w)' \subseteq {s}
    BY <1>7, <2>1 DEF Owns, At
  <2>3. /\ r.pc \notin {"write", "sync"}
        /\ r.call = "put" =>
             /\ writer[w].call = "put" /\ r.put = writer[w].put
             /\ writer[w].pc \notin {"write", "sync"}
    BY <1>1, <1>7
  <2>4. /\ UNCHANGED <<book, acked, puts, skew, nextId, opens>>
        /\ k = "data" \/ file[s]["data"].there
        /\ s \in Owns(w) \/ ~file[s]["data"].there
    BY <1>1, <1>2
  <2> HIDE DEF s, k, f
  <2> QED
    BY <1>2, <1>4, <1>5, <1>6, <1>7, <2>2, <2>3, <2>4, EmptyFileStep DEF EmptyChange
<1>8. CASE k # "meta" /\ Becomes(w, [writer[w] EXCEPT !.kind = NextOpened(k)])
  <2> DEFINE r == [writer[w] EXCEPT !.kind = NextOpened(k)]
  <2>1. /\ r \in Writer /\ r.pc = "header" /\ r.call = writer[w].call
        /\ r.put = writer[w].put /\ r.size = writer[w].size
        /\ r.have = {} /\ r.new = s
    BY <1>1, <1>2, <1>6 DEF Writer, Kinds, NextOpened
  <2> HIDE DEF r
  <2>2. Becomes(w, r) /\ writer'[w] = r
    BY <1>8, CountersTyped DEF Becomes, r
  <2>3. CallOK(w)'
    BY <1>1, <1>2, <1>6, <2>1, <2>2 DEF CallOK
  <2>4. r.have # Kinds
    BY <2>1 DEF Kinds
  <2> QED BY <1>7, <2>1, <2>2, <2>3, <2>4
<1>9. CASE k = "meta" /\ writer[w].call = "open" /\ Becomes(w, Returned(Opened(writer[w])))
  <2> DEFINE r == Returned(Opened(writer[w]))
  <2>1. /\ r \in Writer /\ r.pc = "idle" /\ r.call = "none"
        /\ r.have = Kinds /\ r.sid = s
    BY <1>6, OpenedWriter, ReturnedWriter
  <2> HIDE DEF r
  <2>2. Becomes(w, r) /\ writer'[w] = r
    BY <1>9, CountersTyped DEF Becomes, r
  <2>3. CallOK(w)'
    BY <1>2, <2>1, <2>2 DEF CallOK
  <2> QED BY <1>7, <2>1, <2>2, <2>3
<1>10. CASE k = "meta" /\ writer[w].call = "put"
            /\ Becomes(w, [Opened(writer[w]) EXCEPT !.pc = "build"])
  <2> DEFINE r == [Opened(writer[w]) EXCEPT !.pc = "build"]
  <2>1. /\ r \in Writer /\ r.pc = "build" /\ r.call = "put"
        /\ r.have = Kinds /\ r.sid = s
        /\ r.put = writer[w].put /\ r.size = writer[w].size
    <3> DEFINE o == Opened(writer[w])
    <3>1. /\ o \in Writer /\ o.call = "put" /\ o.have = Kinds /\ o.sid = s
          /\ o.put = writer[w].put /\ o.size = writer[w].size
      BY <1>6, <1>10, OpenedWriter
    <3> HIDE DEF o
    <3>2. r = [o EXCEPT !.pc = "build"]
      BY DEF o
    <3> HIDE DEF r
    <3> QED BY <3>1, <3>2, PcWriter
  <2> HIDE DEF r
  <2>2. Becomes(w, r) /\ writer'[w] = r
    BY <1>10, CountersTyped DEF Becomes, r
  <2>3. CallOK(w)'
    BY <1>1, <1>2, <1>6, <1>10, <2>1, <2>2 DEF CallOK
  <2> QED BY <1>7, <1>10, <2>1, <2>2, <2>3
<1> QED BY <1>8, <1>9, <1>10 DEF Header

(* The end of a record is a natural number. *)
LEMMA Entry_End ==
  ASSUME IInv, NEW t \in Sids, NEW j \in Kinds, NEW e \in file[t][j].recs
  PROVE  e \in Entry /\ e.put \in Puts /\ EntryEnd(j, e) \in Nat
<1>1. e \in Entry /\ e.put \in Puts /\ e.at \in Nat /\ book[e.put].size \in Nat
  BY DEF IInv, TypeOK, File, Entry, Booked
<1> QED BY <1>1, Sizes_Nat DEF EntryEnd

(* A file that keeps its records and its synced prefix keeps every record  *)
(* that was safe.                                                          *)
LEMMA FileGrows ==
  ASSUME IInv, NEW s \in Sids, NEW k \in Kinds, NEW f \in File,
         file' = [file EXCEPT ![s][k] = f], book' = book,
         file[s][k].synced <= f.synced,
         file[s][k].recs \subseteq f.recs
  PROVE  /\ \A t \in Sids, j \in Kinds : Durable(t, j) \subseteq Durable(t, j)'
         /\ \A n \in Puts, j \in Kinds :
              book[n].sid \in Sids /\ Stored(n, j) => Stored(n, j)'
<1> USE DEF IInv
<1>1. /\ file' \in [Sids -> [Kinds -> File]]
      /\ file'[s][k] = f
      /\ \A t \in Sids, j \in Kinds : t # s \/ j # k => file'[t][j] = file[t][j]
  BY DEF TypeOK
<1>2. \A t \in Sids, j \in Kinds : file[t][j].synced \in Nat
                                  /\ file'[t][j].synced \in Nat
  BY <1>1 DEF TypeOK, File
<1>3. ASSUME NEW t \in Sids, NEW j \in Kinds, NEW e \in Durable(t, j)
      PROVE  e \in Durable(t, j)'
  <2>1. /\ e \in file[t][j].recs /\ EntryEnd(j, e) <= file[t][j].synced
        /\ EntryEnd(j, e)' = EntryEnd(j, e)
    BY DEF Durable, EntryEnd
  <2>2. e \in Entry /\ EntryEnd(j, e) \in Nat
    BY <2>1, Entry_End
  <2>3. e \in file'[t][j].recs
    BY <2>1, <1>1
  <2>4. file[t][j].synced <= file'[t][j].synced
    BY <1>1, <1>2
  <2> QED BY <2>1, <2>2, <2>3, <2>4, <1>2 DEF Durable
<1> QED BY <1>3 DEF Stored

(* FilesOK in the next state, from its two parts there. *)
LEMMA FilesOKNext ==
  ASSUME (\A t \in Sids, j \in Kinds :
            ~file[t]["data"].there => file[t][j] = NoFile)',
         (\A t \in Sids, j \in Kinds : \A e \in file[t][j].recs :
            book[e.put].sid = t /\ EntryEnd(j, e) <= file[t][j].len /\ e.put <= puts)'
  PROVE  FilesOK'
BY DEF FilesOK


(* A step of writer w on a file of the stack it has open: the file keeps   *)
(* its records and its synced prefix, and can only gain a record of the    *)
(* put that w is writing.                                                  *)
OwnChange(w, r, s, k, f) ==
  /\ Becomes(w, r) /\ s = writer[w].sid /\ writer[w].have # {}
  /\ file' = [file EXCEPT ![s][k] = f]
  /\ f.there = file[s][k].there /\ f.synced <= f.len
  /\ file[s][k].synced <= f.synced /\ file[s][k].recs \subseteq f.recs
  /\ \A e \in f.recs :
       /\ EntryEnd(k, e) <= f.len
       /\ \/ e \in file[s][k].recs
          \/ /\ writer[w].pc = "write" /\ writer[w].kind = k
             /\ e.put = writer[w].put
  /\ UNCHANGED <<book, puts, nextId, opens>>
  /\ faults' \in 0 .. MaxFaults /\ skew' \subseteq (Puts \X Kinds)
  /\ \/ acked' = acked
     \/ /\ acked' = acked \cup {writer[w].put}
        /\ writer[w].pc = "sync" /\ r.call = "none"
        /\ \A n \in Puts, j \in Kinds : n = writer[w].put => Stored(n, j)'
  /\ CallOK(w)' /\ PutOK(w)' /\ OffsetOK(w)'
  /\ r.call = "put" => writer[w].call = "put" /\ r.put = writer[w].put
  /\ r.pc \notin {"write", "sync"} /\ r.call = "put" =>
       writer[w].pc \notin {"write", "sync"}
  /\ r.pc \notin {"create", "header"}
  /\ Owns(w)' \subseteq Owns(w)

(* It keeps the invariant.                                                 *)
LEMMA OwnFileStep ==
  ASSUME IInv, NEW w \in Writers, NEW r \in Writer,
         NEW s \in Sids, NEW k \in Kinds, NEW f \in File,
         OwnChange(w, r, s, k, f)
  PROVE  IInv'
<1>own. Becomes(w, r) /\ s = writer[w].sid /\ writer[w].have # {}
  BY DEF OwnChange
<1>grow. /\ file' = [file EXCEPT ![s][k] = f]
         /\ f.there = file[s][k].there /\ f.synced <= f.len
         /\ file[s][k].synced <= f.synced /\ file[s][k].recs \subseteq f.recs
  BY DEF OwnChange
<1>recs. \A e \in f.recs :
           /\ EntryEnd(k, e) <= f.len
           /\ \/ e \in file[s][k].recs
              \/ /\ writer[w].pc = "write" /\ writer[w].kind = k
                 /\ e.put = writer[w].put
  BY DEF OwnChange
<1>same. /\ UNCHANGED <<book, puts, nextId, opens>>
         /\ faults' \in 0 .. MaxFaults /\ skew' \subseteq (Puts \X Kinds)
  BY DEF OwnChange
<1>ack. \/ acked' = acked
        \/ /\ acked' = acked \cup {writer[w].put}
           /\ writer[w].pc = "sync" /\ r.call = "none"
           /\ \A n \in Puts, j \in Kinds : n = writer[w].put => Stored(n, j)'
  BY DEF OwnChange
<1>next. CallOK(w)' /\ PutOK(w)' /\ OffsetOK(w)'
  BY DEF OwnChange
<1>call. /\ r.call = "put" => writer[w].call = "put" /\ r.put = writer[w].put
         /\ r.pc \notin {"write", "sync"} /\ r.call = "put" =>
              writer[w].pc \notin {"write", "sync"}
         /\ r.pc \notin {"create", "header"}
         /\ Owns(w)' \subseteq Owns(w)
  BY DEF OwnChange
<1>typed. TypeOK
  BY DEF IInv
<1>calls. \A v \in Writers : CallOK(v)
  BY DEF IInv
<1>numbers. NumbersOK
  BY DEF IInv
<1>files. FilesOK
  BY DEF IInv
<1>unbuilt. UnbuiltOK
  BY DEF IInv
<1>owners. OwnersOK
  BY DEF IInv
<1>places. \A v \in Writers : PutOK(v) /\ OffsetOK(v)
  BY DEF IInv
<1>safe. IndexAfterData /\ AckedDurable /\ AckedIdsUnique
  BY DEF IInv
<1>w. /\ writer'[w] = r
      /\ writer' \in [Writers -> Writer]
      /\ \A v \in Writers : v # w => writer'[v] = writer[v]
  BY <1>typed, <1>own DEF TypeOK, Becomes
<1>f. /\ file' \in [Sids -> [Kinds -> File]]
      /\ file'[s][k] = f
      /\ \A t \in Sids, j \in Kinds : t # s \/ j # k => file'[t][j] = file[t][j]
      /\ \A t \in Sids, j \in Kinds : file'[t][j].there = file[t][j].there
  BY <1>typed, <1>grow DEF TypeOK
<1>p. writer[w].pc \in {"write", "sync"} =>
        /\ writer[w].call = "put" /\ writer[w].have = Kinds
        /\ writer[w].put \in Puts /\ writer[w].put <= puts
        /\ book[writer[w].put].sid = s
  BY <1>calls, <1>places, <1>own DEF CallOK, PutOK
<1>e. \A t \in Sids, j \in Kinds : \A e \in file'[t][j].recs :
        /\ e \in Entry /\ e.put \in Puts
        /\ \/ e \in file[t][j].recs
           \/ /\ t = s /\ j = k /\ writer[w].kind = k
              /\ writer[w].pc = "write" /\ e.put = writer[w].put
  <2> SUFFICES ASSUME NEW t \in Sids, NEW j \in Kinds, NEW e \in file'[t][j].recs
               PROVE  /\ e \in Entry /\ e.put \in Puts
                      /\ \/ e \in file[t][j].recs
                         \/ /\ t = s /\ j = k /\ writer[w].kind = k
                            /\ writer[w].pc = "write" /\ e.put = writer[w].put
    OBVIOUS
  <2>1. file'[t][j] \in File
    BY <1>f
  <2>2. e \in Entry /\ e.put \in Puts
    BY <2>1 DEF File, Entry
  <2>3. CASE t = s /\ j = k
    BY <2>2, <2>3, <1>f, <1>recs
  <2>4. CASE t # s \/ j # k
    BY <2>2, <2>4, <1>f
  <2> QED BY <2>3, <2>4
<1>t. \A n \in Puts, j \in Kinds :
        book[n].sid \in Sids /\ Stored(n, j) => Stored(n, j)'
  BY FileGrows, <1>grow, <1>same
<1>o. /\ s \in Owns(w)
      /\ \A v \in Writers : v # w => s \notin Owns(v) /\ Owns(v)' = Owns(v)
  <2>1. s \in Owns(w)
    BY <1>own DEF Owns
  <2>2. \A v \in Writers : v # w => Owns(v)' = Owns(v)
    BY <1>w DEF Owns, At
  <2>3. ExclusiveStack
    BY <1>owners DEF OwnersOK
  <2>4. \A v \in Writers : v # w => s \notin Owns(v)
    BY <2>1, <2>3 DEF ExclusiveStack
  <2> QED BY <2>1, <2>2, <2>4
<1>1. TypeOK'
  <2>1. \A v \in Writers :
          writer'[v].pc \in {"build", "write", "sync"} => writer'[v].have = Kinds
    BY <1>w, <1>typed, <1>calls, <1>next DEF TypeOK, CallOK
  <2>2. \A t \in Sids, j \in Kinds : file'[t][j].synced <= file'[t][j].len
    BY <1>f, <1>typed, <1>grow DEF TypeOK
  <2>3. acked' \subseteq Puts
    BY <1>p, <1>typed, <1>ack DEF TypeOK
  <2> QED BY <1>w, <1>f, <2>1, <2>2, <2>3, <1>typed, <1>same DEF TypeOK
<1>2. \A v \in Writers : CallOK(v)'
  BY <1>w, <1>calls, <1>next, <1>same DEF CallOK
<1>3. NumbersOK'
  <2>1. \A n \in acked' : n <= puts /\ book[n].sid \in Sids
    BY <1>p, <1>numbers, <1>ack, <1>same DEF NumbersOK
  <2>2. \A v \in Writers : writer'[v].call = "put" => writer'[v].put \notin acked'
    BY <1>w, <1>p, <1>numbers, <1>ack, <1>call DEF NumbersOK
  <2>3. \A u, v \in Writers :
          u # v /\ writer'[u].call = "put" /\ writer'[v].call = "put"
          => writer'[u].put # writer'[v].put
    BY <1>w, <1>numbers, <1>call DEF NumbersOK
  <2> QED BY <2>1, <2>2, <2>3, <1>numbers, <1>same DEF NumbersOK
<1>4. FilesOK'
  <2>1. \A t \in Sids, j \in Kinds :
          ~file'[t]["data"].there => file'[t][j] = NoFile
    <3> SUFFICES ASSUME NEW t \in Sids, NEW j \in Kinds, ~file'[t]["data"].there
                 PROVE  file'[t][j] = NoFile
      OBVIOUS
    <3>1. ~file[t]["data"].there
      BY <1>f DEF Kinds
    <3>2. file[t][j] = NoFile
      BY <3>1, <1>files DEF FilesOK
    <3>3. t # s
      BY <3>1, <1>o, <1>owners DEF OwnersOK
    <3> QED BY <3>2, <3>3, <1>f
  <2>2. \A t \in Sids, j \in Kinds : \A e \in file'[t][j].recs :
          book[e.put].sid = t /\ EntryEnd(j, e) <= file'[t][j].len /\ e.put <= puts
    <3> SUFFICES ASSUME NEW t \in Sids, NEW j \in Kinds,
                        NEW e \in file'[t][j].recs
                 PROVE  /\ book[e.put].sid = t
                        /\ EntryEnd(j, e) <= file'[t][j].len /\ e.put <= puts
      OBVIOUS
    <3>1. e \in file[t][j].recs => book[e.put].sid = t /\ e.put <= puts
      BY <1>files DEF FilesOK
    <3>2. e \in file[t][j].recs => EntryEnd(j, e) <= file[t][j].len
      BY <1>files DEF FilesOK
    <3>3. writer[w].pc = "write" => writer[w].put <= puts
      BY <1>typed, <1>calls, <1>numbers, <1>places
         DEF NumbersOK, TypeOK, CallOK, PutOK, Puts
    <3>4. book[e.put].sid = t /\ e.put <= puts
      BY <3>1, <3>3, <1>e, <1>p
    <3>5. EntryEnd(j, e) <= file'[t][j].len
      <4>1. CASE t = s /\ j = k
        BY <4>1, <1>f, <1>recs
      <4>2. CASE t # s \/ j # k
        BY <4>2, <3>2, <1>f
      <4> QED BY <4>1, <4>2
    <3> QED BY <3>4, <3>5
  <2>3. \A t \in Sids, j \in Kinds : \A e \in file'[t][j].recs :
          EntryEnd(j, e)' = EntryEnd(j, e)
    BY <1>same DEF EntryEnd
  <2>4. (\A t \in Sids, j \in Kinds : ~file[t]["data"].there => file[t][j] = NoFile)'
    BY <2>1
  <2>5. (\A t \in Sids, j \in Kinds : \A e \in file[t][j].recs :
           book[e.put].sid = t /\ EntryEnd(j, e) <= file[t][j].len /\ e.put <= puts)'
    <3> SUFFICES ASSUME NEW t \in Sids, NEW j \in Kinds,
                        NEW e \in file'[t][j].recs
                 PROVE  (book[e.put].sid = t /\ EntryEnd(j, e) <= file[t][j].len
                         /\ e.put <= puts)'
      OBVIOUS
    <3>1. book'[e.put].sid = t /\ e.put <= puts'
      BY <2>2, <1>same
    <3>2. EntryEnd(j, e)' <= file'[t][j].len
      BY <2>2, <2>3, <1>same
    <3> QED BY <3>1, <3>2
  <2> QED BY <2>4, <2>5, FilesOKNext
<1>5. UnbuiltOK'
  <2> SUFFICES ASSUME NEW v \in Writers, writer'[v].call = "put",
                      writer'[v].pc \notin {"write", "sync"},
                      NEW t \in Sids, NEW j \in Kinds,
                      NEW e \in file'[t][j].recs
               PROVE  e.put # writer'[v].put
    BY <1>unbuilt DEF UnbuiltOK
  <2>1. CASE v = w
    BY <2>1, <1>w, <1>e, <1>unbuilt, <1>call DEF UnbuiltOK
  <2>2. CASE v # w
    BY <2>2, <1>w, <1>e, <1>p, <1>numbers, <1>unbuilt DEF UnbuiltOK, NumbersOK
  <2> QED BY <2>1, <2>2
<1>6. OwnersOK'
  <2>1. \A v \in Writers : Owns(v)' \subseteq Owns(v)
    BY <1>o, <1>call
  <2>2. ExclusiveStack'
    BY <2>1, <1>owners DEF OwnersOK, ExclusiveStack
  <2>3. \A v \in Writers : \A t \in Owns(v)' : file'[t]["data"].there
    <3>1. \A v \in Writers : \A t \in Owns(v)' : t \in Sids /\ file[t]["data"].there
      BY <2>1, <1>owners DEF OwnersOK, Owns
    <3> SUFFICES ASSUME NEW v \in Writers, NEW t \in Owns(v)'
                 PROVE  file'[t]["data"].there
      OBVIOUS
    <3>2. t \in Sids /\ file[t]["data"].there
      BY <3>1
    <3>3. "data" \in Kinds
      BY DEF Kinds
    <3>4. file'[t]["data"].there = file[t]["data"].there
      BY <3>2, <3>3, <1>f
    <3> QED BY <3>2, <3>4
  <2>4. \A v \in Writers : \A t \in Owns(v)' :
          writer'[v].pc \in {"create", "header"} =>
            \A j \in Kinds : file'[t][j].recs = {} /\ file'[t][j].synced = 0
    <3> SUFFICES ASSUME NEW v \in Writers, NEW t \in Owns(v)',
                        writer'[v].pc \in {"create", "header"}, NEW j \in Kinds
                 PROVE  file'[t][j].recs = {} /\ file'[t][j].synced = 0
      OBVIOUS
    <3>1. v # w /\ t # s /\ t \in Owns(v) /\ t \in Sids
      BY <1>w, <1>o, <1>call DEF Owns
    <3> QED BY <3>1, <1>w, <1>f, <1>owners DEF OwnersOK
  <2> QED BY <2>2, <2>3, <2>4, <1>owners DEF OwnersOK
<1>7. \A v \in Writers : PutOK(v)'
  <2> SUFFICES ASSUME NEW v \in Writers, v # w, writer[v].pc \in {"write", "sync"}
               PROVE  PutOK(v)'
    BY <1>w, <1>places, <1>next, <1>same DEF PutOK
  <2>1. PutOK(v) /\ writer'[v] = writer[v]
    BY <1>w, <1>places
  <2>2. /\ writer[v].sid \in Sids /\ writer[v].kind \in Kinds
        /\ writer[v].put \in Puts
    BY <1>typed, <1>calls DEF CallOK, Kinds, TypeOK, Writer
  <2>3. \A j \in Kinds : file[writer[v].sid][j].recs \subseteq file'[writer[v].sid][j].recs
    BY <2>2, <1>f, <1>grow
  <2> QED BY <2>1, <2>2, <2>3, <1>t, <1>places, <1>same DEF PutOK, Kinds
<1>8. \A v \in Writers : OffsetOK(v)'
  <2> SUFFICES ASSUME NEW v \in Writers, v # w, writer[v].have = Kinds
               PROVE  OffsetOK(v)'
    BY <1>w, <1>places, <1>next, <1>same DEF OffsetOK
  <2>1. OffsetOK(v) /\ writer'[v] = writer[v] /\ writer[v].sid \in Owns(v)
    BY <1>w, <1>calls, <1>places DEF Owns, CallOK, Kinds
  <2>2. \A n \in acked' : book[n].sid = writer[v].sid => n \in acked
    BY <2>1, <1>o, <1>p, <1>ack, <1>own
  <2> QED BY <2>1, <2>2, <1>places, <1>same DEF OffsetOK
<1>9. IndexAfterData'
  <2> SUFFICES ASSUME NEW t \in Sids, NEW e \in file'[t]["idx"].recs
               PROVE  /\ book[e.put].sid = t
                      /\ Stored(e.put, "data")' /\ Stored(e.put, "meta")'
    BY <1>safe, <1>same DEF IndexAfterData
  <2>1. e.put \in Puts
    BY <1>e DEF Kinds
  <2>2. book[e.put].sid = t /\ Stored(e.put, "data") /\ Stored(e.put, "meta")
    <3>1. CASE e \in file[t]["idx"].recs
      BY <3>1, <1>safe DEF IndexAfterData
    <3>2. CASE e \notin file[t]["idx"].recs
      <4>1. t = s /\ writer[w].kind = "idx" /\ writer[w].pc = "write" /\ e.put = writer[w].put
        BY <3>2, <1>e DEF Kinds
      <4> QED BY <4>1, <1>p, <1>places DEF PutOK
    <3> QED BY <3>1, <3>2
  <2> QED BY <2>1, <2>2, <1>t DEF Kinds
<1>10. AckedDurable'
  <2>1. \A n \in acked : \A j \in Kinds : Stored(n, j)'
    BY <1>t, <1>typed, <1>numbers, <1>safe DEF AckedDurable, NumbersOK, TypeOK
  <2>2. CASE acked' = acked
    BY <2>1, <2>2, <1>safe DEF AckedDurable
  <2>3. CASE acked' # acked
    <3>1. /\ acked' = acked \cup {writer[w].put}
          /\ \A n \in Puts, j \in Kinds : n = writer[w].put => Stored(n, j)'
          /\ writer[w].put \in Puts
      BY <2>3, <1>p, <1>ack
    <3>2. ASSUME NEW n \in acked', NEW j \in Kinds PROVE Stored(n, j)'
      <4>1. CASE n \in acked
        BY <2>1, <4>1
      <4>2. CASE n = writer[w].put
        BY <3>1, <4>2
      <4> QED BY <3>1, <4>1, <4>2
    <3> QED BY <3>2, <1>safe DEF AckedDurable
  <2> QED BY <2>2, <2>3
<1>11. AckedIdsUnique'
  <2>1. CASE acked' = acked
    BY <1>same, <2>1, <1>safe DEF AckedIdsUnique
  <2>2. CASE acked' # acked
    <3>1. writer[w].pc = "sync" /\ acked' = acked \cup {writer[w].put}
      BY <1>ack, <2>2
    <3>2. writer[w].have = Kinds /\ book[writer[w].put].sid = writer[w].sid
      BY <1>own, <3>1, <1>p
    <3>3. \A n \in acked : book[n].sid = writer[w].sid =>
            /\ book[n].off < book[writer[w].put].off
            /\ book[n].off \in Nat /\ book[writer[w].put].off \in Nat
      BY <3>1, <3>2, <1>p, <1>typed, <1>places DEF OffsetOK, TypeOK, Booked
    <3> QED BY <1>same, <3>1, <3>2, <3>3, <1>safe DEF AckedIdsUnique
  <2> QED BY <2>1, <2>2
<1> QED BY <1>1, <1>2, <1>3, <1>4, <1>5, <1>6, <1>7, <1>8, <1>9, <1>10, <1>11 DEF IInv

(* A file after a whole or partial append is typed and has grown. *)
LEMMA AppendedFile ==
  ASSUME NEW g \in File, NEW n \in Puts, NEW m \in Nat
  PROVE  LET f == Appended(g, n, m)
         IN  /\ f \in File
             /\ f.there = g.there /\ f.synced = g.synced /\ f.len = g.len + m
             /\ f.recs = g.recs \cup {[at |-> g.len, put |-> n]}
<1> DEFINE recs == g.recs \cup {[at |-> g.len, put |-> n]}
<1>1. recs \in SUBSET Entry /\ g.len + m \in Nat
  BY DEF File, Entry
<1> HIDE DEF recs
<1>2. Appended(g, n, m) = [g EXCEPT !.len = g.len + m, !.recs = recs]
  BY DEF Appended, recs
<1>3. /\ Appended(g, n, m) \in File
      /\ Appended(g, n, m).there = g.there /\ Appended(g, n, m).synced = g.synced
      /\ Appended(g, n, m).len = g.len + m
      /\ Appended(g, n, m).recs = recs
  BY <1>1, <1>2 DEF File
<1> QED BY <1>3 DEF recs

(* A synced file is typed and has kept its records. *)
LEMMA SyncedFile ==
  ASSUME NEW g \in File
  PROVE  LET f == Synced(g)
         IN  /\ f \in File
             /\ f.there = g.there /\ f.synced = g.len /\ f.len = g.len
             /\ f.recs = g.recs
BY DEF Synced, File

(* What is known of a put that is writing its records. *)
LEMMA WritingPut ==
  ASSUME IInv, NEW w \in Writers, writer[w].pc \in {"write", "sync"}
  PROVE  LET r == writer[w]
         IN  /\ r \in Writer /\ r.call = "put" /\ r.have = Kinds
             /\ r.sid \in Sids /\ r.kind \in Kinds
             /\ r.put \in Puts /\ r.put <= puts /\ r.size \in Nat
             /\ EntrySize(r.kind, r.size) \in Nat
             /\ book[r.put].sid = r.sid /\ book[r.put].size = r.size
             /\ file[r.sid][r.kind] \in File
             /\ file[r.sid][r.kind].synced <= file[r.sid][r.kind].len
             /\ \A e \in file[r.sid][r.kind].recs :
                  /\ EntryEnd(r.kind, e) \in Nat
                  /\ EntryEnd(r.kind, e) <= file[r.sid][r.kind].len
<1> USE DEF IInv
<1>1. LET r == writer[w]
      IN  /\ r \in Writer /\ r.call = "put" /\ r.have = Kinds
          /\ r.sid \in Sids /\ r.kind \in Kinds
          /\ r.put \in Puts /\ r.put <= puts /\ r.size \in Nat
          /\ book[r.put].sid = r.sid /\ book[r.put].size = r.size
  BY DEF TypeOK, CallOK, PutOK, Writer, Kinds
<1>2. EntrySize(writer[w].kind, writer[w].size) \in Nat
  BY <1>1, Sizes_Nat
<1>3. /\ file[writer[w].sid][writer[w].kind] \in File
      /\ file[writer[w].sid][writer[w].kind].synced
           <= file[writer[w].sid][writer[w].kind].len
  BY <1>1 DEF TypeOK
<1>4. \A e \in file[writer[w].sid][writer[w].kind].recs :
        /\ EntryEnd(writer[w].kind, e) \in Nat
        /\ EntryEnd(writer[w].kind, e) <= file[writer[w].sid][writer[w].kind].len
  BY <1>1, Entry_End DEF FilesOK
<1> QED BY <1>1, <1>2, <1>3, <1>4

(* The file after a write, whole or cut short, of the put's record. *)
LEMMA WrittenFile ==
  ASSUME IInv, NEW w \in Writers, writer[w].pc = "write",
         NEW part \in 0 .. EntrySize(writer[w].kind, writer[w].size)
  PROVE  LET g == file[writer[w].sid][writer[w].kind]
             f == PartlyAppended(g, writer[w].put,
                                 EntrySize(writer[w].kind, writer[w].size), part)
         IN  /\ f \in File /\ f.there = g.there /\ f.synced = g.synced
             /\ f.synced <= f.len
             /\ g.recs \subseteq f.recs
             /\ \A e \in f.recs :
                  /\ EntryEnd(writer[w].kind, e) <= f.len
                  /\ e \in g.recs \/ e.put = writer[w].put
<1> DEFINE k == writer[w].kind
           n == writer[w].put
           size == EntrySize(k, writer[w].size)
           g == file[writer[w].sid][k]
           f == PartlyAppended(g, n, size, part)
<1>1. /\ k \in Kinds /\ n \in Puts /\ size \in Nat /\ g \in File
      /\ g.synced <= g.len
      /\ book[n].size = writer[w].size
      /\ \A e \in g.recs : EntryEnd(k, e) \in Nat /\ EntryEnd(k, e) <= g.len
  BY WritingPut
<1>2. CASE part = size
  <2>1. f = Appended(g, n, size)
    BY <1>2 DEF PartlyAppended
  <2>2. /\ f \in File
        /\ f.there = g.there /\ f.synced = g.synced /\ f.len = g.len + size
        /\ f.recs = g.recs \cup {[at |-> g.len, put |-> n]}
    <3> HIDE DEF f, g, size, n
    <3> QED BY <1>1, <2>1, AppendedFile
  <2>3. EntryEnd(k, [at |-> g.len, put |-> n]) = g.len + size
    BY <1>1 DEF EntryEnd
  <2>4. g.len \in Nat /\ g.synced \in Nat
    BY <1>1 DEF File
  <2>5. /\ f.synced <= f.len
        /\ g.recs \subseteq f.recs
        /\ \A e \in f.recs : EntryEnd(k, e) <= f.len /\ (e \in g.recs \/ e.put = n)
    <3> HIDE DEF f, g, size, n, k
    <3> QED BY <1>1, <2>2, <2>3, <2>4
  <2> QED BY <2>2, <2>5
<1>3. CASE part # size
  <2>1. f = [g EXCEPT !.len = g.len + part]
    BY <1>3 DEF PartlyAppended
  <2>2. part \in Nat
    BY <1>1
  <2>3. /\ f \in File
        /\ f.there = g.there /\ f.synced = g.synced /\ f.len = g.len + part
        /\ f.recs = g.recs
    <3> HIDE DEF f, g
    <3> QED BY <1>1, <2>1, <2>2 DEF File
  <2>4. g.len \in Nat /\ g.synced \in Nat
    BY <1>1 DEF File
  <2>5. /\ f.synced <= f.len
        /\ g.recs \subseteq f.recs
        /\ \A e \in f.recs : EntryEnd(k, e) <= f.len /\ (e \in g.recs \/ e.put = n)
    <3> HIDE DEF f, g, size, n, k
    <3> QED BY <1>1, <2>2, <2>2, <2>3, <2>4
  <2> QED BY <2>3, <2>5
<1> QED BY <1>2, <1>3

(* A record is appended to its own stack (writer.rs:283-300). *)
LEMMA WriteStep ==
  ASSUME IInv, NEW w \in Writers, Write(w)
  PROVE  IInv'
<1> DEFINE s == writer[w].sid
           k == writer[w].kind
           n == writer[w].put
           size == EntrySize(k, writer[w].size)
           g == file[s][k]
           f == Appended(g, n, size)
           r == [writer[w] EXCEPT !.pc = "sync"]
<1>1. /\ writer[w].pc = "write"
      /\ file' = [file EXCEPT ![s][k] = f]
      /\ Becomes(w, r)
      /\ UNCHANGED <<book, puts, acked, skew, nextId, opens, faults>>
  BY DEF Write, At
<1>2. /\ writer[w] \in Writer /\ writer[w].call = "put" /\ writer[w].have = Kinds
      /\ s \in Sids /\ k \in Kinds /\ n \in Puts /\ size \in Nat /\ g \in File
      /\ n <= puts /\ book[n].sid = s /\ book[n].size = writer[w].size
  BY <1>1, WritingPut
<1>3. /\ f \in File /\ f.there = g.there /\ f.synced = g.synced
      /\ f.synced <= f.len
      /\ g.recs \subseteq f.recs
      /\ \A e \in f.recs : EntryEnd(k, e) <= f.len /\ (e \in g.recs \/ e.put = n)
  <2>1. size \in 0 .. size /\ f = PartlyAppended(g, n, size, size)
    BY <1>2 DEF PartlyAppended
  <2> QED BY <1>1, <2>1, WrittenFile
<1>4. \E e \in f.recs : e.put = n
  <2>1. f.recs = g.recs \cup {[at |-> g.len, put |-> n]}
    <3> HIDE DEF g, n, size, f
    <3> QED BY <1>2, AppendedFile DEF f
  <2> QED BY <2>1
<1>5. g.synced \in Nat /\ g.synced <= f.synced
  <2> HIDE DEF f, g
  <2> QED BY <1>2, <1>3 DEF File
<1>6. /\ r \in Writer /\ r.pc = "sync" /\ r.call = "put" /\ r.kind = k
      /\ r.have = Kinds /\ r.sid = s /\ r.off = writer[w].off
      /\ r.put = n /\ r.size = writer[w].size
  BY <1>2, PcWriter
<1> HIDE DEF f
<1>7. \A m \in Puts, j \in Kinds :
        book[m].sid \in Sids /\ Stored(m, j) => Stored(m, j)'
  BY <1>1, <1>2, <1>3, <1>5, FileGrows
<1>8. CallOK(w) /\ PutOK(w) /\ OffsetOK(w)
  BY DEF IInv
<1> HIDE DEF r
<1>9. writer'[w] = r
  BY <1>1, CountersTyped DEF Becomes
<1>10. CallOK(w)'
  BY <1>1, <1>2, <1>6, <1>8, <1>9 DEF CallOK
<1>11. PutOK(w)'
  <2>1. file'[s][k] = f
    BY <1>1, <1>2 DEF IInv, TypeOK
  <2>2. k # "data" => Stored(n, "data") /\ \A m \in Puts : m = n => Stored(m, "data")'
    BY <1>1, <1>2, <1>7, <1>8 DEF PutOK, Kinds
  <2>3. k = "idx" => Stored(n, "meta") /\ \A m \in Puts : m = n => Stored(m, "meta")'
    BY <1>1, <1>2, <1>7, <1>8 DEF PutOK, Kinds
  <2>4. n = writer'[w].put /\ k = writer'[w].kind /\ s = writer'[w].sid
        /\ book' = book /\ writer[w].size = writer'[w].size
    BY <1>1, <1>6, <1>9
  <2> HIDE DEF n, k, s
  <2> QED BY <1>2, <1>4, <2>1, <2>2, <2>3, <2>4 DEF PutOK
<1>12. OffsetOK(w)'
  BY <1>1, <1>2, <1>6, <1>8, <1>9 DEF OffsetOK
<1>13. Owns(w)' \subseteq Owns(w)
  BY <1>2, <1>6, <1>9 DEF Owns, At, Kinds
<1>14. /\ faults' \in 0 .. MaxFaults /\ skew' \subseteq (Puts \X Kinds)
       /\ UNCHANGED <<book, puts, nextId, opens>>
       /\ acked' = acked
  BY <1>1, CountersTyped
<1>15. /\ writer[w].have # {}
       /\ \A e \in f.recs :
            /\ EntryEnd(k, e) <= f.len
            /\ \/ e \in file[s][k].recs
               \/ /\ writer[w].pc = "write" /\ writer[w].kind = k
                  /\ e.put = writer[w].put
  BY <1>1, <1>2, <1>3 DEF Kinds
<1>16. /\ r.call = "put" => writer[w].call = "put" /\ r.put = writer[w].put
       /\ r.pc \notin {"write", "sync"} /\ r.call = "put" =>
            writer[w].pc \notin {"write", "sync"}
       /\ r.pc \notin {"create", "header"}
       /\ s = writer[w].sid
       /\ Becomes(w, r)
       /\ file[s][k].recs \subseteq f.recs
       /\ file[s][k].synced <= f.synced
       /\ f.there = file[s][k].there
  BY <1>1, <1>2, <1>3, <1>5, <1>6
<1>17. /\ s \in Sids /\ k \in Kinds /\ f \in File /\ r \in Writer
       /\ file' = [file EXCEPT ![s][k] = f]
       /\ f.synced <= f.len
  BY <1>1, <1>2, <1>3, <1>6
<1> HIDE DEF s, k, n, size, g
<1> QED
  BY <1>10, <1>11, <1>12, <1>13, <1>14, <1>15, <1>16, <1>17, OwnFileStep DEF OwnChange

(* A write cut off disturbs no whole record (writer.rs:285-300). *)
LEMMA WriteFailsStep ==
  ASSUME IInv, NEW w \in Writers, WriteFails(w)
  PROVE  IInv'
<1> DEFINE s == writer[w].sid
           k == writer[w].kind
           n == writer[w].put
           size == EntrySize(k, writer[w].size)
           g == file[s][k]
           r == Failed(w)
<1>1. PICK part \in 0 .. size :
        /\ file' = [file EXCEPT ![s][k] = PartlyAppended(g, n, size, part)]
        /\ skew' = IF Skews(k, part, size) THEN skew \cup {<<n, k>>} ELSE skew
  BY DEF WriteFails
<1> DEFINE f == PartlyAppended(g, n, size, part)
<1>2. /\ writer[w].pc = "write" /\ Becomes(w, r)
      /\ UNCHANGED <<book, puts, acked, nextId, opens>>
      /\ faults' \in 0 .. MaxFaults
  BY CountersTyped, BoundsAssumption DEF WriteFails, At, Fault
<1>3. /\ writer[w] \in Writer /\ writer[w].call = "put" /\ writer[w].have = Kinds
      /\ s \in Sids /\ k \in Kinds /\ n \in Puts /\ size \in Nat /\ g \in File
  BY <1>2, WritingPut
<1>4. /\ f \in File /\ f.there = g.there /\ f.synced = g.synced
      /\ f.synced <= f.len
      /\ g.recs \subseteq f.recs
      /\ \A e \in f.recs : EntryEnd(k, e) <= f.len /\ (e \in g.recs \/ e.put = n)
  BY <1>2, WrittenFile
<1>5. g.synced \in Nat /\ g.synced <= f.synced
  <2> HIDE DEF f, g
  <2> QED BY <1>3, <1>4 DEF File
<1>6. r = Returned(writer[w])
  BY <1>3 DEF Failed
<1>7. /\ r \in Writer /\ r.pc = "idle" /\ r.call = "none"
      /\ r.have = Kinds /\ r.sid = s /\ r.off = writer[w].off
  BY <1>3, <1>6, ReturnedWriter
<1>8. CallOK(w)' /\ Owns(w)' \subseteq Owns(w)
  BY <1>2, FailedWriter
<1> HIDE DEF r, f
<1>9. writer'[w] = r
  BY <1>2, CountersTyped DEF Becomes
<1>10. PutOK(w)'
  BY <1>7, <1>9 DEF PutOK
<1>11. OffsetOK(w)'
  BY <1>2, <1>3, <1>7, <1>9 DEF OffsetOK, IInv
<1>12. skew' \subseteq (Puts \X Kinds)
  BY <1>1, <1>3, CountersTyped
<1>13. file' = [file EXCEPT ![s][k] = f]
  BY <1>1 DEF f
<1>14. /\ writer[w].have # {}
       /\ \A e \in f.recs :
            /\ EntryEnd(k, e) <= f.len
            /\ \/ e \in file[s][k].recs
               \/ /\ writer[w].pc = "write" /\ writer[w].kind = k
                  /\ e.put = writer[w].put
  BY <1>2, <1>3, <1>4 DEF Kinds
<1>15. /\ r.call # "put"
       /\ r.pc \notin {"create", "header"}
       /\ s = writer[w].sid
       /\ acked' = acked
       /\ file[s][k].recs \subseteq f.recs
       /\ file[s][k].synced <= f.synced
       /\ f.there = file[s][k].there
       /\ UNCHANGED <<book, puts, nextId, opens>>
  BY <1>2, <1>3, <1>4, <1>5, <1>7
<1> HIDE DEF s, k
<1> QED
  BY <1>2, <1>3, <1>4, <1>7, <1>8, <1>10, <1>11, <1>12, <1>13, <1>14, <1>15, OwnFileStep DEF OwnChange

(* Once its file is synced, the record of the put in progress is safe. *)
LEMMA SyncStores ==
  ASSUME IInv, NEW w \in Writers, writer[w].pc = "sync",
         NEW n \in Puts, n = writer[w].put,
         NEW s \in Sids, s = writer[w].sid, NEW k \in Kinds, k = writer[w].kind,
         file' = [file EXCEPT ![s][k] = Synced(file[s][k])],
         book' = book
  PROVE  /\ Stored(n, k)'
         /\ \A m \in Puts, j \in Kinds :
              book[m].sid \in Sids /\ Stored(m, j) => Stored(m, j)'
<1> DEFINE g == file[s][k]
           f == Synced(g)
<1>1. /\ g \in File /\ g.synced <= g.len
      /\ book[n].sid = s
      /\ \A e \in g.recs : EntryEnd(k, e) \in Nat /\ EntryEnd(k, e) <= g.len
  BY WritingPut
<1>2. f \in File /\ f.synced = g.len /\ f.len = g.len /\ f.recs = g.recs
  <2> HIDE DEF g
  <2> QED BY <1>1, SyncedFile
<1>3. file'[s][k] = f
  BY DEF IInv, TypeOK
<1>4. PICK e \in g.recs : e.put = n
  BY DEF IInv, PutOK
<1> HIDE DEF g, f
<1>5. e \in file'[s][k].recs /\ (EntryEnd(k, e) <= file[s][k].synced)'
  BY <1>1, <1>2, <1>3, <1>4 DEF EntryEnd
<1>6. Stored(n, k)'
  BY <1>1, <1>4, <1>5 DEF Stored, Durable
<1>7. file[s][k].synced <= f.synced /\ file[s][k].recs \subseteq f.recs
  BY <1>1, <1>2 DEF g
<1>8. file' = [file EXCEPT ![s][k] = f]
  BY DEF f, g
<1> QED BY <1>2, <1>6, <1>7, <1>8, FileGrows

(* The effect of sync_all on the file of the put in progress. *)
LEMMA SyncFileStep ==
  ASSUME IInv, NEW w \in Writers, writer[w].pc = "sync",
         NEW r \in Writer, Becomes(w, r),
         NEW n \in Puts, n = writer[w].put,
         NEW s \in Sids, s = writer[w].sid, NEW k \in Kinds, k = writer[w].kind,
         file' = [file EXCEPT ![s][k] = Synced(file[s][k])],
         UNCHANGED <<book, puts, skew, nextId, opens, faults>>,
         \/ acked' = acked
         \/ acked' = acked \cup {n} /\ k = "idx" /\ r.call = "none",
         CallOK(w)', PutOK(w)', OffsetOK(w)',
         r.pc \in {"write", "idle"}, r.pc = "idle" => r.call = "none",
         r.call = "put" => r.put = n,
         r.have = Kinds, r.sid = s
  PROVE  IInv'
<1> DEFINE g == file[s][k]
           f == Synced(g)
<1>1. /\ writer[w].call = "put" /\ writer[w].have = Kinds
      /\ g \in File /\ g.synced <= g.len
      /\ \A e \in g.recs : EntryEnd(k, e) <= g.len
      /\ PutOK(w) /\ book[n].sid = s
  BY WritingPut DEF IInv
<1>2. f \in File /\ f.there = g.there /\ f.synced = g.len /\ f.len = g.len
      /\ f.recs = g.recs /\ f.len <= f.len
  <2>1. f \in File /\ f.there = g.there /\ f.synced = g.len /\ f.len = g.len
        /\ f.recs = g.recs
    <3> HIDE DEF g
    <3> QED BY <1>1, SyncedFile
  <2> HIDE DEF f
  <2>2. f.len <= f.len
    BY <2>1 DEF File
  <2> QED BY <2>1, <2>2
<1>3. /\ f.synced <= f.len
      /\ file[s][k].synced <= f.synced
      /\ file[s][k].recs \subseteq f.recs
      /\ f.there = file[s][k].there
      /\ \A e \in f.recs :
           /\ EntryEnd(k, e) <= f.len
           /\ \/ e \in file[s][k].recs
              \/ /\ writer[w].pc = "write" /\ writer[w].kind = k
                 /\ e.put = writer[w].put
  <2> HIDE DEF f
  <2> QED BY <1>1, <1>2
<1>4. acked' = acked \/
        /\ acked' = acked \cup {writer[w].put}
        /\ writer[w].pc = "sync" /\ r.call = "none"
        /\ \A m \in Puts, j \in Kinds : m = writer[w].put => Stored(m, j)'
  <2>1. CASE acked' = acked
    BY <2>1
  <2>2. CASE acked' # acked
    <3>1. acked' = acked \cup {n} /\ k = "idx" /\ r.call = "none"
      BY <2>2
    <3>2. Stored(n, k)' /\ \A m \in Puts, j \in Kinds :
            book[m].sid \in Sids /\ Stored(m, j) => Stored(m, j)'
      BY SyncStores
    <3>3. Stored(n, "data") /\ Stored(n, "meta")
      BY <1>1, <3>1 DEF PutOK
    <3>4. \A j \in Kinds : Stored(n, j)'
      BY <1>1, <3>1, <3>2, <3>3 DEF Kinds
    <3> QED BY <3>1, <3>4
  <2> QED BY <2>1, <2>2
<1>5. Owns(w)' \subseteq Owns(w)
  <2>1. writer'[w] = r
    BY CountersTyped DEF Becomes
  <2> QED BY <1>1, <2>1 DEF Owns, At, Kinds
<1>6. /\ UNCHANGED <<book, puts, nextId, opens>>
      /\ faults' \in 0 .. MaxFaults /\ skew' \subseteq (Puts \X Kinds)
      /\ r.call = "put" => writer[w].call = "put" /\ r.put = writer[w].put
      /\ r.pc \notin {"write", "sync"} /\ r.call = "put" =>
           writer[w].pc \notin {"write", "sync"}
      /\ r.pc \notin {"create", "header"}
      /\ writer[w].have # {}
  BY <1>1, CountersTyped DEF Kinds
<1>7. file' = [file EXCEPT ![s][k] = f]
  OBVIOUS
<1> HIDE DEF f
<1> QED BY <1>2, <1>3, <1>4, <1>5, <1>6, <1>7, OwnFileStep DEF OwnChange

(* sync_all, the offset and, at the end, the index_id (writer.rs:288-306). *)
LEMMA SyncStep ==
  ASSUME IInv, NEW w \in Writers, Sync(w)
  PROVE  IInv'
<1> DEFINE x == writer[w]
<1>1. /\ x.pc = "sync"
      /\ file' = [file EXCEPT ![x.sid][x.kind] = Synced(file[x.sid][x.kind])]
      /\ UNCHANGED <<book, puts, skew, nextId, opens, faults>>
  BY DEF Sync, At
<1>2. /\ x \in Writer /\ x.call = "put" /\ x.have = Kinds
      /\ x.sid \in Sids /\ x.kind \in Kinds /\ x.put \in Puts
      /\ x.size \in Nat /\ x.put <= puts
      /\ book[x.put].sid = x.sid /\ book[x.put].size = x.size
      /\ x.off \in Nat /\ x.moff \in Nat /\ x.raw \in Nat
      /\ CallOK(w) /\ PutOK(w) /\ OffsetOK(w)
  BY <1>1, WritingPut DEF IInv, Writer
<1> HIDE DEF x
<1>3. PICK n \in Puts, s \in Sids, k \in Kinds : n = x.put /\ s = x.sid /\ k = x.kind
  BY <1>2
<1>4. /\ Stored(n, k)'
      /\ \A j \in Kinds : Stored(n, j) => Stored(n, j)'
  BY <1>1, <1>2, <1>3, SyncStores DEF x
<1>5. ASSUME NEW r \in Writer, Becomes(w, r), r.pc = "write", r.call = "put",
             r.kind = NextKind(k), k # "idx", r.have = Kinds, r.sid = s,
             r.put = n, r.size = x.size, acked' = acked,
             r.off = IF k = "data" THEN x.off + DataAdvance(x.size) ELSE x.off
      PROVE  IInv'
  <2>1. writer'[w] = r
    BY <1>5, CountersTyped DEF Becomes
  <2>2. CallOK(w)'
    BY <1>1, <1>2, <1>3, <1>5, <2>1 DEF CallOK, x
  <2>3. PutOK(w)'
    <3>1. book'[r.put].sid = r.sid /\ book'[r.put].size = r.size
      BY <1>1, <1>2, <1>3, <1>5
    <3>2. Stored(n, "data")' /\ (r.kind = "idx" => Stored(n, "meta")')
      BY <1>1, <1>2, <1>3, <1>4, <1>5 DEF PutOK, NextKind, Kinds, x
    <3>3. r.put = n /\ r.pc # "sync"
      BY <1>5
    <3> QED BY <2>1, <3>1, <3>2, <3>3 DEF PutOK
  <2>4. OffsetOK(w)'
    <3>1. /\ \A m \in acked : book[m].sid = s =>
               /\ book[m].off < x.off /\ book[m].off < book[n].off
               /\ book[m].off \in Nat
          /\ book[n].off \in Nat
          /\ k = "data" => book[n].off = x.off
          /\ k # "data" => book[n].off < x.off
      BY <1>1, <1>2, <1>3 DEF OffsetOK, x, IInv, TypeOK, Booked
    <3>2. r.off \in Nat /\ x.off <= r.off /\ (k = "data" => x.off < r.off)
      BY <1>2, <1>5, Advance_Positive
    <3>3. book[n].off < r.off /\ \A m \in acked : book[m].sid = s => book[m].off < r.off
      BY <1>2, <3>1, <3>2
    <3>4. r.kind # "data"
      BY <1>5 DEF NextKind
    <3> QED BY <1>1, <1>5, <2>1, <3>1, <3>3, <3>4 DEF OffsetOK
  <2> QED BY <1>1, <1>3, <1>5, <2>2, <2>3, <2>4, SyncFileStep DEF x
<1>6. CASE /\ k = "data"
           /\ Becomes(w, [x EXCEPT !.pc = "write", !.kind = NextKind(k),
                                   !.off = x.off + DataAdvance(x.size)])
           /\ UNCHANGED acked
  <2> DEFINE r == [x EXCEPT !.pc = "write", !.kind = NextKind(k),
                            !.off = x.off + DataAdvance(x.size)]
  <2>1. NextKind(k) \in Kinds /\ x.off + DataAdvance(x.size) \in Nat
    BY <1>2, Advance_Positive DEF NextKind, Kinds
  <2>2. /\ r \in Writer /\ r.pc = "write" /\ r.call = "put" /\ r.kind = NextKind(k)
        /\ r.have = Kinds /\ r.sid = s /\ r.put = n /\ r.size = x.size
        /\ r.off = x.off + DataAdvance(x.size)
    BY <1>2, <1>3, <2>1 DEF Writer
  <2>3. Becomes(w, r) /\ k # "idx" /\ acked' = acked
    BY <1>6
  <2> HIDE DEF r
  <2> QED BY <1>5, <1>6, <2>2, <2>3
<1>7. CASE /\ k = "meta"
           /\ Becomes(w, [x EXCEPT !.pc = "write", !.kind = NextKind(k),
                                   !.moff = x.moff + MetaLine])
           /\ UNCHANGED acked
  <2> DEFINE r == [x EXCEPT !.pc = "write", !.kind = NextKind(k),
                            !.moff = x.moff + MetaLine]
  <2>1. NextKind(k) \in Kinds /\ x.moff + MetaLine \in Nat
    BY <1>2, LineAssumption DEF NextKind, Kinds
  <2>2. /\ r \in Writer /\ r.pc = "write" /\ r.call = "put" /\ r.kind = NextKind(k)
        /\ r.have = Kinds /\ r.sid = s /\ r.put = n /\ r.size = x.size
        /\ r.off = x.off
    BY <1>2, <1>3, <2>1 DEF Writer
  <2>3. Becomes(w, r) /\ k # "idx" /\ k # "data" /\ acked' = acked
    BY <1>7
  <2> HIDE DEF r
  <2> QED BY <1>5, <2>2, <2>3
<1>8. CASE /\ k = "idx"
           /\ Becomes(w, Returned([x EXCEPT !.raw = @ + x.size]))
           /\ acked' = acked \cup {n}
  <2> DEFINE y == [x EXCEPT !.raw = @ + x.size]
             r == Returned(y)
  <2>1. /\ y \in Writer /\ y.have = Kinds /\ y.sid = s /\ y.off = x.off
    BY <1>2, <1>3 DEF Writer
  <2>2. /\ r \in Writer /\ r.pc = "idle" /\ r.call = "none"
        /\ r.have = Kinds /\ r.sid = s /\ r.off = x.off
    <3> HIDE DEF y
    <3> QED BY <2>1, ReturnedWriter
  <2>3. Becomes(w, r)
    BY <1>8
  <2> HIDE DEF y, r
  <2>4. writer'[w] = r
    BY <2>3, CountersTyped DEF Becomes
  <2>5. CallOK(w)' /\ PutOK(w)'
    BY <2>2, <2>4 DEF CallOK, PutOK
  <2>6. OffsetOK(w)'
    <3>1. /\ \A m \in acked : book[m].sid = s => book[m].off < x.off
          /\ book[n].off < x.off
      BY <1>1, <1>2, <1>3, <1>8 DEF OffsetOK, x
    <3> QED BY <1>1, <1>8, <2>2, <2>4, <3>1 DEF OffsetOK
  <2> QED BY <1>1, <1>3, <1>8, <2>2, <2>3, <2>5, <2>6, SyncFileStep DEF x
<1> QED
  BY <1>3, <1>6, <1>7, <1>8 DEF Sync, x

(* flush_and_close syncs and drops one file (writer.rs:170-184). *)
LEMMA FlushStep ==
  ASSUME IInv, NEW w \in Writers, Flush(w)
  PROVE  IInv'
<1> DEFINE x == writer[w]
           y == [x EXCEPT !.have = @ \ {x.kind}]
<1>1. /\ x.pc = "flush"
      /\ file' = IF x.kind \in x.have
                   THEN [file EXCEPT ![x.sid][x.kind] = Synced(file[x.sid][x.kind])]
                   ELSE file
      /\ UNCHANGED <<book, puts, acked, skew, nextId, opens, faults>>
  BY DEF Flush, At
<1>2. /\ x \in Writer /\ x.kind \in Kinds /\ CallOK(w)
      /\ x.have \subseteq Kinds
      /\ x.call \in {"put", "close"}
      /\ x.have # {} => x.sid \in Sids
      /\ x.call = "put" => x.put \in Puts /\ x.put <= puts /\ x.size \in Nat
      /\ x.kind # "data" => "data" \notin x.have
      /\ x.kind = "idx" => x.have \subseteq {"idx"}
  BY <1>1, CountersTyped DEF IInv, CallOK, Writer
<1> HIDE DEF x
<1>3. /\ y \in Writer /\ y.pc = "flush" /\ y.call = x.call /\ y.kind = x.kind
      /\ y.have = x.have \ {x.kind}
      /\ y.sid = x.sid /\ y.off = x.off /\ y.put = x.put /\ y.size = x.size
  BY <1>1, <1>2 DEF Writer
<1> HIDE DEF y
<1>4. ASSUME NEW r \in Writer, Becomes(w, r), CallOK(w)',
             r.have = x.have \ {x.kind}, r.sid = x.sid,
             r.pc \in {"flush", "resolve", "idle"},
             r.call \in {x.call, "none"}, r.call = "put" => r.put = x.put
      PROVE  IInv'
  <2>1. writer'[w] = r
    BY <1>4, CountersTyped DEF Becomes
  <2>2. Owns(w)' \subseteq Owns(w)
    BY <1>4, <2>1 DEF Owns, At, x
  <2>3. /\ r.pc \notin {"write", "sync", "create", "header"}
        /\ r.call = "put" => writer[w].call = "put" /\ r.put = writer[w].put
                             /\ writer[w].pc \notin {"write", "sync"}
        /\ r.have # Kinds
    BY <1>1, <1>2, <1>4 DEF x
  <2>4. PutOK(w)' /\ OffsetOK(w)'
    BY <2>1, <2>3 DEF PutOK, OffsetOK
  <2>5. CASE x.kind \notin x.have
    <3>1. UNCHANGED <<file, book, acked, puts, skew, nextId, opens, faults>>
      BY <1>1, <2>5
    <3> QED BY <1>4, <2>2, <2>3, <3>1, CountersTyped, QuietStep DEF Becomes
  <2>6. CASE x.kind \in x.have
    <3> DEFINE g == file[x.sid][x.kind]
               f == Synced(g)
    <3>1. file' = [file EXCEPT ![x.sid][x.kind] = f] /\ x.sid \in Sids
      BY <1>1, <1>2, <2>6
    <3>2. g \in File /\ g.synced <= g.len
          /\ \A e \in g.recs : EntryEnd(x.kind, e) <= g.len
      BY <1>2, <3>1 DEF IInv, TypeOK, FilesOK
    <3>3. /\ f \in File
          /\ f.there = g.there /\ f.synced = g.len /\ f.len = g.len
          /\ f.recs = g.recs
      <4> HIDE DEF g
      <4> QED BY <3>2, SyncedFile
    <3> HIDE DEF f
    <3>4. f.synced <= f.len
      BY <3>3 DEF File
    <3>5. /\ file[x.sid][x.kind].synced <= f.synced
          /\ file[x.sid][x.kind].recs \subseteq f.recs
          /\ f.there = file[x.sid][x.kind].there
          /\ \A e \in f.recs :
               /\ EntryEnd(x.kind, e) <= f.len
               /\ \/ e \in file[x.sid][x.kind].recs
                  \/ /\ writer[w].pc = "write" /\ writer[w].kind = x.kind
                     /\ e.put = writer[w].put
      BY <3>2, <3>3
    <3>6. /\ UNCHANGED <<book, puts, nextId, opens>> /\ acked' = acked
          /\ faults' \in 0 .. MaxFaults /\ skew' \subseteq (Puts \X Kinds)
          /\ r.call = "put" => writer[w].call = "put" /\ r.put = writer[w].put
          /\ r.pc \notin {"write", "sync"} /\ r.call = "put" =>
               writer[w].pc \notin {"write", "sync"}
          /\ r.pc \notin {"create", "header"}
          /\ writer[w].have # {}
          /\ x.sid = writer[w].sid
      BY <1>1, <2>3, <2>6, CountersTyped DEF x
    <3> HIDE DEF g
    <3> QED
      BY <1>2, <1>4, <2>2, <2>4, <3>1, <3>3, <3>4, <3>5, <3>6, OwnFileStep DEF OwnChange
  <2> QED BY <2>5, <2>6
<1>5. CASE x.kind # "idx" /\ Becomes(w, [y EXCEPT !.kind = NextKind(x.kind)])
  <2> DEFINE r == [y EXCEPT !.kind = NextKind(x.kind)]
  <2>1. /\ r \in Writer /\ r.pc = "flush" /\ r.call = x.call
        /\ r.kind = NextKind(x.kind) /\ r.have = x.have \ {x.kind}
        /\ r.sid = x.sid /\ r.put = x.put /\ r.size = x.size
    BY <1>2, <1>3 DEF Writer, NextKind, Kinds
  <2>2. Becomes(w, r)
    BY <1>5
  <2> HIDE DEF r
  <2>3. writer'[w] = r
    BY <2>2, CountersTyped DEF Becomes
  <2>4. /\ "data" \notin r.have
        /\ r.kind = "idx" => r.have \subseteq {"idx"}
    BY <1>2, <1>5, <2>1 DEF NextKind, Kinds
  <2>5. CallOK(w)'
    BY <1>1, <1>2, <2>1, <2>3, <2>4 DEF CallOK
  <2> QED BY <1>4, <2>1, <2>2, <2>5
<1>6. CASE /\ x.kind = "idx" /\ x.call = "put"
           /\ Becomes(w, [y EXCEPT !.kind = "data", !.pc = "resolve"])
  <2> DEFINE r == [y EXCEPT !.kind = "data", !.pc = "resolve"]
  <2>1. /\ r \in Writer /\ r.pc = "resolve" /\ r.call = x.call
        /\ r.kind = "data" /\ r.have = x.have \ {x.kind}
        /\ r.sid = x.sid /\ r.put = x.put /\ r.size = x.size
    BY <1>2, <1>3 DEF Writer, Kinds
  <2>2. Becomes(w, r)
    BY <1>6
  <2> HIDE DEF r
  <2>3. writer'[w] = r
    BY <2>2, CountersTyped DEF Becomes
  <2>4. r.have = {}
    BY <1>2, <1>6, <2>1
  <2>5. CallOK(w)'
    BY <1>1, <1>2, <1>6, <2>1, <2>3, <2>4 DEF CallOK
  <2> QED BY <1>4, <2>1, <2>2, <2>5
<1>7. CASE /\ x.kind = "idx" /\ x.call = "close" /\ Becomes(w, Returned(y))
  <2> DEFINE r == Returned(y)
  <2>1. /\ r \in Writer /\ r.pc = "idle" /\ r.call = "none"
        /\ r.have = x.have \ {x.kind} /\ r.sid = x.sid
    BY <1>3, ReturnedWriter
  <2>2. Becomes(w, r)
    BY <1>7
  <2> HIDE DEF r
  <2>3. writer'[w] = r
    BY <2>2, CountersTyped DEF Becomes
  <2>4. r.have = {}
    BY <1>2, <1>7, <2>1
  <2>5. CallOK(w)'
    BY <2>1, <2>3, <2>4 DEF CallOK
  <2> QED BY <1>4, <2>1, <2>2, <2>5
<1> QED
  BY <1>5, <1>6, <1>7 DEF Flush, x, y

(* Build books a put that has no record anywhere yet. *)
LEMMA BuildStep ==
  ASSUME IInv, NEW w \in Writers, Build(w)
  PROVE  IInv'
<1> USE DEF IInv
<1> DEFINE x == writer[w]
           b == [sid |-> x.sid, off |-> x.off, moff |-> x.moff, size |-> x.size]
           r == [x EXCEPT !.pc = "write", !.kind = "data"]
<1>1. /\ x.pc = "build"
      /\ book' = [book EXCEPT ![x.put] = b]
      /\ Becomes(w, r)
      /\ UNCHANGED <<file, puts, acked, skew, nextId, opens, faults>>
  BY DEF Build, At
<1>2. /\ x \in Writer /\ x.call = "put" /\ x.have = Kinds /\ x.sid \in Sids
      /\ x.put \in Puts /\ x.put <= puts /\ x.size \in Nat
      /\ CallOK(w) /\ OffsetOK(w)
  BY <1>1 DEF TypeOK, CallOK, Kinds
<1>3. b \in Booked /\ b.sid = x.sid /\ b.off = x.off /\ b.size = x.size
  BY <1>2, BoundsAssumption DEF Booked, Writer
<1>4. /\ r \in Writer /\ r.pc = "write" /\ r.call = "put" /\ r.kind = "data"
      /\ r.have = Kinds /\ r.sid = x.sid /\ r.off = x.off
      /\ r.put = x.put /\ r.size = x.size
  BY <1>2 DEF Writer, Kinds
<1> HIDE DEF b, r
<1>w. /\ writer'[w] = r
      /\ writer' \in [Writers -> Writer]
      /\ \A v \in Writers : v # w => writer'[v] = writer[v]
  BY <1>1, <1>4 DEF TypeOK, Becomes
<1>b. /\ book' \in [Puts -> Booked]
      /\ book'[x.put] = b
      /\ \A n \in Puts : n # x.put => book'[n] = book[n]
  BY <1>1, <1>2, <1>3 DEF TypeOK
<1>n. /\ x.put \notin acked
      /\ \A v \in Writers : v # w /\ writer[v].call = "put" => writer[v].put # x.put
  BY <1>2 DEF NumbersOK
<1>e. \A t \in Sids, j \in Kinds : \A e \in file[t][j].recs :
        e \in Entry /\ e.put \in Puts /\ e.put # x.put /\ book'[e.put] = book[e.put]
  <2>1. \A t \in Sids, j \in Kinds : \A e \in file[t][j].recs : e.put # x.put
    BY <1>1, <1>2 DEF UnbuiltOK
  <2> QED BY <2>1, <1>b, Entry_End
<1>d. \A t \in Sids, j \in Kinds : Durable(t, j)' = Durable(t, j)
  BY <1>1, <1>e DEF Durable, EntryEnd
<1>t. \A n \in Puts, j \in Kinds :
        n # x.put /\ book[n].sid \in Sids => Stored(n, j)' = Stored(n, j)
  BY <1>b, <1>d DEF Stored
<1>1a. TypeOK'
  <2>1. \A v \in Writers :
          writer'[v].pc \in {"build", "write", "sync"} => writer'[v].have = Kinds
    BY <1>w, <1>4 DEF TypeOK
  <2> QED BY <1>1, <1>w, <1>b, <2>1 DEF TypeOK
<1>2a. \A v \in Writers : CallOK(v)'
  <2>1. CallOK(w)'
    BY <1>1, <1>2, <1>4, <1>w DEF CallOK
  <2> QED BY <1>1, <1>w, <2>1 DEF CallOK
<1>3a. NumbersOK'
  <2>1. \A n \in acked : n <= puts /\ book'[n].sid \in Sids
    BY <1>b, <1>n DEF NumbersOK, TypeOK
  <2> QED BY <1>1, <1>2, <1>4, <1>w, <2>1 DEF NumbersOK
<1>4a. FilesOK'
  BY <1>1, <1>e DEF FilesOK, EntryEnd
<1>5a. UnbuiltOK'
  BY <1>1, <1>4, <1>w DEF UnbuiltOK
<1>o. \A v \in Writers : Owns(v)' = Owns(v)
  BY <1>1, <1>2, <1>4, <1>w DEF Owns, At, Kinds
<1>6a. OwnersOK'
  <2>1. \A v \in Writers : writer'[v].pc \in {"create", "header"} =>
          writer[v].pc \in {"create", "header"}
    BY <1>4, <1>w
  <2> QED BY <1>1, <1>o, <2>1 DEF OwnersOK, ExclusiveStack
<1>7a. \A v \in Writers : PutOK(v)'
  <2>1. PutOK(w)'
    <3>1. book'[r.put].sid = r.sid /\ book'[r.put].size = r.size
      BY <1>3, <1>4, <1>b
    <3> QED BY <1>4, <1>w, <3>1 DEF PutOK
  <2>2. ASSUME NEW v \in Writers, v # w, writer[v].pc \in {"write", "sync"}
        PROVE  PutOK(v)'
    <3>1. /\ writer'[v] = writer[v] /\ PutOK(v)
          /\ writer[v].put \in Puts /\ writer[v].put # x.put
          /\ writer[v].sid \in Sids /\ book[writer[v].put].sid = writer[v].sid
      BY <2>2, <1>w, <1>n, WritingPut
    <3> QED BY <1>1, <2>2, <3>1, <1>b, <1>t DEF PutOK, Kinds
  <2> QED BY <1>w, <2>1, <2>2 DEF PutOK
<1>8a. \A v \in Writers : OffsetOK(v)'
  <2>1. \A n \in acked : n \in Puts /\ n # x.put /\ book'[n] = book[n]
    BY <1>b, <1>n DEF TypeOK
  <2>2. OffsetOK(w)'
    <3>1. \A n \in acked : book[n].sid = x.sid => book[n].off < x.off
      BY <1>2 DEF OffsetOK
    <3>2. book'[r.put].off = r.off
      BY <1>3, <1>4, <1>b
    <3> QED BY <1>1, <1>4, <1>w, <2>1, <3>1, <3>2 DEF OffsetOK
  <2>3. ASSUME NEW v \in Writers, v # w
        PROVE  OffsetOK(v)'
    <3>1. writer'[v] = writer[v] /\ OffsetOK(v)
      BY <2>3, <1>w
    <3>2. writer[v].pc \in {"write", "sync"} =>
            book'[writer[v].put] = book[writer[v].put]
      BY <2>3, <1>b, <1>n, WritingPut
    <3> QED BY <1>1, <2>1, <3>1, <3>2 DEF OffsetOK
  <2> QED BY <2>2, <2>3
<1>9a. IndexAfterData'
  <2>1. \A t \in Sids : \A e \in file[t]["idx"].recs :
          book'[e.put].sid = t /\ Stored(e.put, "data")' /\ Stored(e.put, "meta")'
    BY <1>e, <1>t DEF IndexAfterData, Kinds
  <2> QED BY <1>1, <2>1 DEF IndexAfterData
<1>10a. AckedDurable'
  <2>1. \A n \in acked : \A j \in Kinds : Stored(n, j)'
    BY <1>n, <1>t DEF AckedDurable, NumbersOK, TypeOK
  <2> QED BY <1>1, <2>1 DEF AckedDurable
<1>11a. AckedIdsUnique'
  <2>1. \A n \in acked : book'[n] = book[n]
    BY <1>b, <1>n DEF TypeOK
  <2> QED BY <1>1, <2>1 DEF AckedIdsUnique
<1> QED
  BY <1>1a, <1>2a, <1>3a, <1>4a, <1>5a, <1>6a, <1>7a, <1>8a, <1>9a, <1>10a, <1>11a

(* What a crash leaves of a file. *)
LEMMA SurvivedFile ==
  ASSUME IInv, NEW s \in Sids, NEW k \in Kinds, NEW kept \in SUBSET Unsynced
  PROVE  LET g == file[s][k]
             f == Survived(s, k, kept)
         IN  /\ f \in File /\ f.there = g.there
             /\ f.synced = f.len
             /\ f.recs \subseteq g.recs /\ Durable(s, k) \subseteq f.recs
             /\ \A e \in f.recs : EntryEnd(k, e) <= f.len
             /\ g = NoFile => f = NoFile
<1> DEFINE g == file[s][k]
           more == {e \in g.recs : <<s, k, e>> \in kept}
           recs == Durable(s, k) \cup more
           len == IF recs = Durable(s, k) THEN g.synced ELSE g.len
           f == Survived(s, k, kept)
<1>1. /\ g \in File /\ g.synced <= g.len
      /\ \A e \in g.recs : EntryEnd(k, e) \in Nat /\ EntryEnd(k, e) <= g.len
  BY Entry_End DEF IInv, TypeOK, FilesOK
<1>2. f = [g EXCEPT !.len = len, !.synced = len, !.recs = recs]
  BY DEF Survived
<1>3. Durable(s, k) \subseteq g.recs /\ \A e \in Durable(s, k) : EntryEnd(k, e) <= g.synced
  BY DEF Durable
<1>4. /\ recs \subseteq g.recs /\ Durable(s, k) \subseteq recs
      /\ len \in Nat
      /\ \A e \in recs : EntryEnd(k, e) <= len
  <2>1. recs \subseteq g.recs /\ Durable(s, k) \subseteq recs
    BY <1>3
  <2>2. g.synced \in Nat /\ g.len \in Nat
    BY <1>1 DEF File
  <2> HIDE DEF g, recs
  <2> QED BY <1>1, <1>3, <2>1, <2>2 DEF g
<1>5. g.recs = {} => recs = {} /\ Durable(s, k) = {}
  BY <1>3
<1> HIDE DEF f, recs
<1>6. /\ f \in File /\ f.there = g.there /\ f.len = len /\ f.synced = len
      /\ f.recs = recs
  <2> HIDE DEF len, g
  <2> QED BY <1>1, <1>2, <1>4 DEF File
<1>7. ASSUME g = NoFile PROVE f = NoFile
  <2>1. len = 0 /\ recs = {}
    BY <1>5, <1>7 DEF NoFile
  <2> HIDE DEF len, g
  <2>2. f = [NoFile EXCEPT !.len = 0, !.synced = 0, !.recs = {}]
    BY <1>2, <1>7, <2>1
  <2> QED BY <2>2 DEF NoFile
<1> QED BY <1>4, <1>6, <1>7 DEF f

(* A crash takes no durable record. *)
LEMMA CrashDurable ==
  ASSUME IInv, Crash
  PROVE  \A s \in Sids, k \in Kinds : Durable(s, k) \subseteq Durable(s, k)'
<1>1. PICK kept \in SUBSET Unsynced :
        file' = [s \in Sids |-> [k \in Kinds |-> Survived(s, k, kept)]]
  BY DEF Crash
<1>2. ASSUME NEW s \in Sids, NEW k \in Kinds, NEW e \in Durable(s, k)
      PROVE  e \in Durable(s, k)'
  <2>1. file'[s][k] = Survived(s, k, kept) /\ book' = book
    BY <1>1 DEF Crash
  <2> DEFINE f == Survived(s, k, kept)
  <2>2. f.synced = f.len /\ e \in f.recs /\ EntryEnd(k, e) <= f.len
    BY SurvivedFile
  <2> HIDE DEF f
  <2>3. file'[s][k] = f
    BY <2>1 DEF f
  <2> QED BY <2>1, <2>2, <2>3 DEF Durable, EntryEnd
<1> QED BY <1>2

(* A crash leaves files and acknowledged puts consistent. *)
LEMMA CrashStep ==
  ASSUME IInv, Crash
  PROVE  IInv'
<1> USE DEF IInv
<1>1. PICK kept \in SUBSET Unsynced :
        file' = [s \in Sids |-> [k \in Kinds |-> Survived(s, k, kept)]]
  BY DEF Crash
<1>2. /\ writer' = [w \in Writers |-> Gone]
      /\ UNCHANGED <<book, puts, acked, skew, nextId, opens>>
      /\ faults' \in 0 .. MaxFaults
  BY CountersTyped, BoundsAssumption DEF Crash, Fault
<1>3. \A s \in Sids, k \in Kinds :
        /\ file'[s][k] \in File
        /\ file'[s][k].there = file[s][k].there
        /\ file'[s][k].synced = file'[s][k].len
        /\ file'[s][k].recs \subseteq file[s][k].recs
        /\ \A e \in file'[s][k].recs : EntryEnd(k, e) <= file'[s][k].len
        /\ file[s][k] = NoFile => file'[s][k] = NoFile
  <2>1. \A s \in Sids, k \in Kinds : file'[s][k] = Survived(s, k, kept)
    BY <1>1
  <2> QED BY <2>1, SurvivedFile
<1>4. /\ Gone \in Writer /\ Gone.pc = "gone" /\ Gone.call = "none" /\ Gone.have = {}
      /\ Gone.have # Kinds
  BY DEF Gone, Writer, Kinds
<1>5. \A w \in Writers : writer'[w] = Gone
  BY <1>2
<1>6. \A w \in Writers : CallOK(w)' /\ PutOK(w)' /\ OffsetOK(w)' /\ Owns(w)' = {}
  BY <1>4, <1>5 DEF CallOK, PutOK, OffsetOK, Owns, At
<1>7. \A n \in Puts, k \in Kinds :
        book[n].sid \in Sids /\ Stored(n, k) => Stored(n, k)'
  BY <1>2, CrashDurable DEF Stored
<1>8. TypeOK'
  <2>1. file' \in [Sids -> [Kinds -> File]]
    <3> DEFINE F(s, k) == Survived(s, k, kept)
    <3>1. \A s \in Sids, k \in Kinds : F(s, k) \in File
      BY <1>1, <1>3
    <3>2. file' = [s \in Sids |-> [k \in Kinds |-> F(s, k)]]
      BY <1>1
    <3> HIDE DEF F
    <3> QED BY <3>1, <3>2
  <2>2. \A s \in Sids, k \in Kinds : file'[s][k].synced <= file'[s][k].len
    BY <1>3 DEF File
  <2>3. writer' \in [Writers -> Writer]
    BY <1>2, <1>4
  <2>4. \A w \in Writers :
          writer'[w].pc \in {"build", "write", "sync"} => writer'[w].have = Kinds
    BY <1>4, <1>5
  <2> QED BY <1>2, <2>1, <2>2, <2>3, <2>4 DEF TypeOK
<1>9. NumbersOK'
  BY <1>2, <1>4, <1>5 DEF NumbersOK
<1>10. FilesOK'
  <2>1. \A s \in Sids, k \in Kinds :
          ~file'[s]["data"].there => file'[s][k] = NoFile
    BY <1>3 DEF FilesOK, Kinds
  <2>2. \A s \in Sids, k \in Kinds : \A e \in file'[s][k].recs :
          book'[e.put].sid = s /\ (EntryEnd(k, e) <= file[s][k].len)' /\ e.put <= puts'
    BY <1>2, <1>3 DEF FilesOK, EntryEnd
  <2> QED BY <2>1, <2>2 DEF FilesOK
<1>11. UnbuiltOK'
  BY <1>4, <1>5 DEF UnbuiltOK
<1>12. OwnersOK'
  BY <1>6 DEF OwnersOK, ExclusiveStack
<1>13. IndexAfterData'
  <2>1. \A s \in Sids : \A e \in file'[s]["idx"].recs :
          book[e.put].sid = s /\ Stored(e.put, "data")' /\ Stored(e.put, "meta")'
    <3> SUFFICES ASSUME NEW s \in Sids, NEW e \in file'[s]["idx"].recs
                 PROVE  book[e.put].sid = s /\ Stored(e.put, "data")' /\ Stored(e.put, "meta")'
      OBVIOUS
    <3>1. e \in file[s]["idx"].recs
      BY <1>3 DEF Kinds
    <3>2. e.put \in Puts
      BY <3>1, Entry_End DEF Kinds
    <3>3. book[e.put].sid = s /\ Stored(e.put, "data") /\ Stored(e.put, "meta")
      BY <3>1 DEF IndexAfterData
    <3> QED BY <3>2, <3>3, <1>7 DEF Kinds
  <2> QED BY <1>2, <2>1 DEF IndexAfterData
<1>14. AckedDurable'
  <2>1. \A n \in acked : \A k \in Kinds : Stored(n, k)'
    BY <1>7 DEF AckedDurable, NumbersOK, TypeOK
  <2> QED BY <1>2, <2>1 DEF AckedDurable
<1>15. AckedIdsUnique'
  BY <1>2 DEF AckedIdsUnique
<1> QED BY <1>6, <1>8, <1>9, <1>10, <1>11, <1>12, <1>13, <1>14, <1>15

-----------------------------------------------------------------------------
(* Every step of every call, every failure and every crash keeps it        *)
(* (writer.rs:78-320); one lemma above for each kind of step.              *)
THEOREM NextIInv == IInv /\ [Next]_vars => IInv'
<1> SUFFICES ASSUME IInv, [Next]_vars PROVE IInv'
  OBVIOUS
<1>1. CASE UNCHANGED vars
  <2> USE <1>1 DEF vars, IInv
  <2>1. TypeOK' /\ NumbersOK'
    BY DEF TypeOK, NumbersOK
  <2>2. \A w \in Writers : CallOK(w)'
    BY DEF CallOK
  <2>3. FilesOK' /\ UnbuiltOK'
    BY DEF FilesOK, UnbuiltOK, EntryEnd
  <2>4. OwnersOK'
    BY DEF OwnersOK, ExclusiveStack, Owns, At
  <2>5. ASSUME NEW w \in Writers PROVE PutOK(w)' /\ OffsetOK(w)'
    <3>1. PutOK(w) /\ OffsetOK(w)
      OBVIOUS
    <3> HIDE DEF IInv
    <3>2. PutOK(w)'
      BY <3>1 DEF PutOK, Stored, Durable, EntryEnd
    <3>3. OffsetOK(w)'
      BY <3>1 DEF OffsetOK
    <3> QED BY <3>2, <3>3
  <2>6. IndexAfterData' /\ AckedDurable' /\ AckedIdsUnique'
    <3>1. IndexAfterData /\ AckedDurable /\ AckedIdsUnique
      OBVIOUS
    <3> HIDE DEF IInv
    <3>2. IndexAfterData'
      BY <3>1 DEF IndexAfterData, Stored, Durable, EntryEnd
    <3>3. AckedDurable'
      BY <3>1 DEF AckedDurable, Stored, Durable, EntryEnd
    <3>4. AckedIdsUnique'
      BY <3>1 DEF AckedIdsUnique
    <3> QED BY <3>2, <3>3, <3>4
  <2> QED BY <2>1, <2>2, <2>3, <2>4, <2>5, <2>6
<1>2. ASSUME NEW w \in Writers, Call(w) PROVE IInv'
  BY <1>2, OpenQuiet, PutQuiet, CloseQuiet DEF Call
<1>3. ASSUME NEW w \in Writers, Step(w) PROVE IInv'
  BY <1>3, OpeningSteps, CreateStep, CreateExistsQuiet, HeaderStep, BuildStep,
     WriteStep, SyncStep, FlushStep DEF Step
<1>4. ASSUME NEW w \in Writers, Failure(w) PROVE IInv'
  BY <1>4, FailuresQuiet, HeaderFailsStep, WriteFailsStep DEF Failure
<1>5. CASE Crash
  BY <1>5, CrashStep
<1> QED BY <1>1, <1>2, <1>3, <1>4, <1>5 DEF Next

(* The inductive invariant holds in every reachable state. *)
THEOREM SpecIInv == Spec => []IInv
BY InitIInv, NextIInv, PTL DEF Spec

(* Every variable keeps its type, whatever fails (writer.rs:54-70). *)
THEOREM SpecTypeOK == Spec => []TypeOK
<1>1. IInv => TypeOK
  BY DEF IInv
<1> QED BY <1>1, SpecIInv, PTL

(* A record reaches `.idx` only after its data and meta are safe on disk, *)
(* for every interleaving, failure and crash (writer.rs:283-302).          *)
THEOREM SpecIndexAfterData == Spec => []IndexAfterData
<1>1. IInv => IndexAfterData
  BY DEF IInv
<1> QED BY <1>1, SpecIInv, PTL

(* No failure, crash or other writer undoes a put whose index_id was       *)
(* returned (writer.rs:285-306).                                           *)
THEOREM SpecAckedDurable == Spec => []AckedDurable
<1>1. IInv => AckedDurable
  BY DEF IInv
<1> QED BY <1>1, SpecIInv, PTL

(* The index_ids returned by put are pairwise different (writer.rs:306). *)
THEOREM SpecAckedIdsUnique == Spec => []AckedIdsUnique
<1>1. IInv => AckedIdsUnique
  BY DEF IInv
<1> QED BY <1>1, SpecIInv, PTL

(* create_new and the order of file creation keep two writers from ever    *)
(* sharing a stack (writer.rs:127-141).                                    *)
THEOREM SpecExclusiveStack == Spec => []ExclusiveStack
<1>1. IInv => ExclusiveStack
  BY DEF IInv, OwnersOK
<1> QED BY <1>1, SpecIInv, PTL

-----------------------------------------------------------------------------
(* A step that only sets the length of a file keeps its safe records. *)
LEMMA LengthKeeps ==
  ASSUME IInv, NEW s \in Sids, NEW k \in Kinds, NEW len \in Nat,
         file' = [file EXCEPT ![s][k].len = len], book' = book
  PROVE  \A t \in Sids, j \in Kinds : Durable(t, j) \subseteq Durable(t, j)'
<1> DEFINE f == [file[s][k] EXCEPT !.len = len]
<1>1. file[s][k] \in File /\ file' = [file EXCEPT ![s][k] = f]
  BY DEF IInv, TypeOK
<1>2. f \in File /\ f.recs = file[s][k].recs /\ f.synced = file[s][k].synced
  BY <1>1 DEF File
<1>3. file[s][k].synced <= f.synced
  BY <1>1, <1>2 DEF File
<1> HIDE DEF f
<1> QED BY <1>1, <1>2, <1>3, FileGrows

(* sync_all only adds to what is durable. *)
LEMMA SyncKeeps ==
  ASSUME IInv, NEW s \in Sids, NEW k \in Kinds,
         file' = [file EXCEPT ![s][k] = Synced(file[s][k])], book' = book
  PROVE  \A t \in Sids, j \in Kinds : Durable(t, j) \subseteq Durable(t, j)'
<1> DEFINE g == file[s][k]
           f == Synced(g)
<1>1. g \in File /\ g.synced <= g.len
  BY DEF IInv, TypeOK
<1>2. f \in File /\ f.recs = g.recs /\ f.synced = g.len
  <2> HIDE DEF g
  <2> QED BY <1>1, SyncedFile
<1>3. file[s][k].synced <= f.synced /\ file[s][k].recs \subseteq f.recs
  BY <1>1, <1>2
<1>4. file' = [file EXCEPT ![s][k] = f]
  OBVIOUS
<1> HIDE DEF f, g
<1> QED BY <1>2, <1>3, <1>4, FileGrows

(* No step of a call takes a durable record away (writer.rs:78-320). *)
LEMMA StepKeeps ==
  ASSUME IInv, [Next]_vars
  PROVE  \A s \in Sids, k \in Kinds : Durable(s, k) \subseteq Durable(s, k)'
<1> DEFINE Kept == \A s \in Sids, k \in Kinds : Durable(s, k) \subseteq Durable(s, k)'
<1>1. ASSUME UNCHANGED <<file, book>> PROVE Kept
  BY <1>1 DEF Durable, EntryEnd
<1>2. ASSUME NEW w \in Writers, Create(w) PROVE Kept
  <2> DEFINE s == writer[w].new
             k == writer[w].kind
             f == [NoFile EXCEPT !.there = TRUE]
  <2>1. /\ writer[w].pc = "create" /\ ~file[s][k].there
        /\ file' = [file EXCEPT ![s][k] = f] /\ book' = book
    BY <1>2 DEF Create, At, Taken
  <2>2. k # "data" \/ ~file[s]["data"].there
    BY <2>1
  <2>3. /\ s \in Sids /\ k \in Kinds
        /\ file[s][k].recs = {} /\ file[s][k].synced = 0
    BY <2>1, <2>2, OpeningEmpty
  <2>4. f \in File /\ f.recs = {} /\ f.synced = 0
    BY DEF NoFile, File
  <2>5. file[s][k].synced <= f.synced /\ file[s][k].recs \subseteq f.recs
    BY <2>3, <2>4
  <2> HIDE DEF s, k, f
  <2> QED BY <2>1, <2>3, <2>4, <2>5, FileGrows
<1>3. ASSUME NEW w \in Writers, Header(w) PROVE Kept
  <2> DEFINE s == writer[w].new
             k == writer[w].kind
  <2>1. /\ writer[w].pc = "header"
        /\ file' = [file EXCEPT ![s][k].len = HeadSize(k)] /\ book' = book
    BY <1>3 DEF Header, At
  <2>2. s \in Sids /\ k \in Kinds /\ HeadSize(k) \in Nat
    BY <2>1, OpeningEmpty, Sizes_Nat
  <2> HIDE DEF s, k
  <2> QED BY <2>1, <2>2, LengthKeeps
<1>4. ASSUME NEW w \in Writers, HeaderFails(w) PROVE Kept
  <2> DEFINE s == writer[w].new
             k == writer[w].kind
  <2>1. writer[w].pc = "header" /\ book' = book
    BY <1>4 DEF HeaderFails, At
  <2>2. s \in Sids /\ k \in Kinds /\ HeadSize(k) \in Nat
    BY <2>1, OpeningEmpty, Sizes_Nat
  <2>3. PICK part \in 0 .. HeadSize(k) : file' = [file EXCEPT ![s][k].len = part]
    BY <1>4 DEF HeaderFails
  <2>4. part \in Nat
    BY <2>2
  <2> HIDE DEF s, k
  <2> QED BY <2>1, <2>2, <2>3, <2>4, LengthKeeps
<1>5. ASSUME NEW w \in Writers, Write(w) \/ WriteFails(w) PROVE Kept
  <2> DEFINE s == writer[w].sid
             k == writer[w].kind
             n == writer[w].put
             size == EntrySize(k, writer[w].size)
             g == file[s][k]
  <2>1. writer[w].pc = "write" /\ book' = book
    BY <1>5 DEF Write, WriteFails, At
  <2>2. s \in Sids /\ k \in Kinds /\ size \in Nat /\ g \in File
    BY <2>1, WritingPut
  <2>3. PICK part \in 0 .. size :
          file' = [file EXCEPT ![s][k] = PartlyAppended(g, n, size, part)]
    <3>1. CASE Write(w)
      <4>1. size \in 0 .. size /\ PartlyAppended(g, n, size, size) = Appended(g, n, size)
        BY <2>2 DEF PartlyAppended
      <4> QED BY <3>1, <4>1 DEF Write
    <3>2. CASE WriteFails(w)
      BY <3>2 DEF WriteFails
    <3> QED BY <1>5, <3>1, <3>2
  <2> DEFINE f == PartlyAppended(g, n, size, part)
  <2>4. f \in File /\ f.synced = g.synced /\ g.recs \subseteq f.recs
    BY <2>1, WrittenFile
  <2> HIDE DEF f
  <2>5. file[s][k].synced <= f.synced /\ file[s][k].recs \subseteq f.recs
    BY <2>2, <2>4 DEF File
  <2>6. file' = [file EXCEPT ![s][k] = f]
    BY <2>3 DEF f
  <2> HIDE DEF s, k, g
  <2> QED BY <2>1, <2>2, <2>4, <2>5, <2>6, FileGrows
<1>6. ASSUME NEW w \in Writers, Sync(w) PROVE Kept
  <2>1. /\ writer[w].pc = "sync" /\ book' = book
        /\ file' = [file EXCEPT ![writer[w].sid][writer[w].kind] =
                      Synced(file[writer[w].sid][writer[w].kind])]
    BY <1>6 DEF Sync, At
  <2>2. writer[w].sid \in Sids /\ writer[w].kind \in Kinds
    BY <2>1, WritingPut
  <2> QED BY <2>1, <2>2, SyncKeeps
<1>7. ASSUME NEW w \in Writers, Flush(w) PROVE Kept
  <2>1. CASE writer[w].kind \notin writer[w].have
    BY <1>1, <1>7, <2>1 DEF Flush
  <2>2. CASE writer[w].kind \in writer[w].have
    <3>1. /\ book' = book
          /\ file' = [file EXCEPT ![writer[w].sid][writer[w].kind] =
                        Synced(file[writer[w].sid][writer[w].kind])]
      BY <1>7, <2>2 DEF Flush
    <3>2. writer[w].sid \in Sids /\ writer[w].kind \in Kinds
      BY <2>2 DEF IInv, CallOK, TypeOK, Writer
    <3> QED BY <3>1, <3>2, SyncKeeps
  <2> QED BY <2>1, <2>2
<1>8. ASSUME NEW w \in Writers, Build(w) PROVE Kept
  <2> DEFINE n == writer[w].put
  <2>1. /\ writer[w].pc = "build" /\ writer[w].call = "put" /\ n \in Puts
        /\ file' = file
        /\ \A m \in Puts : m # n => book'[m] = book[m]
    BY <1>8 DEF Build, At, IInv, CallOK, TypeOK
  <2>2. \A s \in Sids, k \in Kinds : \A e \in file[s][k].recs :
          e.put \in Puts /\ e.put # n
    BY <2>1, Entry_End DEF IInv, UnbuiltOK
  <2>3. \A s \in Sids, k \in Kinds : \A e \in file[s][k].recs :
          book'[e.put] = book[e.put]
    BY <2>1, <2>2
  <2> QED BY <2>1, <2>3 DEF Durable, EntryEnd
<1>9. ASSUME NEW w \in Writers, Call(w) PROVE Kept
  BY <1>1, <1>9 DEF Call, Open, Put, Close
<1>10. ASSUME NEW w \in Writers,
              \/ ResolveRemote(w) \/ ResolveLocal(w) \/ ProbeTaken(w)
              \/ ProbeFree(w) \/ CreateExists(w) \/ ResolveRemoteFails(w)
              \/ ProbeFails(w) \/ CreateFails(w) \/ SyncFails(w) \/ FlushFails(w)
       PROVE  Kept
  BY <1>1, <1>10 DEF ResolveRemote, ResolveLocal, ProbeTaken, ProbeFree,
     CreateExists, ResolveRemoteFails, ProbeFails, CreateFails, SyncFails, FlushFails
<1>11. CASE UNCHANGED vars
  BY <1>1, <1>11 DEF vars
<1>12. CASE Crash
  BY <1>12, CrashDurable
<1>13. ASSUME NEW w \in Writers, Step(w) \/ Failure(w) PROVE Kept
  BY <1>2, <1>3, <1>4, <1>5, <1>6, <1>7, <1>8, <1>10, <1>13 DEF Step, Failure
<1> QED BY <1>9, <1>11, <1>12, <1>13 DEF Next

(* A record that is on disk stays where it is, for ever (RFC 4). *)
THEOREM SpecNeverRewritten == Spec => NeverRewritten
<1>1. IInv /\ [Next]_vars =>
        [\A s \in Sids, k \in Kinds : Durable(s, k) \subseteq Durable(s, k)']_vars
  BY StepKeeps
<1> QED BY <1>1, SpecIInv, PTL DEF Spec, NeverRewritten

(* A step that is not a crash leaves a stack alone that nobody owns:       *)
(* `.data` files are made with create_new, and all else is written by the  *)
(* owner of the stack (writer.rs:121-184, 281-306).                        *)
LEMMA UnownedStays ==
  ASSUME IInv, [Next]_vars, ~Crash, NEW s \in Sids, file[s]["data"].there,
         \A w \in Writers : s \notin Owns(w)
  PROVE  file'[s] = file[s]
<1>1. file \in [Sids -> [Kinds -> File]]
  BY DEF IInv, TypeOK
<1>2. ASSUME UNCHANGED file PROVE file'[s] = file[s]
  BY <1>2
<1>3. ASSUME NEW w \in Writers, writer[w].have # {} PROVE writer[w].sid # s
  BY <1>3 DEF Owns
<1>4. ASSUME NEW w \in Writers, writer[w].pc = "header" PROVE writer[w].new # s
  BY <1>4 DEF Owns, At
<1>5. ASSUME NEW w \in Writers, Create(w) PROVE file'[s] = file[s]
  <2> DEFINE t == writer[w].new
             k == writer[w].kind
             f == [NoFile EXCEPT !.there = TRUE]
  <2>1. /\ writer[w].pc = "create" /\ ~file[t][k].there
        /\ file' = [file EXCEPT ![t][k] = f]
    BY <1>5 DEF Create, At, Taken
  <2>2. t # s
    BY <2>1 DEF Owns, At
  <2> HIDE DEF t, k, f
  <2> QED BY <1>1, <2>1, <2>2
<1>6. ASSUME NEW w \in Writers, Header(w) \/ HeaderFails(w) PROVE file'[s] = file[s]
  <2> DEFINE t == writer[w].new
             k == writer[w].kind
  <2>1. writer[w].pc = "header" /\ \E n : file' = [file EXCEPT ![t][k].len = n]
    BY <1>6 DEF Header, HeaderFails, At
  <2>2. t # s
    BY <1>4, <2>1
  <2> HIDE DEF t, k
  <2> QED BY <1>1, <2>1, <2>2
<1>7. ASSUME NEW w \in Writers, Write(w) \/ WriteFails(w) \/ Sync(w)
      PROVE  file'[s] = file[s]
  <2> DEFINE t == writer[w].sid
             k == writer[w].kind
  <2>1. writer[w].pc \in {"write", "sync"} /\ \E f : file' = [file EXCEPT ![t][k] = f]
    BY <1>7 DEF Write, WriteFails, Sync, At
  <2>2. writer[w].have = Kinds
    BY <2>1, WritingPut
  <2>3. t # s
    BY <1>3, <2>2 DEF Kinds
  <2> HIDE DEF t, k
  <2> QED BY <1>1, <2>1, <2>3
<1>8. ASSUME NEW w \in Writers, Flush(w) PROVE file'[s] = file[s]
  <2> DEFINE t == writer[w].sid
             k == writer[w].kind
  <2>1. CASE k \notin writer[w].have
    BY <1>8, <2>1 DEF Flush
  <2>2. CASE k \in writer[w].have
    <3>1. \E f : file' = [file EXCEPT ![t][k] = f]
      BY <1>8, <2>2 DEF Flush
    <3>2. t # s
      BY <1>3, <2>2
    <3> HIDE DEF t, k
    <3> QED BY <1>1, <3>1, <3>2
  <2> QED BY <2>1, <2>2
<1>9. ASSUME NEW w \in Writers, Build(w) PROVE file'[s] = file[s]
  BY <1>9 DEF Build
<1>10. ASSUME NEW w \in Writers, Call(w) PROVE file'[s] = file[s]
  BY <1>10 DEF Call, Open, Put, Close
<1>11. ASSUME NEW w \in Writers,
              \/ ResolveRemote(w) \/ ResolveLocal(w) \/ ProbeTaken(w)
              \/ ProbeFree(w) \/ CreateExists(w) \/ ResolveRemoteFails(w)
              \/ ProbeFails(w) \/ CreateFails(w) \/ SyncFails(w) \/ FlushFails(w)
       PROVE  file'[s] = file[s]
  BY <1>11 DEF ResolveRemote, ResolveLocal, ProbeTaken, ProbeFree,
     CreateExists, ResolveRemoteFails, ProbeFails, CreateFails, SyncFails, FlushFails
<1>12. ASSUME NEW w \in Writers, Step(w) \/ Failure(w) PROVE file'[s] = file[s]
  BY <1>5, <1>6, <1>7, <1>8, <1>9, <1>11, <1>12 DEF Step, Failure
<1>13. CASE UNCHANGED vars
  BY <1>13 DEF vars
<1> QED BY <1>10, <1>12, <1>13 DEF Next

(* A stack that is closed, rotated away or given up is never written       *)
(* again; a crash takes at most unsynced records from it (RFC 8.4).        *)
THEOREM SpecSealedFrozen == Spec => SealedFrozen
<1> DEFINE Shrinks(s) == \A k \in Kinds : /\ file'[s][k].recs \subseteq file[s][k].recs
                                          /\ file'[s][k].len <= file[s][k].len
           Sealed(s) == file[s]["data"].there /\ \A w \in Writers : s \notin Owns(w)
<1>1. IInv /\ [Next]_vars => [\A s \in Sids : Sealed(s) => Shrinks(s)]_vars
  <2> SUFFICES ASSUME IInv, [Next]_vars, NEW s \in Sids, Sealed(s) PROVE Shrinks(s)
    OBVIOUS
  <2>1. \A k \in Kinds : file[s][k] \in File
    BY DEF IInv, TypeOK
  <2>2. \A k \in Kinds : file[s][k].len \in Nat /\ file[s][k].synced <= file[s][k].len
    BY <2>1 DEF IInv, TypeOK, File
  <2>3. CASE ~Crash
    <3>1. file'[s] = file[s]
      BY <2>3, UnownedStays
    <3> QED BY <2>2, <3>1
  <2>4. CASE Crash
    <3>1. PICK kept \in SUBSET Unsynced :
            file' = [t \in Sids |-> [k \in Kinds |-> Survived(t, k, kept)]]
      BY <2>4 DEF Crash
    <3>2. ASSUME NEW k \in Kinds
          PROVE  /\ Survived(s, k, kept).recs \subseteq file[s][k].recs
                 /\ Survived(s, k, kept).len <= file[s][k].len
      <4>1. Survived(s, k, kept).recs \subseteq file[s][k].recs
        BY SurvivedFile
      <4>2. Survived(s, k, kept).len \in {file[s][k].synced, file[s][k].len}
        BY <2>1 DEF Survived, File
      <4> QED BY <2>2, <4>1, <4>2
    <3> QED BY <3>1, <3>2
  <2> QED BY <2>3, <2>4
<1> QED BY <1>1, SpecIInv, PTL DEF Spec, SealedFrozen

-----------------------------------------------------------------------------
(* Where the bytes are: the invariant FilesIInv, on top of IInv. *)

(* Before the first open nothing is booked, left behind or written. *)
THEOREM InitFilesIInv == Init => FilesIInv
<1> SUFFICES ASSUME Init PROVE FilesIInv
  OBVIOUS
<1>1. IInv
  BY InitIInv
<1>2. \A w \in Writers : LenOK(w) /\ PlaceOK(w) /\ Owns(w) = {} /\ writer[w].call = "none"
  BY DEF Init, LenOK, PlaceOK, Owns, At, Gone, Kinds
<1>3. \A m \in Puts : book[m].sid = 0 /\ 0 \notin Sids
  BY BoundsAssumption DEF Init, Sids
<1>4. BookOK
  BY <1>2, <1>3 DEF BookOK
<1>5. SkewOK /\ AckedPlaced
  BY DEF Init, SkewOK, AckedPlaced
<1>6. OrderOK
  BY DEF Init, OrderOK, NoFile
<1> QED BY <1>1, <1>2, <1>4, <1>5, <1>6 DEF FilesIInv

(* What a put that is over left behind, and what it was booked for, stays. *)
LEMMA BookedForGood ==
  ASSUME FilesIInv, [Next]_vars
  PROVE  /\ skew \subseteq skew' /\ acked \subseteq acked'
         /\ \A m \in acked : book'[m] = book[m]
         /\ \A m \in Puts, k \in Kinds : <<m, k>> \in skew => book'[m] = book[m]
<1>1. CASE UNCHANGED vars
  BY <1>1 DEF vars
<1>2. CASE Crash
  BY <1>2 DEF Crash
<1>3. ASSUME NEW w \in Writers, Build(w)
      PROVE  /\ skew' = skew /\ acked' = acked
             /\ \A m \in acked : book'[m] = book[m]
             /\ \A m \in Puts, k \in Kinds : <<m, k>> \in skew => book'[m] = book[m]
  <2>1. /\ writer[w].call = "put" /\ book \in [Puts -> Booked] /\ acked \subseteq Puts
        /\ writer[w].put \notin acked
    BY <1>3 DEF Build, At, FilesIInv, IInv, CallOK, NumbersOK, TypeOK
  <2>2. \A m \in Puts : m # writer[w].put => book'[m] = book[m]
    BY <1>3, <2>1 DEF Build
  <2>3. \A m \in Puts, k \in Kinds : <<m, k>> \in skew => m # writer[w].put
    BY <2>1 DEF FilesIInv, SkewOK
  <2> QED BY <1>3, <2>1, <2>2, <2>3 DEF Build
<1>4. ASSUME NEW w \in Writers, Call(w)
      PROVE  skew' = skew /\ acked' = acked /\ book' = book
  BY <1>4 DEF Call, Open, Put, Close
<1>5. ASSUME NEW w \in Writers, Step(w), ~Build(w)
      PROVE  skew' = skew /\ acked \subseteq acked' /\ book' = book
  BY <1>5 DEF Step, ResolveRemote, ResolveLocal, ProbeTaken, ProbeFree, Create,
     CreateExists, Header, Write, Sync, Flush
<1>6. ASSUME NEW w \in Writers, Failure(w)
      PROVE  skew \subseteq skew' /\ acked' = acked /\ book' = book
  <2>1. CASE WriteFails(w)
    BY <2>1 DEF WriteFails
  <2>2. CASE ~WriteFails(w)
    BY <1>6, <2>2 DEF Failure, ResolveRemoteFails, ProbeFails, CreateFails, HeaderFails,
       SyncFails, FlushFails
  <2> QED BY <2>1, <2>2
<1> QED BY <1>1, <1>2, <1>3, <1>4, <1>5, <1>6 DEF Next

(* So a stack that is clean now always was, and a put that nothing crooked *)
(* precedes now never had any before it.                                   *)
LEMMA OnceClean ==
  ASSUME FilesIInv, [Next]_vars
  PROVE  /\ \A s \in Sids, k \in Kinds : Clean(s, k)' => Clean(s, k)
         /\ \A n \in Puts, k \in Kinds :
              book'[n] = book[n] /\ Straight(n, k)' => Straight(n, k)
<1>1. ASSUME NEW s \in Sids, NEW k \in Kinds, Clean(s, k)' PROVE Clean(s, k)
  BY <1>1, BookedForGood DEF Clean
<1>2. ASSUME NEW n \in Puts, NEW k \in Kinds, book'[n] = book[n], Straight(n, k)'
      PROVE  Straight(n, k)
  BY <1>2, BookedForGood DEF Straight
<1> QED BY <1>1, <1>2

(* A record that is safe where it was booked for stays there. *)
LEMMA PlacedStays ==
  ASSUME FilesIInv, [Next]_vars, NEW n \in Puts, NEW k \in Kinds, NEW s \in Sids,
         book'[n] = book[n],
         PlacedIn(n, k, Durable(s, k))
  PROVE  PlacedIn(n, k, Durable(s, k))'
<1>1. Durable(s, k) \subseteq Durable(s, k)'
  BY StepKeeps DEF FilesIInv
<1>2. Straight(n, k)' => Straight(n, k)
  BY OnceClean
<1> QED BY <1>1, <1>2 DEF PlacedIn, Placed

(* Those acknowledged before a step are still where they were booked for. *)
LEMMA AckedPlacedStays ==
  ASSUME FilesIInv, [Next]_vars
  PROVE  \A n \in acked : \A k \in Kinds : PlacedIn(n, k, Durable(book[n].sid, k))'
<1> SUFFICES ASSUME NEW n \in acked, NEW k \in Kinds
             PROVE  PlacedIn(n, k, Durable(book[n].sid, k))'
  OBVIOUS
<1>1. /\ n \in Puts /\ book'[n] = book[n] /\ book[n].sid \in Sids
      /\ PlacedIn(n, k, Durable(book[n].sid, k))
  BY BookedForGood DEF FilesIInv, IInv, TypeOK, NumbersOK, AckedPlaced
<1>2. PICK s \in Sids : s = book[n].sid
  BY <1>1
<1>3. PlacedIn(n, k, Durable(s, k))'
  BY <1>1, <1>2, PlacedStays
<1> QED BY <1>1, <1>2, <1>3

(* The writers a step does not concern: the files of their stacks keep     *)
(* their records and lengths, and so does what they booked.                *)
LEMMA OthersKeep ==
  ASSUME FilesIInv, [Next]_vars, NEW v \in Writers,
         writer'[v] = writer[v],
         writer[v].pc \in {"write", "sync"} => book'[writer[v].put] = book[writer[v].put],
         \A t \in Owns(v), j \in Kinds :
           file'[t][j].len = file[t][j].len /\ file'[t][j].recs = file[t][j].recs
  PROVE  LenOK(v)' /\ PlaceOK(v)'
<1> DEFINE r == writer[v]
<1>1. LenOK(v) /\ PlaceOK(v) /\ CallOK(v)
  BY DEF FilesIInv, IInv
<1>2. r.have = Kinds => r.sid \in Sids /\ r.sid \in Owns(v)
  BY <1>1 DEF CallOK, Owns, Kinds
<1>3. r.pc = "header" => r.new \in Owns(v)
  BY <1>1 DEF CallOK, Owns, At
<1>4. LenOK(v)'
  <2>1. r.have = Kinds => \A j \in Kinds :
          /\ Clean(r.sid, j)' => Clean(r.sid, j)
          /\ file'[r.sid][j].len = file[r.sid][j].len
    BY <1>2, OnceClean
  <2>2. r.pc = "header" => \A j \in Kinds : file'[r.new][j].len = file[r.new][j].len
    BY <1>3
  <2> QED BY <1>1, <2>1, <2>2 DEF LenOK, Ahead, Kinds
<1>5. PlaceOK(v)'
  <2> SUFFICES ASSUME r.pc \in {"write", "sync"} PROVE PlaceOK(v)'
    BY DEF PlaceOK
  <2>1. /\ r.sid \in Sids /\ r.sid \in Owns(v) /\ r.put \in Puts /\ r.kind \in Kinds
        /\ book'[r.put] = book[r.put]
    BY <1>2, WritingPut DEF FilesIInv
  <2>2. PICK n \in Puts, s \in Sids, k \in Kinds : n = r.put /\ s = r.sid /\ k = r.kind
    BY <2>1
  <2>3. \A j \in Before(k) : PlacedIn(n, j, Durable(s, j))'
    BY <1>1, <2>1, <2>2, PlacedStays DEF PlaceOK, Before, Kinds
  <2>4. r.pc = "sync" => PlacedIn(n, k, file[s][k].recs)'
    BY <1>1, <2>1, <2>2, OnceClean DEF PlaceOK, PlacedIn, Placed
  <2>5. \A j \in Kinds : file'[s][j].recs = file[s][j].recs
    BY <2>1, <2>2
  <2>6. /\ k \in {"data", "meta"} => book'[n].moff = r.moff
        /\ \A j \in Kinds \ Before(k) : r.pc = "write" \/ j # k =>
             \A e \in file'[s][j].recs : e.put # n
    BY <1>1, <2>1, <2>2, <2>5 DEF PlaceOK
  <2>7. r' = r
    OBVIOUS
  <2> HIDE DEF r
  <2>8. /\ n = r'.put /\ s = r'.sid /\ k = r'.kind /\ r'.moff = r.moff /\ r'.pc = r.pc
    BY <2>2, <2>7
  <2> QED BY <2>3, <2>4, <2>6, <2>8 DEF PlaceOK, r
<1> QED BY <1>4, <1>5

(* A step of writer w that books nothing: the stacks it is creating are    *)
(* new or were being created before, the put it is in is the one it was    *)
(* in, a new one, or one in a stack nothing is booked for, and only a put  *)
(* that ends leaves uncounted bytes.                                       *)
LEMMA BooksKept ==
  ASSUME FilesIInv, NEW w \in Writers, NEW r \in Writer, Becomes(w, r),
         book' = book, puts' \in {puts, puts + 1},
         \A t \in Sids : file[t]["data"].there => file'[t]["data"].there,
         r.pc \in {"create", "header"} => \A t \in Owns(w)' :
           \/ t \in Owns(w) /\ writer[w].pc \in {"create", "header"}
           \/ ~file[t]["data"].there,
         r.have = Kinds => r.sid \in Sids,
         r.call = "put" =>
           \/ writer[w].call = "put" /\ r.put = writer[w].put
           \/ r.put = puts + 1,
         r.call = "put" /\ r.have = Kinds =>
           \/ writer[w].have = Kinds /\ r.sid = writer[w].sid
           \/ \A m \in Puts : book[m].sid # r.sid,
         \A m \in Puts, k \in Kinds : <<m, k>> \in skew' =>
           \/ <<m, k>> \in skew
           \/ writer[w].call = "put" /\ m = writer[w].put /\ r.call # "put"
  PROVE  BookOK' /\ SkewOK'
<1> USE BoundsAssumption
<1>w. /\ writer'[w] = r
      /\ \A v \in Writers : v # w => writer'[v] = writer[v]
      /\ puts \in Nat /\ puts <= puts' /\ puts' \in Nat
  BY DEF FilesIInv, IInv, TypeOK, Becomes
<1>i. BookOK /\ SkewOK /\ NumbersOK /\ \A v \in Writers : CallOK(v)
  BY DEF FilesIInv, IInv
<1>p. \A m \in Puts : m \in Nat
  BY DEF Puts
<1>1. \A m \in Puts :
        book[m].sid \in Sids => m <= puts /\ m <= puts' /\ file'[book[m].sid]["data"].there
  BY <1>i, <1>w, <1>p DEF BookOK
<1>2. ASSUME NEW v \in Writers, NEW s \in Owns(v)',
             writer'[v].pc \in {"create", "header"}, NEW m \in Puts
      PROVE  book[m].sid # s
  <2>1. s \in Sids
    BY DEF Owns
  <2>2. CASE v # w
    <3>1. writer'[v] = writer[v] /\ s \in Owns(v)
      BY <2>2, <1>w DEF Owns, At
    <3> QED BY <1>2, <1>i, <3>1 DEF BookOK
  <2>3. CASE v = w
    <3>1. \/ s \in Owns(w) /\ writer[w].pc \in {"create", "header"}
          \/ ~file[s]["data"].there
      BY <1>2, <1>w, <2>3
    <3> QED BY <1>i, <2>1, <3>1 DEF BookOK
  <2> QED BY <2>2, <2>3
<1>3. ASSUME NEW v \in Writers, writer'[v].call = "put", writer'[v].have = Kinds,
             NEW m \in Puts, book[m].sid = writer'[v].sid
      PROVE  m <= writer'[v].put
  <2>1. CASE v # w
    BY <2>1, <1>3, <1>i, <1>w DEF BookOK
  <2>2. CASE v = w
    <3>1. r.call = "put" /\ r.have = Kinds /\ book[m].sid = r.sid /\ r.sid \in Sids
      BY <1>3, <1>w, <2>2
    <3>2. CASE r.put = puts + 1
      BY <3>1, <3>2, <1>1, <1>p, <1>w, <2>2
    <3>3. CASE writer[w].call = "put" /\ r.put = writer[w].put
      BY <3>1, <3>3, <1>i, <1>w, <2>2 DEF BookOK
    <3> QED BY <3>1, <3>2, <3>3
  <2> QED BY <2>1, <2>2
<1>4. BookOK'
  BY <1>1, <1>2, <1>3 DEF BookOK
<1>5. ASSUME NEW m \in Puts, NEW k \in Kinds, <<m, k>> \in skew'
      PROVE  /\ m <= puts'
             /\ \A v \in Writers : writer'[v].call = "put" => writer'[v].put # m
  <2>1. CASE <<m, k>> \in skew
    <3>1. m <= puts /\ \A v \in Writers : writer[v].call = "put" => writer[v].put # m
      BY <1>i, <2>1 DEF SkewOK
    <3>2. r.call = "put" => r.put # m
      BY <3>1, <1>p, <1>w
    <3> QED BY <3>1, <3>2, <1>p, <1>w
  <2>2. CASE <<m, k>> \notin skew
    <3>1. writer[w].call = "put" /\ m = writer[w].put /\ r.call # "put"
      BY <1>5, <2>2
    <3>2. m <= puts
      BY <3>1, <1>i DEF CallOK
    <3>3. \A v \in Writers : v # w /\ writer[v].call = "put" => writer[v].put # m
      BY <3>1, <1>i DEF NumbersOK
    <3> QED BY <3>1, <3>2, <3>3, <1>p, <1>w
  <2> QED BY <2>1, <2>2
<1>6. SkewOK'
  BY <1>5 DEF SkewOK
<1> QED BY <1>4, <1>6

(* Files that lose records or keep them stay in order. *)
LEMMA OrderKept ==
  ASSUME FilesIInv, \A s \in Sids, k \in Kinds : file'[s][k].recs \subseteq file[s][k].recs
  PROVE  OrderOK'
BY DEF FilesIInv, OrderOK

(* A put acknowledged by nobody leaves the acknowledged ones in place. *)
LEMMA NoneAcked ==
  ASSUME FilesIInv, [Next]_vars, acked' = acked
  PROVE  AckedPlaced'
<1>1. \A n \in acked : \A k \in Kinds : PlacedIn(n, k, Durable(book[n].sid, k))'
  BY AckedPlacedStays
<1> QED BY <1>1 DEF AckedPlaced

(* A step of writer w that touches no file, or only syncs one, books       *)
(* nothing, ends nothing half way, and leaves the writer outside the       *)
(* writing of a record.                                                    *)
LEMMA StillStep ==
  ASSUME FilesIInv, [Next]_vars, NEW w \in Writers, NEW r \in Writer, Becomes(w, r),
         UNCHANGED <<book, acked, skew>>, puts' \in {puts, puts + 1},
         \A t \in Sids, j \in Kinds :
           /\ file'[t][j].len = file[t][j].len /\ file'[t][j].recs = file[t][j].recs
           /\ file'[t][j].there = file[t][j].there,
         r.pc \notin {"write", "sync", "header"},
         r.pc = "create" => Owns(w)' = {},
         r.call = "put" =>
           \/ writer[w].call = "put" /\ r.put = writer[w].put
           \/ r.put = puts + 1,
         r.have = Kinds =>
           /\ writer[w].have = Kinds /\ writer[w].pc # "sync"
           /\ r.sid = writer[w].sid /\ r.off = writer[w].off /\ r.moff = writer[w].moff
  PROVE  FilesIInv'
<1>w. /\ writer'[w] = r
      /\ \A v \in Writers : v # w => writer'[v] = writer[v]
      /\ LenOK(w) /\ CallOK(w)
  BY DEF FilesIInv, IInv, TypeOK, Becomes
<1>1. IInv'
  BY NextIInv DEF FilesIInv
<1>2. r.have = Kinds => r.sid \in Sids
  BY <1>w DEF CallOK, Kinds
<1>3. BookOK' /\ SkewOK'
  BY <1>2, BooksKept DEF Kinds
<1>4. \A v \in Writers : v # w => LenOK(v)' /\ PlaceOK(v)'
  BY <1>w, OthersKeep DEF Owns
<1>5. LenOK(w)' /\ PlaceOK(w)'
  <2>1. r.have = Kinds => \A j \in Kinds :
          Clean(r.sid, j)' => Clean(writer[w].sid, j)
    BY <1>2, OnceClean
  <2>2. LenOK(w)'
    BY <1>w, <1>2, <2>1 DEF LenOK, Ahead, Kinds
  <2> QED BY <1>w, <2>2 DEF PlaceOK
<1>6. AckedPlaced' /\ OrderOK'
  BY NoneAcked, OrderKept
<1> QED BY <1>1, <1>3, <1>4, <1>5, <1>6 DEF FilesIInv

(* The locals of a writer whose call failed. *)
LEMMA FailedOffsets ==
  ASSUME IInv, NEW w \in Writers, Becomes(w, Failed(w))
  PROVE  Failed(w).have = Kinds =>
           /\ writer[w].have = Kinds
           /\ Failed(w).sid = writer[w].sid /\ Failed(w).off = writer[w].off
           /\ Failed(w).moff = writer[w].moff
<1>1. writer[w] \in Writer /\ Gone.have # Kinds
  BY DEF IInv, TypeOK, Gone, Kinds
<1> QED BY <1>1 DEF Failed, Returned, Writer

(* A failure that touches no file. *)
LEMMA StillFailure ==
  ASSUME FilesIInv, [Next]_vars, NEW w \in Writers, Becomes(w, Failed(w)),
         UNCHANGED <<file, book, acked, skew, puts>>,
         writer[w].pc # "sync"
  PROVE  FilesIInv'
<1>1. /\ Failed(w) \in Writer /\ Failed(w).call = "none"
      /\ Failed(w).pc \in {"gone", "idle"}
  BY FailedWriter DEF FilesIInv
<1>2. Failed(w).have = Kinds =>
        /\ writer[w].have = Kinds
        /\ Failed(w).sid = writer[w].sid /\ Failed(w).off = writer[w].off
        /\ Failed(w).moff = writer[w].moff
  BY FailedOffsets DEF FilesIInv
<1>3. puts' \in {puts, puts + 1}
  OBVIOUS
<1> DEFINE r == Failed(w)
<1>4. /\ r \in Writer /\ Becomes(w, r)
      /\ r.pc \notin {"write", "sync", "header", "create"} /\ r.call # "put"
      /\ r.have = Kinds =>
           /\ writer[w].have = Kinds /\ writer[w].pc # "sync"
           /\ r.sid = writer[w].sid /\ r.off = writer[w].off /\ r.moff = writer[w].moff
  BY <1>1, <1>2
<1> HIDE DEF r
<1> QED BY <1>3, <1>4, StillStep

(* open, put, close and resolve_stack_ids write nothing. *)
LEMMA CallsStill ==
  ASSUME FilesIInv, [Next]_vars, NEW w \in Writers,
         \/ Open(w) \/ (\E n \in Sizes : Put(w, n)) \/ Close(w)
         \/ ResolveRemote(w) \/ ResolveLocal(w) \/ ProbeTaken(w) \/ ProbeFree(w)
  PROVE  FilesIInv'
<1> DEFINE x == writer[w]
<1>1. /\ x \in Writer /\ CallOK(w) /\ writer'[w] \in Writer
      /\ UNCHANGED <<file, book, acked, skew>> /\ puts' \in {puts, puts + 1}
  <2>1. IInv /\ IInv'
    BY NextIInv DEF FilesIInv
  <2> QED
    BY <2>1 DEF IInv, TypeOK, Open, Put, Close, ResolveRemote, ResolveLocal,
       ProbeTaken, ProbeFree
<1>2. PICK r \in Writer :
        /\ Becomes(w, r)
        /\ r.pc \notin {"write", "sync", "header"}
        /\ r.pc = "create" => r.kind = "data"
        /\ r.pc = "create" => r.have = {}
        /\ r.call = "put" => (x.call = "put" /\ r.put = x.put) \/ r.put = puts + 1
        /\ r.have = Kinds =>
             /\ x.have = Kinds /\ x.pc # "sync"
             /\ r.sid = x.sid /\ r.off = x.off /\ r.moff = x.moff
  <2>1. CASE Open(w)
    <3> DEFINE r == [Gone EXCEPT !.pc = "resolve", !.call = "open"]
    <3>1. r \in Writer /\ r.pc = "resolve" /\ r.call = "open" /\ r.have = {}
      BY DEF Gone, Writer, Kinds
    <3>2. Becomes(w, r) /\ r.have # Kinds
      BY <2>1, <3>1 DEF Open, Kinds
    <3> HIDE DEF r
    <3> QED BY <3>1, <3>2
  <2>2. ASSUME NEW n \in Sizes, Put(w, n)
        PROVE  \E r \in Writer :
                 /\ Becomes(w, r) /\ r.pc \in {"flush", "build"} /\ r.put = puts + 1
                 /\ r.have = x.have /\ x.pc # "sync"
                 /\ r.sid = x.sid /\ r.off = x.off /\ r.moff = x.moff
    <3> DEFINE pc == IF NeedsRotation(w, n) THEN "flush" ELSE "build"
               r == [x EXCEPT !.call = "put", !.size = n, !.put = puts + 1,
                              !.pc = pc, !.kind = "data"]
    <3>1. n \in Nat /\ puts + 1 \in Nat /\ pc \in {"flush", "build"}
      BY SizesAssumption, BoundsAssumption DEF FilesIInv, IInv, TypeOK
    <3>2. Becomes(w, r) /\ x.pc # "sync"
      BY <2>2 DEF Put, At
    <3> HIDE DEF pc, x
    <3>3. /\ r \in Writer /\ r.pc = pc /\ r.put = puts + 1
          /\ r.have = x.have /\ r.sid = x.sid /\ r.off = x.off /\ r.moff = x.moff
      BY <1>1, <3>1 DEF Writer, Kinds
    <3> HIDE DEF r
    <3> QED BY <3>1, <3>2, <3>3
  <2>3. CASE Close(w)
    <3> DEFINE r == [x EXCEPT !.pc = "flush", !.call = "close", !.kind = "data"]
    <3>1. Becomes(w, r) /\ x.pc # "sync"
      BY <2>3 DEF Close, At
    <3> HIDE DEF x
    <3>2. /\ r \in Writer /\ r.pc = "flush" /\ r.call = "close"
          /\ r.have = x.have /\ r.sid = x.sid /\ r.off = x.off /\ r.moff = x.moff
      BY <1>1 DEF Writer, Kinds
    <3> HIDE DEF r
    <3> QED BY <3>1, <3>2
  <2>4. ASSUME NEW pc \in {"probe", "create"}, NEW s \in Nat,
               x.pc \in {"resolve", "probe"},
               Becomes(w, [x EXCEPT !.pc = pc, !.kind = "data", !.new = s])
        PROVE  \E r \in Writer :
                 /\ Becomes(w, r) /\ r.pc \in {"probe", "create"} /\ r.kind = "data"
                 /\ r.call = x.call /\ r.put = x.put /\ r.have = {}
    <3> DEFINE r == [x EXCEPT !.pc = pc, !.kind = "data", !.new = s]
    <3>1. x.have = {}
      BY <1>1, <2>4 DEF CallOK
    <3>2. Becomes(w, r)
      BY <2>4
    <3> HIDE DEF x
    <3>3. /\ r \in Writer /\ r.pc = pc /\ r.kind = "data" /\ r.call = x.call
          /\ r.put = x.put /\ r.have = x.have
      BY <1>1 DEF Writer, Kinds
    <3> HIDE DEF r
    <3> QED BY <3>1, <3>2, <3>3
  <2>5. {} # Kinds
    BY DEF Kinds
  <2>6. CASE ResolveRemote(w)
    <3>1. nextId \in Nat /\ x.pc = "resolve"
      BY <2>6 DEF ResolveRemote, At, FilesIInv, IInv, TypeOK
    <3>2. Becomes(w, [x EXCEPT !.pc = "create", !.kind = "data", !.new = nextId])
      BY <2>6 DEF ResolveRemote
    <3> HIDE DEF x
    <3> QED BY <2>4, <2>5, <3>1, <3>2
  <2>7. CASE ResolveLocal(w)
    <3>1. PICK now \in Clock : Becomes(w, [x EXCEPT !.pc = "probe", !.new = now])
      BY <2>7 DEF ResolveLocal
    <3>2. now \in Nat /\ x.pc = "resolve" /\ x.kind = "data"
      <4>1. now \in Nat
        BY ModeAssumption, BoundsAssumption DEF Sids
      <4>2. x.pc = "resolve"
        BY <2>7 DEF ResolveLocal, At
      <4> QED BY <1>1, <4>1, <4>2 DEF CallOK
    <3> HIDE DEF x
    <3>3. [x EXCEPT !.pc = "probe", !.new = now]
            = [x EXCEPT !.pc = "probe", !.kind = "data", !.new = now]
      BY <1>1, <3>2 DEF Writer
    <3> QED BY <2>4, <2>5, <3>1, <3>2, <3>3
  <2>8. CASE ProbeTaken(w)
    <3> DEFINE next == NextCandidate(x.new)
    <3>1. x.pc = "probe" /\ x.kind = "data" /\ next \in Nat
      BY <1>1, <2>8 DEF ProbeTaken, At, CallOK, NextCandidate, Writer
    <3>2. Becomes(w, [x EXCEPT !.new = next])
      BY <2>8 DEF ProbeTaken
    <3> HIDE DEF x, next
    <3>3. [x EXCEPT !.new = next] = [x EXCEPT !.pc = "probe", !.kind = "data", !.new = next]
      BY <1>1, <3>1 DEF Writer
    <3> QED BY <2>4, <2>5, <3>1, <3>2, <3>3
  <2>9. CASE ProbeFree(w)
    <3>1. x.pc = "probe" /\ x.new \in Nat
      BY <1>1, <2>9 DEF ProbeFree, At, Writer
    <3>2. Becomes(w, [x EXCEPT !.pc = "create", !.kind = "data"])
      BY <2>9 DEF ProbeFree
    <3> HIDE DEF x
    <3>3. [x EXCEPT !.pc = "create", !.kind = "data"]
            = [x EXCEPT !.pc = "create", !.kind = "data", !.new = x.new]
      BY <1>1 DEF Writer
    <3> QED BY <2>4, <2>5, <3>1, <3>2, <3>3
  <2> QED BY <2>1, <2>2, <2>3, <2>5, <2>6, <2>7, <2>8, <2>9
<1>3. writer'[w] = r
  BY <1>2 DEF FilesIInv, IInv, TypeOK, Becomes
<1>4. r.pc = "create" => Owns(w)' = {}
  BY <1>2, <1>3 DEF Owns, At
<1> QED BY <1>1, <1>2, <1>4, StillStep

(* Nor do the errors that come before a write. *)
LEMMA FailuresStill ==
  ASSUME FilesIInv, [Next]_vars, NEW w \in Writers,
         \/ ResolveRemoteFails(w) \/ ProbeFails(w) \/ CreateExists(w) \/ CreateFails(w)
         \/ FlushFails(w)
  PROVE  FilesIInv'
<1>1. /\ Becomes(w, Failed(w)) /\ UNCHANGED <<file, book, acked, skew, puts>>
      /\ writer[w].pc # "sync"
  BY DEF ResolveRemoteFails, ProbeFails, CreateExists, CreateFails, FlushFails, At
<1> QED BY <1>1, StillFailure

(* flush_and_close moves no record and no end of a file. *)
LEMMA SyncedStill ==
  ASSUME IInv, NEW s \in Sids, NEW k \in Kinds,
         file' = [file EXCEPT ![s][k] = Synced(file[s][k])]
  PROVE  \A t \in Sids, j \in Kinds :
           /\ file'[t][j].len = file[t][j].len /\ file'[t][j].recs = file[t][j].recs
           /\ file'[t][j].there = file[t][j].there
<1> DEFINE g == file[s][k]
           f == Synced(g)
<1>1. g \in File /\ file \in [Sids -> [Kinds -> File]]
  BY DEF IInv, TypeOK
<1>2. f.len = g.len /\ f.recs = g.recs /\ f.there = g.there
  <2> HIDE DEF g
  <2> QED BY <1>1, SyncedFile
<1> HIDE DEF f
<1>3. file' = [file EXCEPT ![s][k] = f]
  BY DEF f
<1>4. file'[s][k] = f /\ \A t \in Sids, j \in Kinds : t # s \/ j # k => file'[t][j] = file[t][j]
  BY <1>1, <1>3
<1> QED BY <1>2, <1>4

(* So does a flush as a whole: it only makes records safe. *)
LEMMA FlushStill ==
  ASSUME FilesIInv, [Next]_vars, NEW w \in Writers, Flush(w)
  PROVE  FilesIInv'
<1> DEFINE x == writer[w]
           y == [x EXCEPT !.have = @ \ {x.kind}]
<1>1. /\ x.pc = "flush" /\ x \in Writer /\ x.kind \in Kinds
      /\ x.have # {} => x.sid \in Sids
      /\ file' = IF x.kind \in x.have
                   THEN [file EXCEPT ![x.sid][x.kind] = Synced(file[x.sid][x.kind])]
                   ELSE file
      /\ UNCHANGED <<book, puts, acked, skew>>
  BY DEF Flush, At, FilesIInv, IInv, TypeOK, CallOK, Writer
<1>2. \A t \in Sids, j \in Kinds :
        /\ file'[t][j].len = file[t][j].len /\ file'[t][j].recs = file[t][j].recs
        /\ file'[t][j].there = file[t][j].there
  <2>1. CASE x.kind \notin x.have
    BY <1>1, <2>1
  <2>2. CASE x.kind \in x.have
    <3>1. PICK s \in Sids, k \in Kinds : s = x.sid /\ k = x.kind
      BY <1>1, <2>2
    <3>2. file' = [file EXCEPT ![s][k] = Synced(file[s][k])]
      BY <1>1, <2>2, <3>1
    <3> QED BY <3>2, SyncedStill DEF FilesIInv
  <2> QED BY <2>1, <2>2
<1>3. PICK r \in Writer : /\ Becomes(w, r)
                          /\ r.pc \notin {"write", "sync", "header", "create"}
                          /\ r.call = "put" => x.call = "put" /\ r.put = x.put
                          /\ r.have # Kinds
  <2>1. y \in Writer /\ y.pc = "flush" /\ y.call = x.call /\ y.put = x.put
        /\ y.have = x.have \ {x.kind}
    <3> HIDE DEF x
    <3> QED BY <1>1 DEF Writer
  <2>2. y.have # Kinds
    BY <1>1, <2>1
  <2>3. \/ Becomes(w, [y EXCEPT !.kind = NextKind(x.kind)])
        \/ Becomes(w, [y EXCEPT !.kind = "data", !.pc = "resolve"])
        \/ Becomes(w, Returned(y))
    BY DEF Flush
  <2>4. NextKind(x.kind) \in Kinds
    BY DEF NextKind, Kinds
  <2> DEFINE k == NextKind(x.kind)
  <2> HIDE DEF x, y, k
  <2>5. CASE Becomes(w, [y EXCEPT !.kind = k])
    <3> DEFINE r == [y EXCEPT !.kind = k]
    <3>1. r \in Writer /\ r.pc = "flush" /\ r.call = x.call /\ r.put = x.put
          /\ r.have # Kinds
      BY <2>1, <2>2, <2>4 DEF Writer, k
    <3>2. Becomes(w, r)
      BY <2>5
    <3> HIDE DEF r
    <3> QED BY <3>1, <3>2
  <2>6. CASE Becomes(w, [y EXCEPT !.kind = "data", !.pc = "resolve"])
    <3> DEFINE r == [y EXCEPT !.kind = "data", !.pc = "resolve"]
    <3>1. r \in Writer /\ r.pc = "resolve" /\ r.call = x.call /\ r.put = x.put
          /\ r.have # Kinds
      BY <2>1, <2>2 DEF Writer, Kinds
    <3>2. Becomes(w, r)
      BY <2>6
    <3> HIDE DEF r
    <3> QED BY <3>1, <3>2
  <2>7. CASE Becomes(w, Returned(y))
    <3>1. Returned(y) \in Writer /\ Returned(y).pc = "idle" /\ Returned(y).call = "none"
          /\ Returned(y).have # Kinds
      BY <2>1, <2>2, ReturnedWriter
    <3> QED BY <2>7, <3>1
  <2> QED BY <2>3, <2>5, <2>6, <2>7 DEF k
<1>4. puts' \in {puts, puts + 1} /\ UNCHANGED <<book, acked, skew>>
  BY <1>1
<1> QED BY <1>2, <1>3, <1>4, StillStep

(* A step on a stack that writer w owns, or that is not there yet, leaves  *)
(* the stacks of the other writers alone.                                  *)
LEMMA OthersFiles ==
  ASSUME IInv, NEW w \in Writers, NEW s \in Sids, NEW k \in Kinds, NEW f,
         s \in Owns(w) \/ ~file[s]["data"].there,
         file' = [file EXCEPT ![s][k] = f]
  PROVE  \A v \in Writers : v # w => \A t \in Owns(v), j \in Kinds :
           file'[t][j].len = file[t][j].len /\ file'[t][j].recs = file[t][j].recs
<1>1. \A v \in Writers : v # w => s \notin Owns(v)
  BY DEF IInv, OwnersOK, ExclusiveStack
<1>2. \A t \in Sids : t # s => file'[t] = file[t]
  BY DEF IInv, TypeOK
<1>3. \A v \in Writers : \A t \in Owns(v) : t \in Sids
  BY DEF Owns
<1> QED BY <1>1, <1>2, <1>3

(* A step of writer w on a stack it is opening: the file it writes to holds *)
(* no record, and no other stack and no book entry changes.                *)
OpeningChange(w, r, s, k, f) ==
  /\ Becomes(w, r) /\ file' = [file EXCEPT ![s][k] = f]
  /\ f.recs = {} /\ (k = "data" \/ file[s][k].there => f.there)
  /\ \/ s \in Owns(w) /\ writer[w].pc \in {"create", "header"}
     \/ ~file[s]["data"].there
  /\ UNCHANGED <<book, acked, skew, puts>>
  /\ r.pc \notin {"write", "sync"}
  /\ r.new = s \/ r.pc \notin {"create", "header"}
  /\ r.call = "put" => writer[w].call = "put" /\ r.put = writer[w].put
  /\ r.have = {} \/ (r.have = Kinds /\ r.sid = s)

(* It keeps the invariant when the lengths are what the headers make them. *)
LEMMA OpeningStep ==
  ASSUME FilesIInv, [Next]_vars, NEW w \in Writers, NEW r \in Writer,
         NEW s \in Sids, NEW k \in Kinds, NEW f,
         OpeningChange(w, r, s, k, f), LenOK(w)'
  PROVE  FilesIInv'
<1>a. /\ Becomes(w, r) /\ file' = [file EXCEPT ![s][k] = f]
      /\ f.recs = {} /\ (k = "data" \/ file[s][k].there => f.there)
      /\ \/ s \in Owns(w) /\ writer[w].pc \in {"create", "header"}
         \/ ~file[s]["data"].there
  BY DEF OpeningChange
<1>b. /\ UNCHANGED <<book, acked, skew, puts>>
      /\ r.pc \notin {"write", "sync"}
      /\ r.new = s \/ r.pc \notin {"create", "header"}
      /\ r.call = "put" => writer[w].call = "put" /\ r.put = writer[w].put
      /\ r.have = {} \/ (r.have = Kinds /\ r.sid = s)
  BY DEF OpeningChange
<1>w. /\ writer'[w] = r
      /\ \A v \in Writers : v # w => writer'[v] = writer[v]
  BY <1>a DEF FilesIInv, IInv, TypeOK, Becomes
<1>f. /\ file'[s][k] = f
      /\ \A t \in Sids, j \in Kinds : t # s \/ j # k => file'[t][j] = file[t][j]
  BY <1>a DEF FilesIInv, IInv, TypeOK
<1>1. IInv'
  BY NextIInv DEF FilesIInv
<1>2. /\ r.pc \in {"create", "header"} => \A t \in Owns(w)' :
           \/ t \in Owns(w) /\ writer[w].pc \in {"create", "header"}
           \/ ~file[t]["data"].there
  <2>1. r.pc \in {"create", "header"} => r.have = {} \/ r.sid = s
    BY <1>b
  <2>2. r.pc \in {"create", "header"} => \A t \in Owns(w)' : t = s
    BY <1>b, <1>w, <2>1 DEF Owns
  <2> QED BY <1>a, <2>2
<1>3. \A m \in Puts : book[m].sid # s
  BY <1>a DEF FilesIInv, BookOK
<1>4. \A t \in Sids : file[t]["data"].there => file'[t]["data"].there
  BY <1>a, <1>f DEF Kinds
<1>5. BookOK' /\ SkewOK'
  <2>1. puts' \in {puts, puts + 1}
    BY <1>b
  <2>2. r.have = Kinds => r.sid \in Sids /\ \A m \in Puts : book[m].sid # r.sid
    BY <1>b, <1>3 DEF Kinds
  <2> QED BY <1>a, <1>b, <1>2, <1>4, <2>1, <2>2, BooksKept
<1>6. \A v \in Writers : v # w => LenOK(v)' /\ PlaceOK(v)'
  <2>1. \A v \in Writers : v # w => \A t \in Owns(v), j \in Kinds :
           file'[t][j].len = file[t][j].len /\ file'[t][j].recs = file[t][j].recs
    BY <1>a, OthersFiles DEF FilesIInv
  <2> QED BY <1>b, <1>w, <2>1, OthersKeep
<1>7. PlaceOK(w)'
  BY <1>b, <1>w DEF PlaceOK
<1>8. AckedPlaced' /\ OrderOK'
  <2>1. \A t \in Sids, j \in Kinds : file'[t][j].recs \subseteq file[t][j].recs
    BY <1>a, <1>f
  <2> QED BY <1>b, <2>1, NoneAcked, OrderKept
<1> QED BY <1>1, <1>5, <1>6, <1>7, <1>8 DEF FilesIInv

(* create_new (writer.rs:127-141) makes an empty file. *)
LEMMA CreateFiles ==
  ASSUME FilesIInv, [Next]_vars, NEW w \in Writers, Create(w)
  PROVE  FilesIInv'
<1> DEFINE s == writer[w].new
           k == writer[w].kind
           f == [NoFile EXCEPT !.there = TRUE]
           r == [writer[w] EXCEPT
                   !.pc = IF k = "meta" THEN "header" ELSE "create",
                   !.kind = IF k = "meta" THEN "data" ELSE NextOpened(k)]
<1>1. /\ writer[w].pc = "create" /\ ~file[s][k].there
      /\ file' = [file EXCEPT ![s][k] = f]
      /\ Becomes(w, r)
      /\ UNCHANGED <<book, puts, acked, skew>>
      /\ writer[w] \in Writer /\ IInv
  BY DEF Create, At, Taken, FilesIInv, IInv, TypeOK
<1>2. f.there /\ f.recs = {}
  BY DEF NoFile
<1>3. k # "data" \/ ~file[s]["data"].there
  BY <1>1
<1>4. /\ s \in Sids /\ k \in Kinds /\ writer[w].have = {}
      /\ s \in Owns(w) \/ (k = "data" /\ ~file[s]["data"].there)
  BY <1>1, <1>3, OpeningEmpty
<1> HIDE DEF f
<1>6. /\ r \in Writer /\ r.pc \in {"create", "header"}
      /\ r.pc = "header" => r.kind = "data"
      /\ r.have = {} /\ r.new = s /\ r.call = writer[w].call
      /\ r.put = writer[w].put
  BY <1>1, <1>4 DEF Writer, Kinds, NextOpened
<1> HIDE DEF r
<1>7. writer'[w] = r
  BY <1>1 DEF IInv, TypeOK, Becomes
<1>8. LenOK(w)'
  BY <1>6, <1>7 DEF LenOK, Kinds
<1>9. (s \in Owns(w) /\ writer[w].pc \in {"create", "header"}) \/ ~file[s]["data"].there
  BY <1>1, <1>4
<1>10. /\ k = "data" \/ file[s][k].there => f.there
       /\ r.pc \notin {"write", "sync"}
  BY <1>2, <1>6
<1> HIDE DEF s, k
<1>11. OpeningChange(w, r, s, k, f)
  BY <1>1, <1>2, <1>4, <1>6, <1>9, <1>10 DEF OpeningChange
<1> QED BY <1>4, <1>6, <1>8, <1>11, OpeningStep

(* A header cut off: the writer gives the stack up (writer.rs:143-157). *)
LEMMA HeaderFailsFiles ==
  ASSUME FilesIInv, [Next]_vars, NEW w \in Writers, HeaderFails(w)
  PROVE  FilesIInv'
<1> DEFINE s == writer[w].new
           k == writer[w].kind
           r == Failed(w)
<1>1. /\ writer[w].pc = "header" /\ Becomes(w, r)
      /\ UNCHANGED <<book, puts, acked, skew>>
      /\ writer[w] \in Writer /\ IInv
  BY DEF HeaderFails, At, FilesIInv, IInv, TypeOK
<1>2. PICK part \in 0 .. HeadSize(k) : file' = [file EXCEPT ![s][k].len = part]
  BY DEF HeaderFails
<1>3. /\ s \in Sids /\ k \in Kinds /\ writer[w].have = {}
      /\ file[s][k] \in File /\ file[s][k].recs = {}
      /\ s \in Owns(w) /\ file[s]["data"].there
  BY <1>1, OpeningEmpty
<1> DEFINE f == [file[s][k] EXCEPT !.len = part]
<1>4. f.there = file[s][k].there /\ f.recs = {}
  BY <1>3 DEF File
<1>5. file' = [file EXCEPT ![s][k] = f]
  BY <1>1, <1>2, <1>3 DEF IInv, TypeOK
<1>6. /\ r \in Writer /\ r.call = "none" /\ r.pc \in {"gone", "idle"}
      /\ r.have # Kinds
  BY <1>1, <1>3, FailedWriter DEF Kinds
<1>7. r.have = {}
  BY <1>1, <1>3 DEF Failed, Gone, Returned, Writer
<1> HIDE DEF r, f
<1>8. writer'[w] = r
  BY <1>1 DEF IInv, TypeOK, Becomes
<1>9. LenOK(w)'
  BY <1>6, <1>8 DEF LenOK
<1>10. /\ k = "data" \/ file[s][k].there => f.there
       /\ r.pc \notin {"write", "sync"}
       /\ r.pc \notin {"create", "header"} /\ r.call # "put"
       /\ s \in Owns(w) /\ writer[w].pc \in {"create", "header"}
  BY <1>1, <1>3, <1>4, <1>6
<1> HIDE DEF s, k
<1>11. OpeningChange(w, r, s, k, f)
  BY <1>1, <1>3, <1>4, <1>5, <1>6, <1>7, <1>10 DEF OpeningChange
<1> QED BY <1>3, <1>6, <1>9, <1>11, OpeningStep

(* The offsets set when a stack is opened (writer.rs:159-166). *)
LEMMA OpenedOffsets ==
  ASSUME NEW x \in Writer
  PROVE  /\ Opened(x).off = HeadSize("data") /\ Opened(x).moff = HeadSize("meta")
         /\ Returned(Opened(x)).off = HeadSize("data")
         /\ Returned(Opened(x)).moff = HeadSize("meta")
<1>1. /\ Opened(x).off = HeadSize("data") /\ Opened(x).moff = HeadSize("meta")
      /\ Opened(x) \in Writer
  BY OpenedWriter DEF Opened, Writer
<1> QED BY <1>1 DEF Returned, Writer

(* The headers, one by one, and then the offsets (writer.rs:143-166). *)
LEMMA HeaderFiles ==
  ASSUME FilesIInv, [Next]_vars, NEW w \in Writers, Header(w)
  PROVE  FilesIInv'
<1> DEFINE x == writer[w]
           s == writer[w].new
           k == writer[w].kind
           f == [file[s][k] EXCEPT !.len = HeadSize(k)]
<1>1. /\ x.pc = "header"
      /\ file' = [file EXCEPT ![s][k].len = HeadSize(k)]
      /\ UNCHANGED <<book, puts, acked, skew>>
      /\ x \in Writer /\ IInv /\ LenOK(w)
  BY DEF Header, At, FilesIInv, IInv, TypeOK
<1>2. /\ s \in Sids /\ k \in Kinds /\ x.have = {}
      /\ x.call \in {"open", "put"}
      /\ file[s][k] \in File /\ file[s][k].recs = {}
      /\ s \in Owns(w) /\ file[s]["data"].there
  BY <1>1, OpeningEmpty
<1>3. f.there = file[s][k].there /\ f.recs = {} /\ f.len = HeadSize(k)
  BY <1>2 DEF File
<1>4. file' = [file EXCEPT ![s][k] = f]
  BY <1>1, <1>2 DEF IInv, TypeOK
<1>5. \A j \in Kinds :
        file'[s][j].len = IF j = k THEN HeadSize(k) ELSE file[s][j].len
  <2>1. file \in [Sids -> [Kinds -> File]]
    BY <1>1 DEF IInv, TypeOK
  <2>2. file'[s][k] = f /\ \A j \in Kinds : j # k => file'[s][j] = file[s][j]
    <3> HIDE DEF s, k, f
    <3> QED BY <1>2, <1>4, <2>1
  <2> HIDE DEF s, k, f
  <2> QED BY <1>3, <2>2
<1>l. /\ k # "data" => file[s]["data"].len = HeadSize("data")
      /\ k = "meta" => file[s]["idx"].len = HeadSize("idx")
  BY <1>1 DEF LenOK
<1> HIDE DEF f
<1>6. ASSUME NEW r \in Writer, Becomes(w, r),
             r.pc \in {"header", "idle", "build"},
             r.call = "put" => x.call = "put" /\ r.put = x.put,
             r.pc = "header" => k # "meta" /\ r.kind = NextOpened(k) /\ r.have = {} /\ r.new = s,
             r.pc # "header" =>
               /\ k = "meta" /\ r.have = Kinds /\ r.sid = s
               /\ r.off = HeadSize("data") /\ r.moff = HeadSize("meta")
      PROVE  FilesIInv'
  <2>1. writer'[w] = r
    BY <1>1, <1>6 DEF IInv, TypeOK, Becomes
  <2>2. LenOK(w)'
    <3>1. CASE r.pc = "header"
      <4>1. /\ r.kind # "data" => file'[s]["data"].len = HeadSize("data")
            /\ r.kind = "meta" => file'[s]["idx"].len = HeadSize("idx")
        BY <1>2, <1>5, <1>6, <1>l, <3>1 DEF NextOpened, Kinds
      <4> QED BY <1>6, <2>1, <3>1, <4>1 DEF LenOK, Kinds
    <3>2. CASE r.pc # "header"
      <4>1. /\ file'[s]["data"].len = HeadSize("data")
            /\ file'[s]["meta"].len = HeadSize("meta")
            /\ file'[s]["idx"].len = HeadSize("idx")
        BY <1>5, <1>6, <1>l, <3>2 DEF Kinds
      <4>2. IdxPlace(HeadSize("idx"))
        BY FirstRecord
      <4>3. /\ Ahead(r, "data") = 0 /\ Ahead(r, "meta") = 0
            /\ r.off \in Nat /\ r.moff \in Nat
        BY <1>6 DEF Ahead, Writer
      <4>4. /\ file'[s]["data"].len = r.off + Ahead(r, "data")
            /\ file'[s]["meta"].len = r.moff + Ahead(r, "meta")
            /\ IdxPlace(file'[s]["idx"].len)
        BY <1>6, <3>2, <4>1, <4>2, <4>3
      <4>5. (Ahead(writer[w], "data") = 0 /\ Ahead(writer[w], "meta") = 0)'
        BY <1>6, <2>1 DEF Ahead
      <4> QED BY <1>6, <2>1, <3>2, <4>3, <4>4, <4>5 DEF LenOK
    <3> QED BY <3>1, <3>2
  <2>3. /\ k = "data" \/ file[s][k].there => f.there
        /\ r.pc \notin {"write", "sync"}
        /\ s \in Owns(w) /\ writer[w].pc \in {"create", "header"}
        /\ r.new = s \/ r.pc \notin {"create", "header"}
        /\ r.have = {} \/ (r.have = Kinds /\ r.sid = s)
        /\ r.call = "put" => writer[w].call = "put" /\ r.put = writer[w].put
    BY <1>1, <1>2, <1>3, <1>6
  <2>4. /\ r \in Writer /\ Becomes(w, r)
        /\ UNCHANGED <<book, acked, skew, puts>>
        /\ s \in Sids /\ k \in Kinds /\ f.recs = {}
    BY <1>1, <1>2, <1>3, <1>6
  <2> HIDE DEF s, k, x
  <2>5. OpeningChange(w, r, s, k, f)
    BY <1>4, <2>3, <2>4 DEF OpeningChange
  <2> QED BY <2>2, <2>4, <2>5, OpeningStep
<1>7. CASE k # "meta" /\ Becomes(w, [x EXCEPT !.kind = NextOpened(k)])
  <2> DEFINE r == [x EXCEPT !.kind = NextOpened(k)]
  <2>1. NextOpened(k) \in Kinds
    BY DEF NextOpened, Kinds
  <2>2. /\ r \in Writer /\ r.pc = "header" /\ r.kind = NextOpened(k) /\ r.have = {}
        /\ r.new = s /\ r.call = x.call /\ r.put = x.put
    BY <1>1, <1>2, <2>1 DEF Writer
  <2>3. Becomes(w, r) /\ k # "meta"
    BY <1>7
  <2> HIDE DEF r
  <2> QED BY <1>6, <2>2, <2>3
<1>8. CASE k = "meta" /\ x.call = "open" /\ Becomes(w, Returned(Opened(x)))
  <2> DEFINE r == Returned(Opened(x))
  <2>1. /\ r \in Writer /\ r.pc = "idle" /\ r.call = "none"
        /\ r.have = Kinds /\ r.sid = s
        /\ r.off = HeadSize("data") /\ r.moff = HeadSize("meta")
    BY <1>1, OpenedWriter, ReturnedWriter, OpenedOffsets
  <2>2. Becomes(w, r) /\ k = "meta"
    BY <1>8
  <2> HIDE DEF r
  <2> QED BY <1>6, <2>1, <2>2
<1>9. CASE k = "meta" /\ x.call = "put" /\ Becomes(w, [Opened(x) EXCEPT !.pc = "build"])
  <2> DEFINE o == Opened(x)
             r == [o EXCEPT !.pc = "build"]
  <2>1. /\ o \in Writer /\ o.call = "put" /\ o.have = Kinds /\ o.sid = s /\ o.put = x.put
        /\ o.off = HeadSize("data") /\ o.moff = HeadSize("meta")
    BY <1>1, <1>9, OpenedWriter, OpenedOffsets
  <2>2. Becomes(w, r) /\ k = "meta"
    BY <1>9
  <2> HIDE DEF o
  <2>3. /\ r \in Writer /\ r.pc = "build" /\ r.call = "put" /\ r.have = Kinds
        /\ r.sid = s /\ r.put = x.put
        /\ r.off = HeadSize("data") /\ r.moff = HeadSize("meta")
    BY <2>1 DEF Writer
  <2> HIDE DEF r
  <2> QED BY <1>6, <1>9, <2>2, <2>3
<1> QED BY <1>7, <1>8, <1>9 DEF Header

(* Booking a put that wrote nothing yet moves nothing. *)
LEMMA BuildFiles ==
  ASSUME FilesIInv, [Next]_vars, NEW w \in Writers, Build(w)
  PROVE  FilesIInv'
<1> USE BoundsAssumption
<1> DEFINE x == writer[w]
           b == [sid |-> x.sid, off |-> x.off, moff |-> x.moff, size |-> x.size]
           r == [x EXCEPT !.pc = "write", !.kind = "data"]
<1>1. /\ x.pc = "build"
      /\ book' = [book EXCEPT ![x.put] = b]
      /\ Becomes(w, r)
      /\ UNCHANGED <<file, puts, acked, skew>>
  BY DEF Build, At
<1>2. /\ x \in Writer /\ x.call = "put" /\ x.have = Kinds /\ x.sid \in Sids
      /\ x.put \in Puts /\ x.put <= puts
      /\ IInv /\ IInv' /\ BookOK /\ SkewOK /\ LenOK(w) /\ NumbersOK
  BY <1>1, NextIInv DEF FilesIInv, IInv, TypeOK, CallOK, Kinds
<1>3. b.sid = x.sid /\ b.moff = x.moff
  OBVIOUS
<1>4. /\ r \in Writer /\ r.pc = "write" /\ r.call = "put" /\ r.kind = "data"
      /\ r.have = Kinds /\ r.sid = x.sid /\ r.off = x.off /\ r.moff = x.moff
      /\ r.put = x.put /\ r.size = x.size
  BY <1>2 DEF Writer, Kinds
<1>s. x.sid \in Owns(w)
  BY <1>2 DEF Owns, Kinds
<1> HIDE DEF b, r
<1>w. /\ writer'[w] = r
      /\ \A v \in Writers : v # w => writer'[v] = writer[v]
  BY <1>1, <1>2 DEF IInv, TypeOK, Becomes
<1>b. /\ book'[x.put] = b
      /\ \A n \in Puts : n # x.put => book'[n] = book[n]
  BY <1>1, <1>2 DEF IInv, TypeOK
<1>n. \A v \in Writers : v # w /\ writer[v].call = "put" => writer[v].put # x.put
  BY <1>2 DEF NumbersOK
<1>o. /\ \A v \in Writers : Owns(v)' = Owns(v)
      /\ \A v \in Writers : v # w => x.sid \notin Owns(v)
  <2>1. \A v \in Writers : Owns(v)' = Owns(v)
    BY <1>1, <1>2, <1>4, <1>w DEF Owns, At, Kinds
  <2> QED BY <1>2, <1>s, <2>1 DEF IInv, OwnersOK, ExclusiveStack
<1>5. BookOK'
  <2>1. ASSUME NEW m \in Puts, book'[m].sid \in Sids
        PROVE  m <= puts' /\ file'[book'[m].sid]["data"].there
    <3>1. CASE m = x.put
      BY <3>1, <1>1, <1>2, <1>3, <1>b, <1>s DEF IInv, OwnersOK
    <3>2. CASE m # x.put
      BY <2>1, <3>2, <1>1, <1>2, <1>b DEF BookOK
    <3> QED BY <3>1, <3>2
  <2>2. ASSUME NEW v \in Writers, NEW s \in Owns(v)',
               writer'[v].pc \in {"create", "header"}, NEW m \in Puts
        PROVE  book'[m].sid # s
    <3>1. v # w /\ writer'[v] = writer[v] /\ s \in Owns(v) /\ s # x.sid
      BY <2>2, <1>4, <1>w, <1>o
    <3>2. book[m].sid # s
      BY <2>2, <3>1, <1>2 DEF BookOK
    <3> QED BY <3>1, <3>2, <1>3, <1>b
  <2>3. ASSUME NEW v \in Writers, writer'[v].call = "put", writer'[v].have = Kinds,
               NEW m \in Puts, book'[m].sid = writer'[v].sid
        PROVE  m <= writer'[v].put
    <3>1. CASE v = w
      <4>1. CASE m = x.put
        BY <3>1, <4>1, <1>w, <1>4, <1>2 DEF Puts
      <4>2. CASE m # x.put
        BY <2>3, <3>1, <4>2, <1>w, <1>4, <1>b, <1>2 DEF BookOK
      <4> QED BY <4>1, <4>2
    <3>2. CASE v # w
      <4>1. writer'[v] = writer[v] /\ writer[v].sid \in Owns(v)
        BY <2>3, <3>2, <1>w, <1>2 DEF IInv, CallOK, Owns, Kinds
      <4>2. m # x.put
        BY <2>3, <3>2, <4>1, <1>o, <1>b, <1>3
      <4> QED BY <2>3, <4>1, <4>2, <1>b, <1>2 DEF BookOK
    <3> QED BY <3>1, <3>2
  <2> QED BY <2>1, <2>2, <2>3 DEF BookOK
<1>6. SkewOK'
  BY <1>1, <1>2, <1>4, <1>w DEF SkewOK
<1>7. \A v \in Writers : v # w => LenOK(v)' /\ PlaceOK(v)'
  <2> SUFFICES ASSUME NEW v \in Writers, v # w PROVE LenOK(v)' /\ PlaceOK(v)'
    OBVIOUS
  <2>1. writer[v].pc \in {"write", "sync"} => book'[writer[v].put] = book[writer[v].put]
    BY <1>2, <1>b, <1>n, WritingPut
  <2> QED BY <1>1, <1>w, <2>1, OthersKeep
<1>8. LenOK(w)'
  <2>1. PICK s \in Sids : s = x.sid
    BY <1>2
  <2>2. \A j \in Kinds : Clean(s, j)' => Clean(s, j)
    BY OnceClean
  <2>3. /\ writer'[w].sid = s /\ writer'[w].have = Kinds /\ writer'[w].pc = "write"
        /\ writer'[w].off = x.off /\ writer'[w].moff = x.moff
    BY <1>4, <1>w, <2>1
  <2> QED BY <1>1, <1>2, <2>1, <2>2, <2>3 DEF LenOK, Ahead, Kinds
<1>9. PlaceOK(w)'
  <2>1. \A j \in Kinds : \A e \in file[x.sid][j].recs : e.put # x.put
    BY <1>1, <1>2 DEF IInv, UnbuiltOK
  <2>2. book'[r.put].moff = r.moff
    BY <1>3, <1>4, <1>b
  <2> QED BY <1>1, <1>4, <1>w, <2>1, <2>2 DEF PlaceOK, Before
<1>10. AckedPlaced' /\ OrderOK'
  BY <1>1, NoneAcked, OrderKept
<1> QED BY <1>2, <1>5, <1>6, <1>7, <1>8, <1>9, <1>10 DEF FilesIInv

(* A crash takes the writers and what was not yet safe. *)
LEMMA CrashFiles ==
  ASSUME FilesIInv, [Next]_vars, Crash
  PROVE  FilesIInv'
<1>1. IInv /\ IInv' /\ BookOK /\ SkewOK
  BY NextIInv DEF FilesIInv
<1>2. PICK kept \in SUBSET Unsynced :
        file' = [s \in Sids |-> [k \in Kinds |-> Survived(s, k, kept)]]
  BY DEF Crash
<1>3. \A s \in Sids, k \in Kinds :
        /\ file'[s][k].there = file[s][k].there
        /\ file'[s][k].recs \subseteq file[s][k].recs
  <2>1. \A s \in Sids, k \in Kinds : file'[s][k] = Survived(s, k, kept)
    BY <1>2
  <2> QED BY <1>1, <2>1, SurvivedFile
<1>4. \A w \in Writers : writer'[w] = Gone
  BY DEF Crash
<1>5. Gone.pc = "gone" /\ Gone.call = "none" /\ Gone.have = {} /\ Gone.have # Kinds
  BY DEF Gone, Kinds
<1>6. \A w \in Writers : Owns(w)' = {} /\ LenOK(w)' /\ PlaceOK(w)'
  BY <1>4, <1>5 DEF Owns, At, LenOK, PlaceOK
<1>7. UNCHANGED <<book, puts, acked, skew>>
  BY DEF Crash
<1>8. BookOK'
  BY <1>1, <1>3, <1>4, <1>5, <1>6, <1>7 DEF BookOK, Kinds
<1>9. SkewOK'
  BY <1>1, <1>4, <1>5, <1>7 DEF SkewOK
<1>10. AckedPlaced' /\ OrderOK'
  BY <1>3, <1>7, NoneAcked, OrderKept
<1> QED BY <1>1, <1>6, <1>8, <1>9, <1>10 DEF FilesIInv

(* A step of writer w in the writing of a record: it concerns one file of  *)
(* its own stack, and only a put that ends leaves uncounted bytes.         *)
LEMMA WritingStep ==
  ASSUME FilesIInv, [Next]_vars, NEW w \in Writers, NEW r \in Writer, Becomes(w, r),
         writer[w].pc \in {"write", "sync"},
         NEW s \in Sids, s = writer[w].sid, NEW k \in Kinds, NEW f,
         file' = [file EXCEPT ![s][k] = f], f.there = file[s][k].there,
         UNCHANGED <<book, puts>>,
         r.have = Kinds, r.sid = s, r.pc \notin {"create", "header"},
         r.call = "put" => r.put = writer[w].put,
         \A m \in Puts, j \in Kinds : <<m, j>> \in skew' =>
           <<m, j>> \in skew \/ (m = writer[w].put /\ r.call # "put"),
         LenOK(w)', PlaceOK(w)', AckedPlaced', OrderOK'
  PROVE  FilesIInv'
<1>1. /\ IInv /\ IInv'
      /\ writer[w].call = "put" /\ writer[w].have = Kinds
  BY NextIInv, WritingPut DEF FilesIInv
<1>2. s \in Owns(w)
  BY <1>1 DEF Owns, Kinds
<1>3. /\ file'[s][k] = f
      /\ \A t \in Sids, j \in Kinds : t # s \/ j # k => file'[t][j] = file[t][j]
  BY <1>1 DEF IInv, TypeOK
<1>4. BookOK' /\ SkewOK'
  <2>1. \A t \in Sids : file[t]["data"].there => file'[t]["data"].there
    BY <1>3 DEF Kinds
  <2>2. puts' \in {puts, puts + 1}
    OBVIOUS
  <2> QED BY <1>1, <2>1, <2>2, BooksKept
<1>5. \A v \in Writers : v # w => LenOK(v)' /\ PlaceOK(v)'
  <2>1. \A v \in Writers : v # w => \A t \in Owns(v), j \in Kinds :
          file'[t][j].len = file[t][j].len /\ file'[t][j].recs = file[t][j].recs
    BY <1>1, <1>2, OthersFiles
  <2>2. \A v \in Writers : v # w => writer'[v] = writer[v]
    BY <1>1 DEF IInv, TypeOK, Becomes
  <2> QED BY <2>1, <2>2, OthersKeep
<1> QED BY <1>1, <1>4, <1>5 DEF FilesIInv

(* What is known of the files of a put that is writing. *)
LEMMA WritingFiles ==
  ASSUME FilesIInv, NEW w \in Writers, writer[w].pc \in {"write", "sync"}
  PROVE  LET r == writer[w]
         IN  /\ r.off \in Nat /\ r.moff \in Nat
             /\ \A k \in Kinds : file[r.sid][k] \in File /\ file[r.sid][k].len \in Nat
             /\ \A k \in Kinds : EntrySize(k, r.size) \in Nat /\ EntrySize(k, r.size) > 0
             /\ EntrySize("data", r.size) = DataAdvance(r.size)
             /\ EntrySize("meta", r.size) = MetaLine
             /\ EntrySize("idx", r.size) = IdxSize
             /\ \A k \in Kinds : Straight(r.put, k) => Clean(r.sid, k)
<1> DEFINE r == writer[w]
<1>1. /\ r \in Writer /\ r.sid \in Sids /\ r.size \in Nat /\ r.put \in Puts
      /\ r.call = "put" /\ r.have = Kinds /\ book[r.put].sid = r.sid
  BY WritingPut DEF FilesIInv
<1>2. r.off \in Nat /\ r.moff \in Nat
  BY <1>1 DEF Writer
<1>3. \A k \in Kinds : file[r.sid][k] \in File /\ file[r.sid][k].len \in Nat
  BY <1>1 DEF FilesIInv, IInv, TypeOK, File
<1>4. /\ EntrySize("data", r.size) = DataAdvance(r.size)
      /\ EntrySize("meta", r.size) = MetaLine
      /\ EntrySize("idx", r.size) = IdxSize
  BY DEF EntrySize, DataAdvance
<1>5. \A k \in Kinds : EntrySize(k, r.size) \in Nat /\ EntrySize(k, r.size) > 0
  BY <1>1, <1>4, LineAssumption, IdxAssumption, Advance_Positive DEF Kinds
<1>6. ASSUME NEW k \in Kinds, Straight(r.put, k) PROVE Clean(r.sid, k)
  <2> SUFFICES ASSUME NEW m \in Puts, book[m].sid = r.sid PROVE <<m, k>> \notin skew
    BY DEF Clean
  <2>1. m <= r.put /\ m \in Nat /\ r.put \in Nat
    BY <1>1, BoundsAssumption DEF FilesIInv, BookOK, Puts
  <2>2. CASE m = r.put
    BY <1>1, <2>2 DEF FilesIInv, SkewOK
  <2>3. CASE m < r.put
    BY <1>1, <1>6, <2>3 DEF Straight
  <2> QED BY <2>1, <2>2, <2>3
<1> QED BY <1>2, <1>3, <1>4, <1>5, <1>6

(* A record that is being written goes after all others of its file, and,  *)
(* when nothing crooked came before, where it was booked for.              *)
LEMMA NextPlace ==
  ASSUME FilesIInv, NEW w \in Writers, writer[w].pc = "write",
         NEW n \in Puts, n = writer[w].put,
         NEW s \in Sids, s = writer[w].sid, NEW k \in Kinds, k = writer[w].kind
  PROVE  /\ \A e \in file[s][k].recs : e.put < n /\ e.at < file[s][k].len
         /\ Straight(n, k) => Placed(n, k, [at |-> file[s][k].len, put |-> n])
<1> DEFINE r == writer[w]
<1>1. /\ r.call = "put" /\ r.have = Kinds /\ book[n].sid = s
      /\ LenOK(w) /\ PlaceOK(w) /\ OffsetOK(w)
  BY WritingPut DEF FilesIInv, IInv
<1>2. r.off \in Nat /\ r.moff \in Nat /\ (Straight(n, k) => Clean(s, k))
  BY WritingFiles
<1>3. ASSUME NEW e \in file[s][k].recs
      PROVE  e.put < n /\ e.at < file[s][k].len
  <2>1. /\ e.put \in Puts /\ e.at \in Nat /\ EntryEnd(k, e) \in Nat
        /\ book[e.put].sid = s /\ EntryEnd(k, e) <= file[s][k].len
        /\ book[e.put].size \in Nat /\ file[s][k].len \in Nat
    BY Entry_End DEF FilesIInv, IInv, FilesOK, TypeOK, File, Entry, Booked
  <2>2. e.put # n
    BY <1>1 DEF PlaceOK, Before, Kinds
  <2>3. e.put <= n
    BY <1>1, <2>1 DEF FilesIInv, BookOK
  <2>4. EntrySize(k, book[e.put].size) \in Nat /\ EntrySize(k, book[e.put].size) > 0
    BY <2>1, LineAssumption, IdxAssumption, Advance_Positive DEF Kinds, EntrySize, DataAdvance
  <2>5. e.put < n
    BY <2>1, <2>2, <2>3, BoundsAssumption DEF Puts
  <2>6. e.at < file[s][k].len
    BY <2>1, <2>4 DEF EntryEnd
  <2> QED BY <2>5, <2>6
<1>4. ASSUME Straight(n, k)
      PROVE  Placed(n, k, [at |-> file[s][k].len, put |-> n])
  <2>1. Clean(s, k) /\ Ahead(r, k) = 0
    BY <1>2, <1>4 DEF Ahead
  <2>2. k = "data" => file[s][k].len = book[n].off
    BY <1>1, <1>2, <2>1 DEF LenOK, OffsetOK
  <2>3. k = "meta" => file[s][k].len = book[n].moff
    BY <1>1, <1>2, <2>1 DEF LenOK, PlaceOK
  <2>4. k = "idx" => IdxPlace(file[s][k].len)
    BY <1>1, <2>1 DEF LenOK
  <2> QED BY <2>2, <2>3, <2>4 DEF Placed
<1> QED BY <1>3, <1>4

(* Appending it keeps the order. *)
LEMMA OrderAppended ==
  ASSUME FilesIInv, NEW w \in Writers, writer[w].pc = "write",
         NEW n \in Puts, n = writer[w].put,
         NEW s \in Sids, s = writer[w].sid, NEW k \in Kinds, k = writer[w].kind,
         NEW f, file' = [file EXCEPT ![s][k] = f],
         f.recs \subseteq file[s][k].recs \cup {[at |-> file[s][k].len, put |-> n]}
  PROVE  OrderOK'
<1> DEFINE g == file[s][k]
           last == [at |-> g.len, put |-> n]
<1>1. /\ file'[s][k] = f
      /\ \A t \in Sids, j \in Kinds : t # s \/ j # k => file'[t][j] = file[t][j]
  BY DEF FilesIInv, IInv, TypeOK
<1>2. \A e \in g.recs : e.put < n /\ e.at < g.len
  BY NextPlace
<1>3. last.put = n /\ last.at = g.len /\ ~(n < n) /\ n \in Nat
  BY BoundsAssumption DEF Puts
<1>4. \A e \in g.recs : e.put \in Nat /\ e.at \in Nat
  BY Entry_End, BoundsAssumption DEF FilesIInv, Entry, Puts
<1>5. \A e, o \in g.recs : /\ e.put = o.put => e = o
                           /\ e.put < o.put => e.at < o.at
  BY DEF FilesIInv, OrderOK
<1> HIDE DEF last, g
<1>6. ASSUME NEW e \in g.recs \cup {last}, NEW o \in g.recs \cup {last}
      PROVE  /\ e.put = o.put => e = o
             /\ e.put < o.put => e.at < o.at
  <2>1. CASE e \in g.recs /\ o \in g.recs
    BY <1>5, <2>1
  <2>2. CASE e \in g.recs /\ o = last
    BY <1>2, <1>3, <1>4, <2>2
  <2>3. CASE e = last /\ o \in g.recs
    BY <1>2, <1>3, <1>4, <2>3
  <2>4. CASE e = last /\ o = last
    BY <1>3, <2>4
  <2> QED BY <2>1, <2>2, <2>3, <2>4
<1>7. f.recs \subseteq g.recs \cup {last}
  BY DEF g, last
<1>8. ASSUME NEW t \in Sids, NEW j \in Kinds, NEW e \in file'[t][j].recs,
             NEW o \in file'[t][j].recs
      PROVE  /\ e.put = o.put => e = o
             /\ e.put < o.put => e.at < o.at
  <2>1. CASE t = s /\ j = k
    BY <1>1, <1>6, <1>7, <2>1
  <2>2. CASE t # s \/ j # k
    BY <1>1, <2>2 DEF FilesIInv, OrderOK
  <2> QED BY <2>1, <2>2
<1> QED BY <1>8 DEF OrderOK

(* Adding a multiple of m to a number keeps its remainder. *)
LEMMA WholeRecords ==
  ASSUME NEW a \in Nat, NEW m \in Nat \ {0}, a % m = 0
  PROVE  (a + m) % m = 0
<1> DEFINE q == a \div m
<1>1. q \in Int /\ a = (m * q) + (a % m)
  OBVIOUS
<1> HIDE DEF q
<1>2. a + m = (m * (q + 1)) + 0
  BY <1>1
<1>3. ASSUME NEW p \in Int PROVE ((m * p) + 0) % m = 0
  OBVIOUS
<1>4. q + 1 \in Int
  BY <1>1
<1> QED BY <1>2, <1>3, <1>4

(* A whole record more leads from one place of the index file to the next. *)
LEMMA NextRecord ==
  ASSUME NEW a \in Nat, IdxPlace(a)
  PROVE  IdxPlace(a + IdxSize)
<1>1. PICK h \in Nat, m \in Nat \ {0} : h = HeadSize("idx") /\ m = IdxSize
  BY IdxAssumption DEF HeadSize
<1>2. h <= a /\ (a - h) % m = 0 /\ a - h \in Nat
  BY <1>1 DEF IdxPlace
<1>3. ((a - h) + m) % m = 0
  BY <1>1, <1>2, WholeRecords
<1>4. (a + m) - h = (a - h) + m /\ h <= a + m
  BY <1>1, <1>2
<1> QED BY <1>1, <1>3, <1>4 DEF IdxPlace

(* The files of an open stack in the next state, from their lengths there. *)
LEMMA LenNext ==
  ASSUME NEW w \in Writers, NEW s \in Sids, NEW r, writer'[w] = r,
         r.pc # "header", r.sid = s,
         Clean(s, "data")' => file'[s]["data"].len = r.off + Ahead(r, "data"),
         Clean(s, "meta")' => file'[s]["meta"].len = r.moff + Ahead(r, "meta"),
         Clean(s, "idx")' => IdxPlace(file'[s]["idx"].len)
  PROVE  LenOK(w)'
<1>1. (Ahead(writer[w], "data"))' = Ahead(r, "data")
      /\ (Ahead(writer[w], "meta"))' = Ahead(r, "meta")
  BY DEF Ahead
<1> QED BY <1>1 DEF LenOK

(* write_all appends the record where it was booked for (writer.rs:283-300). *)
LEMMA WriteFiles ==
  ASSUME FilesIInv, [Next]_vars, NEW w \in Writers, Write(w)
  PROVE  FilesIInv'
<1> DEFINE x == writer[w]
<1>1. /\ x.pc = "write"
      /\ UNCHANGED <<book, puts, acked, skew>>
  BY DEF Write, At
<1>2. /\ x \in Writer /\ x.call = "put" /\ x.have = Kinds
      /\ x.sid \in Sids /\ x.kind \in Kinds /\ x.put \in Puts
      /\ IInv /\ LenOK(w) /\ PlaceOK(w)
  BY <1>1, WritingPut DEF FilesIInv
<1>3. PICK n \in Puts, s \in Sids, k \in Kinds : n = x.put /\ s = x.sid /\ k = x.kind
  BY <1>2
<1> DEFINE g == file[s][k]
           size == EntrySize(k, x.size)
           f == Appended(g, n, size)
           r == [x EXCEPT !.pc = "sync"]
<1>4. file' = [file EXCEPT ![s][k] = f] /\ Becomes(w, r)
  BY <1>3 DEF Write
<1>5. /\ g \in File /\ g.len \in Nat /\ size \in Nat
      /\ x.off \in Nat /\ x.moff \in Nat
      /\ EntrySize("idx", x.size) = IdxSize
  BY <1>1, <1>3, WritingFiles
<1>6. /\ f.there = g.there /\ f.len = g.len + size
      /\ f.recs = g.recs \cup {[at |-> g.len, put |-> n]}
  <2> HIDE DEF g, size
  <2> QED BY <1>5, AppendedFile
<1>7. /\ r \in Writer /\ r.pc = "sync" /\ r.call = "put" /\ r.kind = k
      /\ r.have = Kinds /\ r.sid = s /\ r.off = x.off /\ r.moff = x.moff
      /\ r.put = n /\ r.size = x.size
  <2> HIDE DEF x
  <2> QED BY <1>2, <1>3 DEF Writer
<1> HIDE DEF f, r
<1>8. /\ writer'[w] = r
      /\ file'[s][k] = f
      /\ \A j \in Kinds : j # k => file'[s][j] = file[s][j]
  BY <1>2, <1>4 DEF IInv, TypeOK, Becomes
<1>9. \A j \in Kinds : Clean(s, j)' => Clean(s, j)
  BY OnceClean
<1>10. LenOK(w)'
  <2>1. Clean(s, "data")' => file'[s]["data"].len = r.off + Ahead(r, "data")
    <3>1. Clean(s, "data")' => file[s]["data"].len = x.off
      BY <1>1, <1>2, <1>3, <1>5, <1>9 DEF LenOK, Ahead, Kinds
    <3>2. CASE k = "data"
      BY <1>5, <1>6, <1>7, <1>8, <3>1, <3>2 DEF Ahead
    <3>3. CASE k # "data"
      BY <1>5, <1>7, <1>8, <3>1, <3>3 DEF Ahead, Kinds
    <3> QED BY <3>2, <3>3
  <2>2. Clean(s, "meta")' => file'[s]["meta"].len = r.moff + Ahead(r, "meta")
    <3>1. Clean(s, "meta")' => file[s]["meta"].len = x.moff
      BY <1>1, <1>2, <1>3, <1>5, <1>9 DEF LenOK, Ahead, Kinds
    <3>2. CASE k = "meta"
      BY <1>5, <1>6, <1>7, <1>8, <3>1, <3>2 DEF Ahead
    <3>3. CASE k # "meta"
      BY <1>5, <1>7, <1>8, <3>1, <3>3 DEF Ahead, Kinds
    <3> QED BY <3>2, <3>3
  <2>3. Clean(s, "idx")' => IdxPlace(file'[s]["idx"].len)
    <3>1. Clean(s, "idx")' => IdxPlace(file[s]["idx"].len)
      BY <1>2, <1>3, <1>9 DEF LenOK, Kinds
    <3>2. CASE k = "idx"
      <4>1. IdxPlace(g.len) => IdxPlace(g.len + IdxSize)
        BY <1>5, NextRecord
      <4> QED BY <1>5, <1>6, <1>8, <3>1, <3>2, <4>1
    <3>3. CASE k # "idx"
      BY <1>8, <3>1, <3>3 DEF Kinds
    <3> QED BY <3>2, <3>3
  <2> QED BY <1>7, <1>8, <2>1, <2>2, <2>3, LenNext
<1>11. PlaceOK(w)'
  <2>1. \A j \in Before(k) : PlacedIn(n, j, Durable(s, j))'
    <3>1. \A j \in Before(k) : j \in Kinds /\ PlacedIn(n, j, Durable(s, j))
      BY <1>1, <1>2, <1>3 DEF PlaceOK, Before, Kinds
    <3> QED BY <1>1, <3>1, PlacedStays
  <2>2. PlacedIn(n, k, file[s][k].recs)'
    <3>1. Straight(n, k)' => Straight(n, k)
      BY <1>1, OnceClean
    <3>2. Straight(n, k) => Placed(n, k, [at |-> g.len, put |-> n])
      BY <1>1, <1>3, NextPlace
    <3>3. [at |-> g.len, put |-> n] \in file'[s][k].recs
      BY <1>6, <1>8
    <3> DEFINE last == [at |-> g.len, put |-> n]
    <3> HIDE DEF last, g
    <3>4. (Straight(n, k) => Placed(n, k, last)) /\ last \in file'[s][k].recs
      BY <3>2, <3>3 DEF last
    <3> QED BY <1>1, <3>1, <3>4 DEF PlacedIn, Placed
  <2>3. /\ k \in {"data", "meta"} => book'[n].moff = r.moff
        /\ \A j \in Kinds \ Before(k) : j # k =>
             \A e \in file'[s][j].recs : e.put # n
    BY <1>1, <1>2, <1>3, <1>7, <1>8 DEF PlaceOK
  <2> QED BY <1>7, <1>8, <2>1, <2>2, <2>3 DEF PlaceOK
<1>12. OrderOK'
  <2>1. f.recs \subseteq file[s][k].recs \cup {[at |-> file[s][k].len, put |-> n]}
    BY <1>6
  <2> QED BY <1>1, <1>3, <1>4, <2>1, OrderAppended
<1>13. AckedPlaced'
  BY <1>1, NoneAcked
<1>14. /\ s = writer[w].sid /\ writer[w].pc \in {"write", "sync"}
       /\ f.there = file[s][k].there
       /\ r.pc \notin {"create", "header"}
       /\ r.call = "put" => r.put = writer[w].put
       /\ \A m \in Puts, j \in Kinds : <<m, j>> \in skew' =>
            <<m, j>> \in skew \/ (m = writer[w].put /\ r.call # "put")
  BY <1>1, <1>3, <1>6, <1>7
<1> HIDE DEF x, g, size
<1> QED BY <1>1, <1>4, <1>7, <1>10, <1>11, <1>12, <1>13, <1>14, WritingStep

(* Put n of writer w ends half way: file k of its stack becomes f, and what *)
(* the put left there is counted or known to be crooked.                   *)
EndsHalfWay(w, n, s, k, f) ==
  /\ writer[w].pc \in {"write", "sync"}
  /\ n = writer[w].put /\ s = writer[w].sid /\ k = writer[w].kind
  /\ Becomes(w, Failed(w))
  /\ file' = [file EXCEPT ![s][k] = f]
  /\ f.there = file[s][k].there
  /\ UNCHANGED <<book, puts, acked>>
  /\ OrderOK'
  /\ \A m \in Puts, j \in Kinds : <<m, j>> \in skew' => <<m, j>> \in skew \/ m = n
  /\ k \in {"data", "meta"} /\ <<n, k>> \notin skew' =>
       f.len = file[s][k].len /\ writer[w].pc = "write"
  /\ k = "idx" /\ <<n, k>> \notin skew' =>
       f.len = file[s][k].len \/ f.len = file[s][k].len + IdxSize

(* Then the writer's offsets are right for as long as nothing is crooked.  *)
LEMMA EndedStep ==
  ASSUME FilesIInv, [Next]_vars, NEW w \in Writers,
         NEW n \in Puts, NEW s \in Sids, NEW k \in Kinds, NEW f,
         EndsHalfWay(w, n, s, k, f)
  PROVE  FilesIInv'
<1> USE DEF EndsHalfWay
<1> DEFINE x == writer[w]
           r == Failed(w)
<1>p. Becomes(w, r)
  OBVIOUS
<1>1. /\ x \in Writer /\ x.call = "put" /\ x.have = Kinds /\ book[n].sid = s
      /\ IInv /\ LenOK(w)
  BY WritingPut DEF FilesIInv
<1>2. r = Returned(x)
  BY <1>1 DEF Failed
<1>3. /\ r \in Writer /\ r.pc = "idle" /\ r.call = "none"
      /\ r.have = Kinds /\ r.sid = s /\ r.off = x.off /\ r.moff = x.moff
  <2> HIDE DEF x, r
  <2> QED BY <1>1, <1>2 DEF Returned, Writer, Kinds, x
<1>4. /\ x.off \in Nat /\ x.moff \in Nat /\ file[s][k].len \in Nat
      /\ \A j \in Kinds : file[s][j].len \in Nat
  BY WritingFiles
<1> HIDE DEF r
<1>5. /\ writer'[w] = r
      /\ file'[s][k] = f
      /\ \A j \in Kinds : j # k => file'[s][j] = file[s][j]
  BY <1>1, <1>p DEF IInv, TypeOK, Becomes
<1>6. /\ \A j \in Kinds : Clean(s, j)' => Clean(s, j)
      /\ Clean(s, k)' => <<n, k>> \notin skew'
  BY <1>1, OnceClean DEF Clean
<1>7. LenOK(w)'
  <2>1. /\ Ahead(r, "data") = 0 /\ Ahead(r, "meta") = 0
        /\ \A j \in Kinds : j # k \/ x.pc = "write" => Ahead(x, j) = 0
    BY <1>3 DEF Ahead
  <2>2. /\ Clean(s, "data") => file[s]["data"].len = x.off + Ahead(x, "data")
        /\ Clean(s, "meta") => file[s]["meta"].len = x.moff + Ahead(x, "meta")
        /\ Clean(s, "idx") => IdxPlace(file[s]["idx"].len)
    BY <1>1 DEF LenOK
  <2>3. ASSUME NEW j \in {"data", "meta"}, Clean(s, j)'
        PROVE  Clean(s, j) /\ file'[s][j].len = file[s][j].len /\ Ahead(x, j) = 0
    <3>1. j \in Kinds /\ Clean(s, j)
      BY <1>6, <2>3 DEF Kinds
    <3>2. CASE j = k
      BY <1>5, <1>6, <2>1, <2>3, <3>1, <3>2
    <3>3. CASE j # k
      BY <1>5, <2>1, <3>1, <3>3
    <3> QED BY <3>1, <3>2, <3>3
  <2>4. Clean(s, "idx")' => IdxPlace(file'[s]["idx"].len)
    <3>1. Clean(s, "idx")' => IdxPlace(file[s]["idx"].len)
      BY <1>6, <2>2 DEF Kinds
    <3>2. CASE k = "idx"
      <4>1. IdxPlace(file[s][k].len) => IdxPlace(file[s][k].len + IdxSize)
        BY <1>4, NextRecord
      <4> QED BY <1>5, <1>6, <3>1, <3>2, <4>1
    <3>3. CASE k # "idx"
      BY <1>5, <3>1, <3>3 DEF Kinds
    <3> QED BY <3>2, <3>3
  <2> HIDE DEF EndsHalfWay, x
  <2>5. Clean(s, "data")' => file'[s]["data"].len = r.off + Ahead(r, "data")
    BY <1>3, <2>1, <2>2, <2>3
  <2>6. Clean(s, "meta")' => file'[s]["meta"].len = r.moff + Ahead(r, "meta")
    BY <1>3, <2>1, <2>2, <2>3
  <2>7. writer'[w] = r /\ r.pc # "header" /\ r.sid = s
    BY <1>3, <1>5
  <2> QED BY <2>4, <2>5, <2>6, <2>7, LenNext
<1>8. PlaceOK(w)'
  BY <1>3, <1>5 DEF PlaceOK
<1>9. AckedPlaced'
  BY NoneAcked
<1>10. /\ r.pc \notin {"create", "header"} /\ r.call # "put" /\ Becomes(w, r)
       /\ \A m \in Puts, j \in Kinds : <<m, j>> \in skew' =>
            <<m, j>> \in skew \/ (m = writer[w].put /\ r.call # "put")
  BY <1>p, <1>3
<1> HIDE DEF x
<1> QED BY <1>p, <1>3, <1>7, <1>8, <1>9, <1>10, WritingStep

(* A write cut off (writer.rs:285-300). *)
LEMMA WriteFailsFiles ==
  ASSUME FilesIInv, [Next]_vars, NEW w \in Writers, WriteFails(w)
  PROVE  FilesIInv'
<1> DEFINE x == writer[w]
<1>1. /\ x.pc = "write" /\ Becomes(w, Failed(w))
      /\ UNCHANGED <<book, puts, acked>>
  BY DEF WriteFails, At
<1>2. PICK n \in Puts, s \in Sids, k \in Kinds : n = x.put /\ s = x.sid /\ k = x.kind
  BY <1>1, WritingPut DEF FilesIInv
<1> DEFINE g == file[s][k]
           size == EntrySize(k, x.size)
<1>3. PICK part \in 0 .. size :
        /\ file' = [file EXCEPT ![s][k] = PartlyAppended(g, n, size, part)]
        /\ skew' = IF Skews(k, part, size) THEN skew \cup {<<n, k>>} ELSE skew
  BY <1>2 DEF WriteFails
<1> DEFINE f == PartlyAppended(g, n, size, part)
<1>4. /\ g \in File /\ g.len \in Nat /\ size \in Nat /\ size > 0 /\ part \in Nat
      /\ EntrySize("idx", x.size) = IdxSize
  <2>1. /\ g \in File /\ g.len \in Nat /\ size \in Nat /\ size > 0
        /\ EntrySize("idx", x.size) = IdxSize
    BY <1>1, <1>2, WritingFiles
  <2> HIDE DEF g, size
  <2> QED BY <2>1
<1>5. /\ f.there = g.there /\ f.len = g.len + part
      /\ f.recs \subseteq g.recs \cup {[at |-> g.len, put |-> n]}
  <2> HIDE DEF g, size
  <2>1. CASE part = size
    BY <1>4, <2>1, AppendedFile DEF PartlyAppended
  <2>2. CASE part # size
    BY <1>4, <2>2 DEF PartlyAppended, File
  <2> QED BY <2>1, <2>2
<1>6. OrderOK'
  <2> HIDE DEF f
  <2>1. file' = [file EXCEPT ![s][k] = f]
    BY <1>3 DEF f
  <2> QED BY <1>1, <1>2, <1>5, <2>1, OrderAppended
<1>7. /\ k \in {"data", "meta"} /\ <<n, k>> \notin skew' => f.len = g.len
      /\ k = "idx" /\ <<n, k>> \notin skew' => f.len = g.len \/ f.len = g.len + IdxSize
  <2>1. <<n, k>> \notin skew' => ~Skews(k, part, size)
    BY <1>3
  <2>2. ~Skews(k, part, size) => part = 0 \/ (k = "idx" /\ part = IdxSize)
    BY <1>4 DEF Skews
  <2> HIDE DEF f, g, size
  <2> QED BY <1>4, <1>5, <2>1, <2>2
<1>8. /\ \A m \in Puts, j \in Kinds : <<m, j>> \in skew' => <<m, j>> \in skew \/ m = n
      /\ file' = [file EXCEPT ![s][k] = f]
      /\ f.there = file[s][k].there
      /\ k \in {"data", "meta"} /\ <<n, k>> \notin skew' =>
           f.len = file[s][k].len /\ writer[w].pc = "write"
      /\ k = "idx" /\ <<n, k>> \notin skew' =>
           f.len = file[s][k].len \/ f.len = file[s][k].len + IdxSize
  BY <1>1, <1>3, <1>5, <1>7
<1>9. /\ writer[w].pc \in {"write", "sync"} /\ Becomes(w, Failed(w))
      /\ n = writer[w].put /\ s = writer[w].sid /\ k = writer[w].kind
      /\ UNCHANGED <<book, puts, acked>>
  BY <1>1, <1>2
<1> HIDE DEF f, x, g, size
<1>10. EndsHalfWay(w, n, s, k, f)
  BY <1>6, <1>8, <1>9 DEF EndsHalfWay
<1> QED BY <1>10, EndedStep

(* A sync that fails (writer.rs:288-302). *)
LEMMA SyncFailsFiles ==
  ASSUME FilesIInv, [Next]_vars, NEW w \in Writers, SyncFails(w)
  PROVE  FilesIInv'
<1> DEFINE x == writer[w]
<1>1. /\ x.pc = "sync" /\ Becomes(w, Failed(w))
      /\ skew' = IF x.kind = "idx" THEN skew ELSE skew \cup {<<x.put, x.kind>>}
      /\ UNCHANGED <<file, book, puts, acked>>
  BY DEF SyncFails, At
<1>2. PICK n \in Puts, s \in Sids, k \in Kinds : n = x.put /\ s = x.sid /\ k = x.kind
  BY <1>1, WritingPut DEF FilesIInv
<1> DEFINE f == file[s][k]
<1>3. file' = [file EXCEPT ![s][k] = f]
  BY <1>1 DEF FilesIInv, IInv, TypeOK
<1>4. OrderOK'
  BY <1>1, OrderKept
<1>5. /\ \A m \in Puts, j \in Kinds : <<m, j>> \in skew' => <<m, j>> \in skew \/ m = n
      /\ f.there = file[s][k].there
      /\ k \in {"data", "meta"} /\ <<n, k>> \notin skew' =>
           f.len = file[s][k].len /\ writer[w].pc = "write"
      /\ k = "idx" /\ <<n, k>> \notin skew' =>
           f.len = file[s][k].len \/ f.len = file[s][k].len + IdxSize
  BY <1>1, <1>2
<1>6. /\ writer[w].pc \in {"write", "sync"} /\ Becomes(w, Failed(w))
      /\ n = writer[w].put /\ s = writer[w].sid /\ k = writer[w].kind
      /\ UNCHANGED <<book, puts, acked>>
  BY <1>1, <1>2
<1> HIDE DEF f, x
<1>7. EndsHalfWay(w, n, s, k, f)
  BY <1>3, <1>4, <1>5, <1>6 DEF EndsHalfWay
<1> QED BY <1>7, EndedStep

(* sync_all, then the offset or the index_id (writer.rs:288-306): the      *)
(* record is safe where it is, and the offset moves past it.               *)
LEMMA SyncFiles ==
  ASSUME FilesIInv, [Next]_vars, NEW w \in Writers, Sync(w)
  PROVE  FilesIInv'
<1> DEFINE x == writer[w]
<1>1. x.pc = "sync" /\ UNCHANGED <<book, puts, skew>>
  BY DEF Sync, At
<1>2. /\ x \in Writer /\ x.call = "put" /\ x.have = Kinds
      /\ x.sid \in Sids /\ x.kind \in Kinds /\ x.put \in Puts /\ x.raw \in Nat
      /\ x.size \in Nat /\ book[x.put].sid = x.sid
      /\ IInv /\ LenOK(w) /\ PlaceOK(w)
  BY <1>1, WritingPut DEF FilesIInv, Writer
<1>3. PICK n \in Puts, s \in Sids, k \in Kinds : n = x.put /\ s = x.sid /\ k = x.kind
  BY <1>2
<1> DEFINE g == file[s][k]
           f == Synced(g)
<1>4. file' = [file EXCEPT ![s][k] = f]
  BY <1>3 DEF Sync
<1>5. /\ g \in File /\ x.off \in Nat /\ x.moff \in Nat
      /\ EntrySize("data", x.size) = DataAdvance(x.size)
      /\ EntrySize("meta", x.size) = MetaLine
  BY <1>1, <1>3, WritingFiles
<1>6. /\ f.there = g.there /\ f.len = g.len /\ f.synced = g.len /\ f.recs = g.recs
  <2> HIDE DEF g
  <2> QED BY <1>5, SyncedFile
<1> HIDE DEF f
<1>7. /\ file'[s][k] = f
      /\ \A j \in Kinds : j # k => file'[s][j] = file[s][j]
      /\ \A j \in Kinds : file'[s][j].len = file[s][j].len
                          /\ file'[s][j].recs = file[s][j].recs
  BY <1>2, <1>4, <1>6 DEF IInv, TypeOK
<1>8. \A e \in g.recs : e \in Durable(s, k)'
  <2>1. \A e \in g.recs : EntryEnd(k, e) <= g.len
    BY <1>2 DEF IInv, FilesOK
  <2> QED BY <1>1, <1>6, <1>7, <2>1 DEF Durable, EntryEnd
<1>9. PlacedIn(n, k, Durable(s, k))'
  <2>1. Straight(n, k)' => Straight(n, k)
    BY <1>1, OnceClean
  <2>2. PlacedIn(n, k, g.recs)
    BY <1>1, <1>2, <1>3 DEF PlaceOK
  <2> HIDE DEF g
  <2> QED BY <1>1, <1>8, <2>1, <2>2 DEF PlacedIn, Placed
<1>10. \A j \in Before(k) : PlacedIn(n, j, Durable(s, j))'
  <2>1. \A j \in Before(k) : j \in Kinds /\ PlacedIn(n, j, Durable(s, j))
    BY <1>1, <1>2, <1>3 DEF PlaceOK, Before, Kinds
  <2> QED BY <1>1, <2>1, PlacedStays
<1>11. ASSUME NEW r \in Writer, Becomes(w, r), r.pc \in {"write", "idle"},
              r.pc = "write" => k # "idx" /\ r.kind = NextKind(k) /\ r.put = n
                                /\ acked' = acked,
              r.pc = "idle" => r.call = "none" /\ k = "idx" /\ acked' = acked \cup {n},
              r.have = Kinds, r.sid = s,
              r.off = IF k = "data" THEN x.off + DataAdvance(x.size) ELSE x.off,
              r.moff = IF k = "meta" THEN x.moff + MetaLine ELSE x.moff
       PROVE  FilesIInv'
  <2>1. writer'[w] = r
    BY <1>2, <1>11 DEF IInv, TypeOK, Becomes
  <2>2. Ahead(r, "data") = 0 /\ Ahead(r, "meta") = 0
    BY <1>11 DEF Ahead
  <2>3. \A j \in Kinds : Clean(s, j)' => Clean(s, j)
    BY OnceClean
  <2>4. DataAdvance(x.size) \in Nat /\ MetaLine \in Nat /\ r.off \in Nat /\ r.moff \in Nat
    BY <1>2, <1>11, Advance_Positive, LineAssumption DEF Writer
  <2>5. LenOK(w)'
    <3>1. Clean(s, "data")' => file'[s]["data"].len = r.off + Ahead(r, "data")
      <4>1. Clean(s, "data")' => file[s]["data"].len = x.off + Ahead(x, "data")
        BY <1>2, <1>3, <2>3 DEF LenOK, Kinds
      <4>2. Ahead(x, "data") = IF k = "data" THEN DataAdvance(x.size) ELSE 0
        BY <1>1, <1>3, <1>5 DEF Ahead
      <4> QED BY <1>5, <1>7, <1>11, <2>2, <2>4, <4>1, <4>2 DEF Kinds
    <3>2. Clean(s, "meta")' => file'[s]["meta"].len = r.moff + Ahead(r, "meta")
      <4>1. Clean(s, "meta")' => file[s]["meta"].len = x.moff + Ahead(x, "meta")
        BY <1>2, <1>3, <2>3 DEF LenOK, Kinds
      <4>2. Ahead(x, "meta") = IF k = "meta" THEN MetaLine ELSE 0
        BY <1>1, <1>3, <1>5 DEF Ahead
      <4> QED BY <1>5, <1>7, <1>11, <2>2, <2>4, <4>1, <4>2 DEF Kinds
    <3>3. Clean(s, "idx")' => IdxPlace(file'[s]["idx"].len)
      BY <1>2, <1>3, <1>7, <2>3 DEF LenOK, Kinds
    <3>4. r.pc # "header"
      BY <1>11
    <3> QED BY <1>11, <2>1, <3>1, <3>2, <3>3, <3>4, LenNext
  <2>6. PlaceOK(w)'
    <3>1. CASE r.pc = "idle"
      BY <2>1, <3>1 DEF PlaceOK
    <3>2. CASE r.pc = "write"
      <4>1. k # "idx" /\ r.kind = NextKind(k) /\ r.put = n
        BY <1>11, <3>2
      <4>2. \A j \in Before(r.kind) : j \in Before(k) \/ j = k
        BY <4>1 DEF Before, NextKind, Kinds
      <4>3. \A j \in Before(r.kind) : PlacedIn(n, j, Durable(s, j))'
        BY <1>9, <1>10, <4>2
      <4>4. r.kind \in {"data", "meta"} => book'[n].moff = r.moff
        BY <1>1, <1>2, <1>3, <1>11, <4>1 DEF PlaceOK, NextKind, Kinds
      <4>5. \A j \in Kinds \ Before(r.kind) : j \in Kinds \ Before(k) /\ j # k
        BY <4>1 DEF Before, NextKind, Kinds
      <4>6. \A j \in Kinds \ Before(r.kind) : \A e \in file'[s][j].recs : e.put # n
        <5>1. \A j \in Kinds \ Before(k) : j # k => \A e \in file[s][j].recs : e.put # n
          BY <1>1, <1>2, <1>3 DEF PlaceOK
        <5> QED BY <1>7, <4>5, <5>1
      <4>7. r.put = n /\ r.sid = s /\ r.pc # "sync"
        BY <1>11, <3>2, <4>1
      <4> QED BY <2>1, <4>3, <4>4, <4>6, <4>7 DEF PlaceOK
    <3> QED BY <1>11, <3>1, <3>2
  <2>7. AckedPlaced'
    <3>1. CASE r.pc = "write"
      BY <1>11, <3>1, NoneAcked
    <3>2. CASE r.pc = "idle"
      <4>1. k = "idx" /\ acked' = acked \cup {n} /\ book'[n].sid = s
        BY <1>1, <1>2, <1>3, <1>11, <3>2
      <4>2. \A j \in Kinds : PlacedIn(n, j, Durable(s, j))'
        BY <1>9, <1>10, <4>1 DEF Before, Kinds
      <4>3. \A m \in acked : \A j \in Kinds : PlacedIn(m, j, Durable(book[m].sid, j))'
        BY AckedPlacedStays
      <4>4. ASSUME NEW m \in acked', NEW j \in Kinds
            PROVE  PlacedIn(m, j, Durable(book[m].sid, j))'
        <5>1. CASE m \in acked
          BY <4>3, <5>1
        <5>2. CASE m = n
          BY <4>1, <4>2, <5>2
        <5> QED BY <4>1, <5>1, <5>2
      <4> QED BY <4>4 DEF AckedPlaced
    <3> QED BY <1>11, <3>1, <3>2
  <2>8. OrderOK'
    <3>1. \A t \in Sids, j \in Kinds : file'[t][j].recs \subseteq file[t][j].recs
      BY <1>2, <1>4, <1>6 DEF IInv, TypeOK
    <3> QED BY <3>1, OrderKept
  <2>9. /\ writer[w].pc \in {"write", "sync"} /\ s = writer[w].sid
        /\ f.there = file[s][k].there
        /\ UNCHANGED <<book, puts>>
        /\ r.pc \notin {"create", "header"}
        /\ \A m \in Puts, j \in Kinds : <<m, j>> \in skew' =>
             <<m, j>> \in skew \/ (m = writer[w].put /\ r.call # "put")
    BY <1>1, <1>3, <1>6, <1>11
  <2>10. r.call = "put" => r.put = writer[w].put
    BY <1>3, <1>11
  <2>11. r \in Writer /\ Becomes(w, r) /\ r.have = Kinds /\ r.sid = s
    BY <1>11
  <2> HIDE DEF x, g
  <2> QED
    BY <1>4, <2>5, <2>6, <2>7, <2>8, <2>9, <2>10, <2>11, WritingStep
<1> DEFINE adv == DataAdvance(x.size)
           next == NextKind(k)
           size == x.size
<1>12. next \in Kinds /\ adv \in Nat /\ MetaLine \in Nat
  BY <1>2, Advance_Positive, LineAssumption DEF NextKind, Kinds
<1>13. CASE /\ k = "data" /\ UNCHANGED acked
            /\ Becomes(w, [x EXCEPT !.pc = "write", !.kind = next, !.off = x.off + adv])
  <2> DEFINE r == [x EXCEPT !.pc = "write", !.kind = next, !.off = x.off + adv]
  <2>1. /\ r \in Writer /\ r.pc = "write" /\ r.kind = next /\ r.put = n
        /\ r.have = Kinds /\ r.sid = s /\ r.off = x.off + adv /\ r.moff = x.moff
    <3> DEFINE o == x.off + adv
    <3>1. /\ x \in Writer /\ x.have = Kinds /\ x.put = n /\ x.sid = s
          /\ next \in Kinds
      BY <1>2, <1>3, <1>12
    <3>2. o \in Nat
      <4>1. x.off \in Nat /\ adv \in Nat
        BY <1>5, <1>12
      <4> HIDE DEF adv
      <4> QED BY <4>1
    <3> HIDE DEF x, next, o
    <3>3. LET q == [x EXCEPT !.pc = "write", !.kind = next, !.off = o]
          IN  /\ q \in Writer /\ q.pc = "write" /\ q.kind = next /\ q.put = n
              /\ q.have = Kinds /\ q.sid = s /\ q.off = o /\ q.moff = x.moff
      BY <3>1, <3>2 DEF Writer
    <3> QED BY <3>3 DEF o
  <2> HIDE DEF x, adv, next
  <2>2. Becomes(w, r)
    BY <1>13
  <2> HIDE DEF r
  <2> QED BY <1>11, <1>13, <2>1, <2>2 DEF adv, next
<1>14. CASE /\ k = "meta" /\ UNCHANGED acked
            /\ Becomes(w, [x EXCEPT !.pc = "write", !.kind = next,
                                    !.moff = x.moff + MetaLine])
  <2> DEFINE r == [x EXCEPT !.pc = "write", !.kind = next, !.moff = x.moff + MetaLine]
  <2>1. /\ r \in Writer /\ r.pc = "write" /\ r.kind = next /\ r.put = n
        /\ r.have = Kinds /\ r.sid = s /\ r.off = x.off /\ r.moff = x.moff + MetaLine
    <3> DEFINE o == x.moff + MetaLine
    <3>1. /\ x \in Writer /\ x.have = Kinds /\ x.put = n /\ x.sid = s
          /\ next \in Kinds
      BY <1>2, <1>3, <1>12
    <3>2. o \in Nat
      <4>1. x.moff \in Nat /\ MetaLine \in Nat
        BY <1>5, <1>12
      <4> QED BY <4>1
    <3> HIDE DEF x, next, o
    <3>3. LET q == [x EXCEPT !.pc = "write", !.kind = next, !.moff = o]
          IN  /\ q \in Writer /\ q.pc = "write" /\ q.kind = next /\ q.put = n
              /\ q.have = Kinds /\ q.sid = s /\ q.off = x.off /\ q.moff = o
      BY <3>1, <3>2 DEF Writer
    <3> QED BY <3>3 DEF o
  <2> HIDE DEF x, next
  <2>2. Becomes(w, r)
    BY <1>14
  <2> HIDE DEF r
  <2> QED BY <1>11, <1>14, <2>1, <2>2 DEF next
<1>15. CASE /\ k = "idx" /\ acked' = acked \cup {n}
            /\ Becomes(w, Returned([x EXCEPT !.raw = @ + size]))
  <2> DEFINE y == [x EXCEPT !.raw = @ + size]
             r == Returned(y)
  <2>1. /\ y \in Writer /\ y.have = Kinds /\ y.sid = s /\ y.off = x.off /\ y.moff = x.moff
    <3>1. size \in Nat
      BY <1>2
    <3> HIDE DEF x, size
    <3> QED BY <1>2, <1>3, <3>1 DEF Writer
  <2>2. Becomes(w, r)
    BY <1>15
  <2> HIDE DEF y
  <2>3. /\ r \in Writer /\ r.pc = "idle" /\ r.call = "none"
        /\ r.have = Kinds /\ r.sid = s /\ r.off = x.off /\ r.moff = x.moff
    BY <2>1 DEF Returned, Writer, Kinds
  <2> HIDE DEF r, x
  <2> QED BY <1>11, <1>15, <2>2, <2>3
<1> QED
  BY <1>3, <1>13, <1>14, <1>15 DEF Sync

-----------------------------------------------------------------------------
(* Every step of every call, every failure and every crash keeps the       *)
(* offsets in step with the files (writer.rs:78-320).                      *)
THEOREM NextFilesIInv == FilesIInv /\ [Next]_vars => FilesIInv'
<1> SUFFICES ASSUME FilesIInv, [Next]_vars PROVE FilesIInv'
  OBVIOUS
<1>1. CASE UNCHANGED vars
  <2> USE <1>1 DEF vars
  <2>1. IInv'
    BY NextIInv DEF FilesIInv
  <2>2. BookOK' /\ SkewOK'
    BY DEF FilesIInv, BookOK, SkewOK, Owns, At
  <2>3. \A w \in Writers : LenOK(w)' /\ PlaceOK(w)'
    BY OthersKeep
  <2>4. AckedPlaced' /\ OrderOK'
    BY NoneAcked, OrderKept
  <2> QED BY <2>1, <2>2, <2>3, <2>4 DEF FilesIInv
<1>2. ASSUME NEW w \in Writers, Call(w) PROVE FilesIInv'
  BY <1>2, CallsStill DEF Call
<1>3. ASSUME NEW w \in Writers, Step(w) PROVE FilesIInv'
  BY <1>3, CallsStill, FailuresStill, CreateFiles, HeaderFiles, BuildFiles,
     WriteFiles, SyncFiles, FlushStill DEF Step
<1>4. ASSUME NEW w \in Writers, Failure(w) PROVE FilesIInv'
  BY <1>4, FailuresStill, HeaderFailsFiles, WriteFailsFiles, SyncFailsFiles
     DEF Failure
<1>5. CASE Crash
  BY <1>5, CrashFiles
<1> QED BY <1>1, <1>2, <1>3, <1>4, <1>5 DEF Next

(* In every reachable state the offsets and the order of the records are   *)
(* what the puts booked, up to what failed half way.                       *)
THEOREM SpecFilesIInv == Spec => []FilesIInv
BY InitFilesIInv, NextFilesIInv, PTL DEF Spec

(* The offset in every index_id that put returned is where its record is,  *)
(* unless an earlier put to the stack failed half way (writer.rs:285-306). *)
THEOREM SpecAckedLocated == Spec => []AckedLocated
<1>1. FilesIInv => AckedLocated
  <2> SUFFICES ASSUME FilesIInv, NEW n \in acked,
                      NEW f, f = file[book[n].sid]
               PROVE  /\ Straight(n, "data") =>
                           [at |-> book[n].off, put |-> n] \in f["data"].recs
                      /\ Straight(n, "meta") =>
                           [at |-> book[n].moff, put |-> n] \in f["meta"].recs
                      /\ Straight(n, "idx") =>
                           \E e \in f["idx"].recs : e.put = n /\ IdxPlace(e.at)
    BY DEF AckedLocated
  <2>1. \A k \in Kinds : Straight(n, k) => \E e \in Durable(book[n].sid, k) : Placed(n, k, e)
    BY DEF FilesIInv, AckedPlaced, PlacedIn
  <2>2. \A k \in Kinds : \A e \in Durable(book[n].sid, k) :
          e \in f[k].recs /\ e = [at |-> e.at, put |-> e.put]
    BY Entry_End DEF FilesIInv, IInv, NumbersOK, Durable, Entry
  <2> QED BY <2>1, <2>2 DEF Placed, Kinds
<1> QED BY <1>1, SpecFilesIInv, PTL

(* Records with different put numbers are as many as their numbers. *)
LEMMA SameCount ==
  ASSUME NEW B, NEW P, IsFiniteSet(P),
         \A e \in B : e.put \in P,
         \A e, o \in B : e.put = o.put => e = o,
         \A m \in P : \E e \in B : e.put = m
  PROVE  Cardinality(B) = Cardinality(P)
<1> DEFINE F == [e \in B |-> e.put]
<1>1. F \in [B -> P] /\ \A e \in B : F[e] = e.put
  OBVIOUS
<1> HIDE DEF F
<1>2. F \in Injection(B, P)
  <2>1. \A a, b \in B : F[a] = F[b] => a = b
    BY <1>1
  <2> QED BY <1>1, <2>1, Fun_IsInj
<1>3. F \in Surjection(B, P)
  <2>1. \A m \in P : \E e \in B : F[e] = m
    BY <1>1
  <2> QED BY <1>1, <2>1, Fun_IsSurj
<1> QED BY <1>2, <1>3, FS_Injection

(* The i-th record of `.idx`, of `.data` and of `.meta` are of one put, for *)
(* every acknowledged put that no failed put to its stack precedes         *)
(* (writer.rs:283-302).                                                    *)
THEOREM SpecFilesInStep == Spec => []FilesInStep
<1>1. FilesIInv => FilesInStep
  <2> SUFFICES ASSUME FilesIInv, NEW n \in acked,
                      \A m \in Puts : m < n /\ book[m].sid = book[n].sid =>
                        m \in acked \/ ~LeftTraces(m),
                      NEW k \in Kinds
               PROVE  Rank(file[book[n].sid][k], n)
                        = Cardinality({m \in acked : m < n /\ book[m].sid = book[n].sid})
    BY DEF FilesInStep, Kinds
  <2> DEFINE P == {m \in acked : m < n /\ book[m].sid = book[n].sid}
             R == file[book[n].sid][k].recs
             B == {e \in R : \A o \in R : o.put = n => e.at < o.at}
  <2>1. IsFiniteSet(P)
    <3>1. P \subseteq Puts
      BY DEF FilesIInv, IInv, TypeOK
    <3>2. IsFiniteSet(Puts)
      <4>1. 1 \in Int /\ MaxPuts \in Int
        BY BoundsAssumption
      <4> QED BY <4>1, FS_Interval DEF Puts
    <3> HIDE DEF P
    <3> QED BY <3>1, <3>2, FS_Subset
  <2>2. PICK s \in Sids : s = book[n].sid
    BY DEF FilesIInv, IInv, NumbersOK
  <2>3. \A m \in acked : book[m].sid = s => \E e \in R : e.put = m
    BY <2>2 DEF FilesIInv, IInv, AckedDurable, Stored, Durable
  <2>4. PICK o \in R : o.put = n
    BY <2>2, <2>3
  <2>5. \A e \in R : e.put \in Puts /\ e.put \in Nat /\ e.at \in Nat /\ book[e.put].sid = s
    BY <2>2, Entry_End, BoundsAssumption DEF FilesIInv, IInv, FilesOK, Entry, Puts
  <2>6. \A e, d \in R : /\ e.put = d.put => e = d
                        /\ e.put < d.put => e.at < d.at
    BY <2>2 DEF FilesIInv, OrderOK
  <2>7. \A e \in R : e.put < n => e.put \in acked
    BY <2>2, <2>5 DEF LeftTraces
  <2>8. \A e \in R : e \in B <=> e.put < n
    <3> SUFFICES ASSUME NEW e \in R PROVE e.at < o.at <=> e.put < o.put
      BY <2>4, <2>6
    <3>1. e.put < o.put => e.at < o.at
      BY <2>6
    <3>2. e.put = o.put => e = o
      BY <2>6
    <3>3. o.put < e.put => o.at < e.at
      BY <2>6
    <3>4. e.put \in Nat /\ e.at \in Nat /\ o.put \in Nat /\ o.at \in Nat
      BY <2>5
    <3> QED BY <3>1, <3>2, <3>3, <3>4
  <2>9. B \subseteq R /\ Rank(file[book[n].sid][k], n) = Cardinality(B)
    BY DEF Rank
  <2>10. \A e \in B : e.put \in P
    BY <2>2, <2>5, <2>7, <2>8, <2>9
  <2>11. \A m \in P : \E e \in B : e.put = m
    BY <2>2, <2>3, <2>8
  <2>12. \A e, d \in B : e.put = d.put => e = d
    BY <2>6, <2>9
  <2> HIDE DEF P, B, R
  <2>13. Cardinality(B) = Cardinality(P)
    BY <2>1, <2>10, <2>11, <2>12, SameCount
  <2> QED BY <2>9, <2>13 DEF P
<1> QED BY <1>1, SpecFilesIInv, PTL
=============================================================================
