--------------------------- MODULE OpendalProofs ---------------------------
(***************************************************************************)
(* What is proved of the core crate, for any number of writers, puts,      *)
(* stacks and failures, any payloads and cookies, and any limit: the       *)
(* safety properties of OpendalWriter, that it implements StackStore, and  *)
(* that what OpendalReader returns is right while all the writers go on.   *)
(***************************************************************************)
EXTENDS OpendalReaderInv, OpendalStore, TLAPS

(* An index_id is parsed into the offset and the cookie it was made of     *)
(* (index.rs:83-88, index_id.rs:14-35).                                    *)
THEOREM IndexIdRoundTrip ==
  ASSUME NEW off \in Nat, NEW cookie \in 0 .. (CookieSpan - 1)
  PROVE  ParseIndexId(FormatIndexId(off, cookie)) = [off |-> off, cookie |-> cookie]
<1> DEFINE id == off * CookieSpan + cookie
<1>1. CookieSpan \in Nat /\ CookieSpan > 0 /\ cookie \in Nat /\ cookie < CookieSpan
  BY CookieAssumption
<1>2. off * CookieSpan \in Nat /\ id \in Nat
  BY <1>1
<1>3. id \div CookieSpan = off /\ id % CookieSpan = cookie
  BY <1>1, <1>2
<1> QED BY <1>3 DEF ParseIndexId, FormatIndexId

(* data_offset moves forward with every record, and headers and records    *)
(* have natural lengths (data.rs:133-170).                                 *)
LEMMA Lengths ==
  ASSUME NEW n \in Nat
  PROVE  /\ DataAdvance(n) \in Nat /\ DataAdvance(n) > 0
         /\ \A k \in Kinds : EntrySize(k, n) \in Nat /\ HeadSize(k) \in Nat
         /\ EntrySize("data", n) = DataAdvance(n) /\ EntrySize("meta", n) = MetaLine
         /\ HeadSize("data") \in Nat /\ HeadSize("meta") \in Nat
         /\ MetaLine \in Nat
<1>1. RecordSize(n) \in Nat /\ RecordSize(n) > 0
  <2>1. n + HeaderSize \in Nat
    BY HeaderAssumption
  <2>2. (n + HeaderSize) % Alignment \in 0 .. Alignment - 1
    BY <2>1, AlignmentAssumption
  <2> QED BY <2>1, <2>2, HeaderAssumption, AlignmentAssumption
         DEF RecordSize, PaddedDataSize
<1> QED BY <1>1, LineAssumption, IdxAssumption, AlignmentAssumption
        DEF Kinds, EntrySize, HeadSize, DataAdvance

(* Before the first put (bs_opendal_writer.rs:154-166) the inductive       *)
(* invariant holds.                                                        *)
THEOREM InitIInv == Init => IInv
<1> SUFFICES ASSUME Init PROVE IInv
  OBVIOUS
<1> USE BoundsAssumption
<1>0. /\ NoObject \in Blob
      /\ NoBuffers \in [Kinds -> Blob]
  BY DEF NoObject, Blob, NoBuffers, Puts, Entry
<1>1. /\ New \in Writer
      /\ New.pc = "idle" /\ New.call = "none" /\ New.kind = "data"
      /\ ~New.inner /\ ~New.flushed /\ ~New.poisoned
  BY <1>0 DEF New, Writer, Kinds
<1>2. \A w \in Writers : writer[w] = New
  BY DEF Init
<1>3. TypeOK
  <2>1. object \in [Sids -> [Kinds -> Blob]]
    BY <1>0 DEF Init
  <2>2. book \in [Puts -> Booked]
    BY DEF Init, Booked
  <2> QED BY <1>1, <1>2, <2>1, <2>2 DEF Init, TypeOK
<1>4. \A w \in Writers : CallOK(w) /\ InnerOK(w) /\ ~Holds(w) /\ ~At(w, "create")
  BY <1>1, <1>2 DEF CallOK, InnerOK, Holds, At
<1>5. Apart
  BY <1>1, <1>2, <1>4 DEF Apart
<1>6. acked = {} /\ \A s \in Sids : \A k \in Kinds : object[s][k] = NoObject
  BY DEF Init
<1>7. FreshOK
  BY <1>4, <1>6 DEF FreshOK, Untouched, AckedIn
<1>8. Accounted /\ PublishedWhole /\ AckedIdsUnique
  BY <1>6 DEF Accounted, PublishedWhole, AckedIdsUnique, Kinds, NoObject
<1> QED BY <1>3, <1>4, <1>5, <1>7, <1>8 DEF IInv

(* What a step of writer w that acknowledges nothing must keep of its      *)
(* call, its stack and its puts.                                           *)
Keeps(w, r) ==
  /\ r \in Writer
  /\ writer' = [writer EXCEPT ![w] = r]
  /\ book' = book /\ acked' = acked
  /\ puts' \in 0 .. MaxPuts /\ puts' \in {puts, puts + 1}
  /\ nextId' \in Nat \ {0} /\ nextId' >= nextId
  /\ abandoned' \subseteq Sids /\ abandoned \subseteq abandoned'
  /\ faults' \in 0 .. MaxFaults
  /\ r.pc \in {"write", "close"} => r.inner
  /\ r.call = "put" =>
       (writer[w].call = "put" /\ r.put = writer[w].put) \/ r.put = puts + 1

(* The parts of the invariant that such a step keeps wherever it leaves    *)
(* the objects.                                                            *)
LEMMA KeepsLocal ==
  ASSUME IInv, NEW w \in Writers, NEW r, Keeps(w, r), CallOK(w)',
         object' \in [Sids -> [Kinds -> Blob]],
         Holds(w)' => \/ Holds(w) /\ r.sid = writer[w].sid
                      \/ r.sid = nextId
  PROVE  /\ TypeOK' /\ Apart' /\ AckedIdsUnique'
         /\ \A v \in Writers : CallOK(v)'
         /\ writer'[w] = r /\ \A v \in Writers : v # w => writer'[v] = writer[v]
         /\ \A s : AckedIn(s)' = AckedIn(s)
<1> USE DEF IInv
<1>w. /\ writer'[w] = r
      /\ \A v \in Writers : v # w => writer'[v] = writer[v]
  BY DEF TypeOK, Keeps
<1>1. TypeOK'
  <2>1. writer' \in [Writers -> Writer]
    BY DEF TypeOK, Keeps
  <2>2. \A v \in Writers : writer'[v].pc \in {"write", "close"} => writer'[v].inner
    BY <1>w DEF TypeOK, Keeps
  <2> QED BY <2>1, <2>2 DEF TypeOK, Keeps
<1>2. \A v \in Writers : CallOK(v)'
  <2> SUFFICES ASSUME NEW v \in Writers, v # w PROVE CallOK(v)'
    OBVIOUS
  <2>1. CallOK(v) /\ writer'[v] = writer[v] /\ acked' = acked /\ writer[v] \in Writer
    BY <1>w DEF Keeps, TypeOK
  <2>2. /\ puts' >= puts /\ puts \in Nat /\ puts' \in Nat
        /\ nextId' >= nextId /\ nextId' \in Nat /\ nextId \in Nat
    BY BoundsAssumption DEF Keeps, TypeOK
  <2>3. writer[v].sid \in Nat /\ writer[v].put \in Nat
    BY <2>1 DEF Writer
  <2>4. Holds(v)' = Holds(v)
    BY <2>1 DEF Holds
  <2>5. writer[v].call = "put" => writer[v].put \in 1 .. puts'
    BY <2>1, <2>2, <2>3 DEF CallOK
  <2>6. Holds(v) => writer[v].sid \in Sids /\ writer[v].sid < nextId'
    BY <2>1, <2>2, <2>3 DEF CallOK
  <2> QED BY <2>1, <2>4, <2>5, <2>6 DEF CallOK
<1>3. Apart'
  <2> SUFFICES ASSUME NEW v \in Writers, NEW u \in Writers, v # u
               PROVE  /\ writer'[v].call = "put" /\ writer'[u].call = "put" =>
                           writer'[v].put # writer'[u].put
                      /\ Holds(v)' /\ Holds(u)' => writer'[v].sid # writer'[u].sid
    BY DEF Apart
  <2>1. \A x \in Writers : writer[x].call = "put" => writer[x].put <= puts /\ writer[x].put \in Nat
    BY BoundsAssumption DEF CallOK, TypeOK
  <2>2. \A x \in Writers : Holds(x) => writer[x].sid < nextId
    BY DEF CallOK
  <2>3. puts \in Nat /\ nextId \in Nat
    BY BoundsAssumption DEF TypeOK
  <2>4. \A x \in Writers : x # w => Holds(x)' = Holds(x)
    BY <1>w DEF Holds
  <2>5. \A x \in Writers : x # w /\ writer[x].call = "put" /\ r.call = "put" =>
          writer[x].put # r.put
    BY <2>1, <2>3 DEF Apart, Keeps
  <2>6. \A x \in Writers : x # w /\ Holds(x) /\ Holds(w)' => writer[x].sid # r.sid
    BY <2>2, <2>3 DEF Apart, TypeOK
  <2> QED BY <1>w, <2>4, <2>5, <2>6 DEF Apart
<1>4. AckedIdsUnique'
  BY DEF AckedIdsUnique, Keeps
<1>5. \A s : AckedIn(s)' = AckedIn(s)
  BY DEF AckedIn, Keeps
<1> QED BY <1>w, <1>1, <1>2, <1>3, <1>4, <1>5

(* A step that publishes nothing.  The InnerWriter stays, or its stack is  *)
(* abandoned.                                                              *)
LEMMA QuietStep ==
  ASSUME IInv, NEW w \in Writers, NEW r, Keeps(w, r), CallOK(w)', InnerOK(w)',
         object' = object,
         Holds(w)' => \/ Holds(w) /\ r.sid = writer[w].sid
                      \/ r.sid = nextId,
         r.pc = "create" => Untouched(r.sid),
         writer[w].inner =>
           (r.inner /\ r.sid = writer[w].sid) \/ writer[w].sid \in abandoned'
  PROVE  IInv'
<1> USE DEF IInv
<1>1. /\ TypeOK' /\ Apart' /\ AckedIdsUnique'
      /\ \A v \in Writers : CallOK(v)'
      /\ writer'[w] = r /\ \A v \in Writers : v # w => writer'[v] = writer[v]
      /\ \A s : AckedIn(s)' = AckedIn(s)
  <2>1. object' \in [Sids -> [Kinds -> Blob]]
    BY DEF TypeOK
  <2> QED BY <2>1, KeepsLocal
<1>2. \A v \in Writers : InnerOK(v)'
  <2> SUFFICES ASSUME NEW v \in Writers, v # w PROVE InnerOK(v)'
    OBVIOUS
  <2>1. InnerOK(v) /\ writer'[v] = writer[v] /\ book' = book
    BY <1>1 DEF Keeps
  <2> QED BY <1>1, <2>1 DEF InnerOK
<1>3. FreshOK'
  <2>1. \A s : Untouched(s)' = Untouched(s)
    BY <1>1 DEF Untouched
  <2>2. \A s \in Sids : s >= nextId' => s >= nextId
    BY BoundsAssumption DEF Keeps, TypeOK, Sids
  <2>3. \A v \in Writers : At(v, "create")' => Untouched(writer'[v].sid)
    BY <1>1 DEF At, FreshOK
  <2> QED BY <2>1, <2>2, <2>3 DEF FreshOK
<1>4. Accounted'
  <2> SUFFICES ASSUME NEW n \in acked PROVE
         /\ n <= puts'
         /\ book[n].sid \in Sids /\ book[n].sid < nextId'
         /\ book[n].by \in Writers
         /\ \/ IsPublished(n)
            \/ book[n].sid \in abandoned'
            \/ writer'[book[n].by].inner /\ writer'[book[n].by].sid = book[n].sid
    BY DEF Accounted, Keeps, IsPublished
  <2>1. /\ n <= puts /\ book[n].sid \in Sids /\ book[n].sid < nextId
        /\ book[n].by \in Writers
        /\ \/ IsPublished(n)
           \/ book[n].sid \in abandoned
           \/ writer[book[n].by].inner /\ writer[book[n].by].sid = book[n].sid
    BY DEF Accounted
  <2>2. n <= puts' /\ book[n].sid < nextId'
    BY <2>1, BoundsAssumption DEF Keeps, TypeOK, Sids, Puts
  <2> QED BY <1>1, <2>1, <2>2 DEF Keeps
<1>5. PublishedWhole'
  <2>1. \A s, k : Expected(s, k)' = Expected(s, k)
    BY <1>1 DEF Expected, Keeps
  <2> QED BY <1>1, <2>1 DEF PublishedWhole
<1> QED BY <1>1, <1>2, <1>3, <1>4, <1>5

(* The writer and the counters have their types, and a step keeps those it *)
(* leaves alone.                                                           *)
LEMMA Typed ==
  ASSUME IInv, NEW w \in Writers
  PROVE  /\ writer[w] \in Writer /\ CallOK(w) /\ InnerOK(w)
         /\ \A r : Becomes(w, r) => writer'[w] = r
         /\ puts \in 0 .. MaxPuts /\ puts \in Nat
         /\ nextId \in Nat \ {0} /\ abandoned \subseteq Sids
         /\ faults \in 0 .. MaxFaults
         /\ (Fault => faults' \in 0 .. MaxFaults)
         /\ (writer[w].inner => writer[w].sid \in Sids)
         /\ \A n \in acked : n <= puts
BY BoundsAssumption DEF IInv, TypeOK, Becomes, Fault, CallOK, Holds, Accounted

(* A put gets a number of its own (bs_opendal_writer.rs:169-195). *)
LEMMA PutStep ==
  ASSUME IInv, NEW w \in Writers, NEW n \in Sizes, Put(w, n)
  PROVE  IInv'
<1> DEFINE pc == IF ~writer[w].inner THEN "next"
                 ELSE IF Full(writer[w], n) THEN "close" ELSE "write"
           r == [writer[w] EXCEPT !.call = "put", !.size = n, !.put = puts + 1,
                                  !.flushed = FALSE, !.pc = pc]
<1>1. /\ writer[w].pc = "idle" /\ ~writer[w].poisoned
      /\ Becomes(w, r)
      /\ puts' = puts + 1 /\ puts' \in 0 .. MaxPuts
      /\ n \in Nat /\ puts + 1 \in Nat
      /\ pc \in {"next", "close", "write"}
      /\ pc = "next" <=> ~writer[w].inner
      /\ UNCHANGED <<object, book, acked, abandoned, nextId, faults>>
  BY Typed, SizesAssumption, BoundsAssumption DEF Put, At
<1> HIDE DEF pc
<1>2. /\ r \in Writer
      /\ r.pc = pc /\ r.call = "put" /\ r.put = puts + 1 /\ ~r.flushed
      /\ r.poisoned = writer[w].poisoned /\ r.kind = writer[w].kind
      /\ r.inner = writer[w].inner /\ r.sid = writer[w].sid
      /\ r.buf = writer[w].buf /\ r.off = writer[w].off /\ r.moff = writer[w].moff
  BY <1>1, Typed, ZenonT(40) DEF Writer
<1> HIDE DEF r
<1>3. writer'[w] = r
  BY <1>1, Typed
<1>4. Keeps(w, r)
  BY <1>1, <1>2, Typed DEF Keeps, Becomes
<1>5. \A m \in acked : m # puts + 1
  BY Typed
<1>6. CallOK(w)'
  BY <1>1, <1>2, <1>3, <1>5, Typed DEF CallOK, Holds
<1>7. InnerOK(w)'
  <2>1. \A s : AckedIn(s)' = AckedIn(s)
    BY <1>1 DEF AckedIn
  <2>2. InnerOK(w) /\ object' = object /\ book' = book
    BY <1>1, Typed
  <2> QED BY <1>2, <1>3, <2>1, <2>2 DEF InnerOK
<1>8. Holds(w)' => Holds(w) /\ r.sid = writer[w].sid
  BY <1>1, <1>2, <1>3 DEF Holds
<1> QED BY <1>1, <1>2, <1>4, <1>6, <1>7, <1>8, QuietStep

(* The Controller gives out an untouched stack (bs_opendal_writer.rs:198). *)
LEMMA NextStackIdStep ==
  ASSUME IInv, NEW w \in Writers, NextStackId(w)
  PROVE  IInv'
<1> DEFINE r == [writer[w] EXCEPT !.pc = "create", !.sid = nextId]
<1>1. /\ writer[w].pc = "next" /\ nextId \in Sids /\ nextId' = nextId + 1
      /\ Becomes(w, r)
      /\ UNCHANGED <<object, book, puts, acked, abandoned, faults>>
      /\ writer[w].call = "put" /\ ~writer[w].inner
      /\ ~writer[w].flushed /\ ~writer[w].poisoned
  BY Typed DEF NextStackId, At, CallOK
<1>2. /\ r \in Writer /\ r.pc = "create" /\ r.sid = nextId /\ ~r.inner
      /\ r.call = "put" /\ r.put = writer[w].put /\ r.kind = writer[w].kind
      /\ ~r.flushed /\ ~r.poisoned
  BY <1>1, Typed, ZenonT(40) DEF Writer
<1> HIDE DEF r
<1>3. writer'[w] = r
  BY <1>1, Typed
<1>4. Keeps(w, r)
  BY <1>1, <1>2, Typed DEF Keeps, Becomes
<1>5. CallOK(w)' /\ InnerOK(w)'
  BY <1>1, <1>2, <1>3, Typed DEF CallOK, Holds, InnerOK
<1>6. Untouched(r.sid)
  BY <1>1, <1>2, Typed DEF IInv, FreshOK
<1> QED BY <1>1, <1>2, <1>4, <1>5, <1>6, QuietStep

(* A writer that gives its InnerWriter up. *)
GivesUp(w, r) ==
  /\ r \in Writer
  /\ Becomes(w, r)
  /\ r.pc = "idle" /\ r.call = "none" /\ r.kind = "data" /\ ~r.inner
  /\ UNCHANGED <<book, puts, acked>>
  /\ nextId' \in {nextId, nextId + 1}
  /\ faults' \in 0 .. MaxFaults

(* Dropping the InnerWriter abandons its stack, if there was one. *)
LEMMA GiveUpStep ==
  ASSUME IInv, NEW w \in Writers, NEW r, GivesUp(w, r), object' = object,
         abandoned' = Abandons(writer[w])
  PROVE  IInv'
<1>1. writer'[w] = r
  BY Typed DEF GivesUp
<1>2. /\ abandoned' \subseteq Sids /\ abandoned \subseteq abandoned'
      /\ writer[w].inner => writer[w].sid \in abandoned'
  BY Typed DEF Abandons
<1>3. Keeps(w, r)
  BY <1>2, Typed DEF Keeps, GivesUp, Becomes
<1>4. CallOK(w)' /\ InnerOK(w)' /\ ~Holds(w)'
  BY <1>1 DEF GivesUp, CallOK, InnerOK, Holds
<1> QED BY <1>2, <1>3, <1>4, QuietStep DEF GivesUp

(* The writer after a failed call, with a poisoned mutex or without. *)
LEMMA AfterFailureWriter ==
  ASSUME NEW x \in Writer
  PROVE  /\ \A p \in BOOLEAN :
              LET r == [AfterFailure(x) EXCEPT !.poisoned = p]
              IN  /\ r \in Writer
                  /\ r.pc = "idle" /\ r.call = "none" /\ r.kind = "data" /\ ~r.inner
         /\ LET r == AfterFailure(x)
            IN  /\ r \in Writer
                /\ r.pc = "idle" /\ r.call = "none" /\ r.kind = "data" /\ ~r.inner
                /\ r.flushed = x.flushed
<1>1. NoBuffers \in [Kinds -> Blob]
  BY DEF NoBuffers, NoObject, Blob
<1> QED BY <1>1 DEF AfterFailure, Returned, WithoutInner, Writer, Kinds

(* The failures that publish nothing, and the death of a process           *)
(* (bs_opendal_writer.rs:169-266).                                         *)
LEMMA FailureStep ==
  ASSUME IInv, NEW w \in Writers,
         NextStackIdFails(w) \/ CreateFails(w) \/ WriteFails(w) \/ Die(w)
  PROVE  IInv'
<1>1. CASE NextStackIdFails(w)
  BY <1>1, Typed, AfterFailureWriter, GiveUpStep DEF NextStackIdFails, GivesUp
<1>2. CASE CreateFails(w)
  <2>1. PICK p \in BOOLEAN : Becomes(w, [AfterFailure(writer[w]) EXCEPT !.poisoned = p])
    BY <1>2 DEF CreateFails
  <2> DEFINE r == [AfterFailure(writer[w]) EXCEPT !.poisoned = p]
  <2>2. GivesUp(w, r)
    BY <1>2, <2>1, Typed, AfterFailureWriter DEF CreateFails, GivesUp
  <2>3. abandoned' = Abandons(writer[w]) /\ object' = object
    BY <1>2, Typed DEF CreateFails, At, CallOK, Abandons
  <2> HIDE DEF r
  <2> QED BY <2>2, <2>3, GiveUpStep
<1>3. CASE WriteFails(w)
  BY <1>3, Typed, AfterFailureWriter, GiveUpStep DEF WriteFails, GivesUp
<1>4. CASE Die(w)
  <2> DEFINE r == [New EXCEPT !.born = puts]
  <2>1. NoBuffers \in [Kinds -> Blob] /\ puts \in Nat
    BY Typed DEF NoBuffers, NoObject, Blob
  <2>2. /\ r \in Writer
        /\ r.pc = "idle" /\ r.call = "none" /\ r.kind = "data" /\ ~r.inner
    BY <2>1 DEF New, Writer, Kinds
  <2>3. GivesUp(w, r) /\ abandoned' = Abandons(writer[w]) /\ object' = object
    BY <1>4, <2>2, Typed DEF Die, GivesUp
  <2> HIDE DEF r
  <2> QED BY <2>3, GiveUpStep
<1> QED BY <1>1, <1>2, <1>3, <1>4

(* The new buffers hold what the stack holds: nothing                      *)
(* (bs_opendal_writer.rs:217-266).                                         *)
LEMMA CreateStep ==
  ASSUME IInv, NEW w \in Writers, CreateNewWriters(w)
  PROVE  IInv'
<1> DEFINE s == writer[w].sid
           buf == [k \in Kinds |-> Headed(k, s)]
           r == [writer[w] EXCEPT !.pc = "write", !.inner = TRUE, !.buf = buf,
                   !.off = HeadSize("data"), !.moff = HeadSize("meta"), !.total = 0]
<1>1. /\ writer[w].pc = "create" /\ Becomes(w, r)
      /\ UNCHANGED <<object, book, puts, acked, abandoned, nextId, faults>>
      /\ writer[w].call = "put" /\ ~writer[w].inner /\ writer[w].kind = "data"
      /\ ~writer[w].flushed /\ ~writer[w].poisoned
      /\ s \in Sids /\ s \in Nat /\ s < nextId
      /\ Untouched(s)
  BY Typed, BoundsAssumption
     DEF CreateNewWriters, At, CallOK, Holds, IInv, FreshOK, Sids
<1>2. /\ buf \in [Kinds -> Blob]
      /\ \A k \in Kinds : buf[k] = [there |-> TRUE, head |-> s, len |-> HeadSize(k), recs |-> {}]
      /\ HeadSize("data") \in Nat /\ HeadSize("meta") \in Nat
  <2>1. \A k \in Kinds : HeadSize(k) \in Nat
    BY Lengths
  <2> QED BY <1>1, <2>1 DEF Headed, Blob, Kinds
<1> HIDE DEF buf
<1>3. /\ r \in Writer /\ r.pc = "write" /\ r.inner /\ r.buf = buf /\ r.sid = s
      /\ r.off = HeadSize("data") /\ r.moff = HeadSize("meta")
      /\ r.call = "put" /\ r.put = writer[w].put /\ r.kind = "data"
      /\ ~r.flushed /\ ~r.poisoned
  BY <1>1, <1>2, Typed, ZenonT(40) DEF Writer
<1> HIDE DEF r
<1>4. writer'[w] = r
  BY <1>1, Typed
<1>5. Keeps(w, r)
  BY <1>1, <1>3, Typed DEF Keeps, Becomes
<1>6. CallOK(w)'
  BY <1>1, <1>3, <1>4, Typed DEF CallOK, Holds
<1>7. InnerOK(w)'
  <2>0. \A t : AckedIn(t)' = AckedIn(t)
    BY <1>1 DEF AckedIn
  <2>1. AckedIn(s) = {} /\ \A k \in Kinds : object'[s][k] = NoObject
    BY <1>1 DEF Untouched
  <2>2. Before("data") = {} /\ "data" \in Kinds /\ "meta" \in Kinds /\ "idx" \in Kinds
    BY DEF Before, Kinds
  <2> QED BY <1>2, <1>3, <1>4, <2>0, <2>1, <2>2 DEF InnerOK
<1>8. Holds(w) /\ r.sid = writer[w].sid
  BY <1>1, <1>3 DEF Holds
<1> QED BY <1>1, <1>3, <1>5, <1>6, <1>7, <1>8, QuietStep

(* close begins, or finds nothing to do (bs_opendal_writer.rs:268-275). *)
LEMMA CloseStep ==
  ASSUME IInv, NEW w \in Writers, Close(w) \/ CloseNothing(w)
  PROVE  IInv'
<1>0. /\ writer[w] \in Writer /\ writer[w].pc = "idle" /\ CallOK(w) /\ InnerOK(w)
      /\ UNCHANGED <<object, book, puts, acked, abandoned, nextId, faults>>
  BY Typed DEF Close, CloseNothing, At
<1>1. ASSUME NEW r \in Writer, Becomes(w, r), CallOK(w)',
             r.call \in {"none", "close"}, r.pc \in {"idle", "close"},
             r.pc = "close" => r.inner,
             r.inner = writer[w].inner, r.sid = writer[w].sid, r.buf = writer[w].buf,
             r.off = writer[w].off, r.moff = writer[w].moff, r.kind = writer[w].kind
      PROVE  IInv'
  <2>1. writer'[w] = r
    BY <1>1, Typed
  <2>2. Keeps(w, r)
    BY <1>0, <1>1, Typed DEF Keeps, Becomes
  <2>3. \A s : AckedIn(s)' = AckedIn(s)
    BY <1>0 DEF AckedIn
  <2>4. InnerOK(w)'
    BY <1>0, <1>1, <2>1, <2>3 DEF InnerOK
  <2>5. Holds(w)' => Holds(w) /\ r.sid = writer[w].sid
    BY <1>1, <2>1 DEF Holds
  <2> QED BY <1>0, <1>1, <2>2, <2>4, <2>5, QuietStep
<1>2. CASE Close(w)
  <2> DEFINE r == [writer[w] EXCEPT !.pc = "close", !.call = "close"]
  <2>1. /\ Becomes(w, r) /\ writer[w].inner
        /\ ~writer[w].flushed /\ ~writer[w].poisoned
    BY <1>0, <1>2 DEF Close, CallOK
  <2>2. /\ r \in Writer /\ r.pc = "close" /\ r.call = "close"
        /\ ~r.flushed /\ ~r.poisoned
        /\ r.inner = writer[w].inner /\ r.sid = writer[w].sid /\ r.buf = writer[w].buf
        /\ r.off = writer[w].off /\ r.moff = writer[w].moff /\ r.kind = writer[w].kind
    BY <1>0, <2>1 DEF Writer
  <2> HIDE DEF r
  <2>3. writer'[w] = r
    BY <2>1, Typed
  <2>4. CallOK(w)'
    BY <1>0, <2>1, <2>2, <2>3 DEF CallOK, Holds
  <2> QED BY <1>1, <2>1, <2>2, <2>4
<1>3. CASE CloseNothing(w)
  <2> DEFINE r == [writer[w] EXCEPT !.flushed = TRUE]
  <2>1. Becomes(w, r) /\ ~writer[w].inner /\ writer[w].call = "none"
    BY <1>0, <1>3 DEF CloseNothing, CallOK
  <2>2. /\ r \in Writer /\ r.pc = "idle" /\ r.call = "none"
        /\ r.inner = writer[w].inner /\ r.sid = writer[w].sid /\ r.buf = writer[w].buf
        /\ r.off = writer[w].off /\ r.moff = writer[w].moff /\ r.kind = writer[w].kind
    BY <1>0, <2>1 DEF Writer
  <2> HIDE DEF r
  <2>3. writer'[w] = r
    BY <2>1, Typed
  <2>4. CallOK(w)'
    BY <1>0, <2>1, <2>2, <2>3 DEF CallOK, Holds
  <2> QED BY <1>1, <2>1, <2>2, <2>4
<1> QED BY <1>2, <1>3

(* Closing an opendal writer makes an object that was not there before, of *)
(* a stack no other writer works on (bs_opendal_writer.rs:37-48).          *)
LEMMA PublishedObject ==
  ASSUME IInv, NEW w \in Writers, writer[w].inner
  PROVE  LET s == writer[w].sid
             k == writer[w].kind
             b == writer[w].buf
         IN  /\ s \in Sids /\ s < nextId /\ k \in Kinds
             /\ Published(w) \in [Sids -> [Kinds -> Blob]]
             /\ Published(w)[s][k] = b[k]
             /\ \A t \in Sids, j \in Kinds :
                  t # s \/ j # k => Published(w)[t][j] = object[t][j]
             /\ \A j \in Kinds : b[j].there /\ b[j].head = s
             /\ \A j \in Kinds :
                  object[s][j] = IF j \in Before(k) THEN b[j] ELSE NoObject
             /\ k \notin Before(k)
             /\ \A v \in Writers : v # w /\ Holds(v) => writer[v].sid # s
<1>1. /\ writer[w] \in Writer /\ CallOK(w) /\ InnerOK(w) /\ Holds(w)
      /\ object \in [Sids -> [Kinds -> Blob]]
  BY Typed DEF Holds, IInv, TypeOK
<1>2. /\ writer[w].kind \in Kinds /\ writer[w].buf \in [Kinds -> Blob]
      /\ writer[w].sid \in Sids /\ writer[w].sid < nextId
  BY <1>1 DEF Writer, CallOK
<1>3. writer[w].kind \notin Before(writer[w].kind)
  BY <1>2 DEF Before, Kinds
<1>4. \A v \in Writers : v # w /\ Holds(v) => writer[v].sid # writer[w].sid
  BY <1>1 DEF IInv, Apart
<1> QED BY <1>1, <1>2, <1>3, <1>4 DEF Published, InnerOK

(* A step that closes an opendal writer.  The InnerWriter goes only after  *)
(* the index, or its stack is abandoned.                                   *)
LEMMA PublishStep ==
  ASSUME IInv, NEW w \in Writers, NEW r, Keeps(w, r), CallOK(w)', InnerOK(w)',
         writer[w].inner, object' = Published(w),
         Holds(w)' => r.sid = writer[w].sid,
         r.pc # "create",
         \/ r.inner /\ r.sid = writer[w].sid
         \/ writer[w].sid \in abandoned'
         \/ writer[w].kind = "idx"
  PROVE  IInv'
<1> USE DEF IInv
<1> DEFINE s == writer[w].sid
           k == writer[w].kind
           b == writer[w].buf
<1>p. /\ s \in Sids /\ s < nextId /\ k \in Kinds
      /\ object' \in [Sids -> [Kinds -> Blob]]
      /\ object'[s][k] = b[k]
      /\ \A t \in Sids, j \in Kinds : t # s \/ j # k => object'[t][j] = object[t][j]
      /\ \A j \in Kinds : b[j].there /\ b[j].head = s
      /\ \A j \in Kinds : object[s][j] = IF j \in Before(k) THEN b[j] ELSE NoObject
      /\ \A v \in Writers : v # w /\ Holds(v) => writer[v].sid # s
  BY PublishedObject
<1>1. /\ TypeOK' /\ Apart' /\ AckedIdsUnique'
      /\ \A v \in Writers : CallOK(v)'
      /\ writer'[w] = r /\ \A v \in Writers : v # w => writer'[v] = writer[v]
      /\ \A t : AckedIn(t)' = AckedIn(t)
  <2>1. Holds(w)
    BY DEF Holds
  <2> QED BY <1>p, <2>1, KeepsLocal
<1>2. \A v \in Writers : InnerOK(v)'
  <2> SUFFICES ASSUME NEW v \in Writers, v # w PROVE InnerOK(v)'
    OBVIOUS
  <2>1. /\ InnerOK(v) /\ writer'[v] = writer[v] /\ book' = book
        /\ \A t : AckedIn(t)' = AckedIn(t)
    BY <1>1 DEF Keeps
  <2>2. CASE ~writer[v].inner
    <3> HIDE DEF IInv, s, k, b
    <3> QED BY <2>1, <2>2 DEF InnerOK
  <2>3. CASE writer[v].inner
    <3>1. writer[v].sid \in Sids /\ writer[v].sid # s
      BY <1>p, <2>3, Typed DEF Holds
    <3>2. \A j \in Kinds : object'[writer[v].sid][j] = object[writer[v].sid][j]
      BY <1>p, <3>1
    <3> HIDE DEF IInv, s, k, b
    <3> QED BY <2>1, <3>2 DEF InnerOK
  <2> QED BY <2>2, <2>3
<1>3. FreshOK'
  <2>1. \A t \in Sids : t # s => (Untouched(t) => Untouched(t)')
    BY <1>1, <1>p DEF Untouched
  <2>2. \A t \in Sids : t >= nextId' => t >= nextId /\ t # s
    BY <1>p, BoundsAssumption DEF Keeps, TypeOK, Sids
  <2>3. \A v \in Writers : At(v, "create")' =>
          v # w /\ At(v, "create") /\ writer'[v].sid = writer[v].sid
          /\ writer[v].sid \in Sids /\ writer[v].sid # s
    BY <1>1, <1>p DEF At, Holds, CallOK
  <2>4. \A v \in Writers : At(v, "create")' => Untouched(writer[v].sid)'
    BY <2>1, <2>3 DEF FreshOK
  <2> QED BY <2>1, <2>2, <2>4 DEF FreshOK
<1>4. Accounted'
  <2> SUFFICES ASSUME NEW n \in acked PROVE
         /\ n <= puts'
         /\ book[n].sid \in Sids /\ book[n].sid < nextId'
         /\ book[n].by \in Writers
         /\ \/ object'[book[n].sid]["idx"].there
            \/ book[n].sid \in abandoned'
            \/ writer'[book[n].by].inner /\ writer'[book[n].by].sid = book[n].sid
    BY DEF Accounted, Keeps, IsPublished
  <2>1. /\ n <= puts /\ book[n].sid \in Sids /\ book[n].sid < nextId
        /\ book[n].by \in Writers
        /\ \/ IsPublished(n)
           \/ book[n].sid \in abandoned
           \/ writer[book[n].by].inner /\ writer[book[n].by].sid = book[n].sid
    BY DEF Accounted
  <2>2. n <= puts' /\ book[n].sid < nextId'
    BY <2>1, BoundsAssumption DEF Keeps, TypeOK, Sids, Puts
  <2>3. IsPublished(n) => object'[book[n].sid]["idx"].there
    BY <1>p, <2>1 DEF IsPublished, Kinds
  <2>4. k = "idx" => object'[s]["idx"].there
    BY <1>p
  <2> QED BY <1>1, <2>1, <2>2, <2>3, <2>4 DEF Keeps
<1>5. PublishedWhole'
  <2> SUFFICES ASSUME NEW t \in Sids, object'[t]["idx"].there
               PROVE  /\ {e.put : e \in object'[t]["idx"].recs} = AckedIn(t)
                      /\ \A j \in Kinds :
                           object'[t][j].there /\ object'[t][j].head = t
                             /\ object'[t][j].recs = Expected(t, j)'
    BY <1>1 DEF PublishedWhole
  <2>1. CASE t # s
    <3>1. \A j \in Kinds : object'[t][j] = object[t][j]
      BY <2>1, <1>p
    <3>2. "idx" \in Kinds
      BY DEF Kinds
    <3>3. \A j \in Kinds : Expected(t, j)' = Expected(t, j)
      <4>1. AckedIn(t)' = AckedIn(t) /\ book' = book
        BY <1>1 DEF Keeps
      <4> QED BY <4>1, <3>1, <3>2 DEF Expected
    <3> QED BY <3>1, <3>2, <3>3 DEF PublishedWhole
  <2>2. CASE t = s
    <3>1. k = "idx"
      BY <2>2, <1>p DEF Before, Kinds, NoObject
    <3>2. \A j \in Kinds : object'[t][j] = b[j]
      BY <2>2, <3>1, <1>p DEF Before, Kinds
    <3>3. InnerOK(w) /\ book' = book /\ AckedIn(t)' = AckedIn(t)
      BY <1>1 DEF Keeps
    <3>4. Expected(t, "data")' = b["data"].recs /\ Expected(t, "meta")' = b["meta"].recs
      BY <2>2, <3>3 DEF Expected, InnerOK
    <3>5. Expected(t, "idx")' = b["idx"].recs
      BY <3>2 DEF Expected, Kinds
    <3>6. {e.put : e \in b["idx"].recs} = AckedIn(t)
      BY <2>2, <3>3 DEF InnerOK
    <3>7. \A j \in Kinds : b[j].recs = Expected(t, j)'
      BY <3>4, <3>5 DEF Kinds
    <3>8. "idx" \in Kinds /\ \A j \in Kinds : b[j].there /\ b[j].head = t
      BY <2>2, <1>p DEF Kinds
    <3> HIDE DEF IInv, s, k, b
    <3> QED BY <3>2, <3>6, <3>7, <3>8
  <2> QED BY <2>1, <2>2
<1> QED BY <1>1, <1>2, <1>3, <1>4, <1>5

(* InnerWriter::close publishes the payloads, the meta and, last, the      *)
(* index (bs_opendal_writer.rs:37-48).                                     *)
LEMMA CloseWriterStep ==
  ASSUME IInv, NEW w \in Writers, CloseWriter(w)
  PROVE  IInv'
<1> DEFINE x == writer[w]
           k == writer[w].kind
<1>1. /\ x \in Writer /\ x.pc = "close" /\ x.inner /\ CallOK(w) /\ InnerOK(w)
      /\ x.call \in {"put", "close"} /\ ~x.flushed /\ ~x.poisoned
      /\ k \in Kinds /\ x.sid \in Sids /\ x.sid < nextId
      /\ object' = Published(w)
      /\ UNCHANGED <<book, puts, acked, abandoned, nextId, faults>>
  BY Typed, PublishedObject DEF CloseWriter, At, CallOK, Writer, IInv, TypeOK
<1>2. /\ \A j \in Kinds : j # k => object'[x.sid][j] = object[x.sid][j]
      /\ object'[x.sid][k] = x.buf[k]
  BY <1>1, PublishedObject
<1>3. ASSUME NEW r \in Writer, Becomes(w, r), CallOK(w)', InnerOK(w)', r.pc # "create",
             r.pc \in {"write", "close"} => r.inner,
             r.call = "put" => x.call = "put" /\ r.put = x.put,
             r.inner => r.sid = x.sid,
             r.inner \/ k = "idx"
      PROVE  IInv'
  <2>1. writer'[w] = r
    BY <1>3, Typed
  <2>2. Keeps(w, r)
    BY <1>1, <1>3, Typed DEF Keeps, Becomes
  <2>3. Holds(w)' => r.sid = x.sid
    BY <1>3, <2>1 DEF Holds
  <2> QED BY <1>1, <1>3, <2>2, <2>3, PublishStep
<1>4. CASE ~IsLast(k)
  <2> DEFINE r == [x EXCEPT !.kind = NextKind(k)]
  <2>1. Becomes(w, r)
    BY <1>4 DEF CloseWriter
  <2>2. k \in {"data", "meta"} /\ NextKind(k) \in Kinds
    BY <1>1, <1>4 DEF IsLast, NextKind, Kinds
  <2>3. /\ r \in Writer /\ r.pc = "close" /\ r.call = x.call /\ r.inner
        /\ ~r.flushed /\ ~r.poisoned /\ r.put = x.put
        /\ r.sid = x.sid /\ r.buf = x.buf /\ r.off = x.off /\ r.moff = x.moff
        /\ r.kind = NextKind(k)
    BY <1>1, <2>2 DEF Writer
  <2> HIDE DEF r
  <2>4. writer'[w] = r
    BY <2>1, Typed
  <2>5. CallOK(w)'
    BY <1>1, <2>3, <2>4 DEF CallOK, Holds
  <2>6. \A j \in Kinds :
          object'[x.sid][j] = IF j \in Before(NextKind(k)) THEN x.buf[j] ELSE NoObject
    <3>1. Before(NextKind(k)) = Before(k) \cup {k}
      BY <2>2 DEF Before, NextKind
    <3>2. \A j \in Kinds :
            object[x.sid][j] = IF j \in Before(k) THEN x.buf[j] ELSE NoObject
      BY <1>1 DEF InnerOK
    <3> QED BY <1>2, <3>1, <3>2
  <2>7. InnerOK(w)'
    <3>1. \A t : AckedIn(t)' = AckedIn(t)
      BY <1>1 DEF AckedIn
    <3>2. InnerOK(w) /\ book' = book /\ x.inner
      BY <1>1
    <3> QED BY <2>3, <2>4, <2>6, <3>1, <3>2 DEF InnerOK
  <2> QED BY <1>3, <2>1, <2>3, <2>5, <2>7
<1>5. CASE IsLast(k)
  <2>1. k = "idx"
    BY <1>5 DEF IsLast, NextKind
  <2>2. NoBuffers \in [Kinds -> Blob]
    BY DEF NoBuffers, NoObject, Blob
  <2>3. CASE x.call = "put"
    <3> DEFINE r == [WithoutInner(x) EXCEPT !.pc = "next", !.kind = "data"]
    <3>1. Becomes(w, r)
      BY <1>5, <2>3 DEF CloseWriter
    <3>2. /\ r \in Writer /\ r.pc = "next" /\ r.call = "put" /\ ~r.inner
          /\ ~r.flushed /\ ~r.poisoned /\ r.put = x.put /\ r.kind = "data"
      BY <1>1, <2>2, <2>3 DEF WithoutInner, Writer, Kinds
    <3> HIDE DEF r
    <3>3. writer'[w] = r
      BY <3>1, Typed
    <3>4. CallOK(w)' /\ InnerOK(w)'
      BY <1>1, <2>3, <3>2, <3>3 DEF CallOK, Holds, InnerOK
    <3> QED BY <1>3, <2>1, <2>3, <3>1, <3>2, <3>4
  <2>4. CASE x.call = "close"
    <3> DEFINE r == [Returned(WithoutInner(x)) EXCEPT !.flushed = TRUE]
    <3>1. Becomes(w, r)
      BY <1>5, <2>4 DEF CloseWriter
    <3>2. /\ r \in Writer /\ r.pc = "idle" /\ r.call = "none" /\ ~r.inner
          /\ r.kind = "data"
      BY <1>1, <2>2 DEF Returned, WithoutInner, Writer, Kinds
    <3> HIDE DEF r
    <3>3. writer'[w] = r
      BY <3>1, Typed
    <3>4. CallOK(w)' /\ InnerOK(w)'
      BY <3>2, <3>3 DEF CallOK, Holds, InnerOK
    <3> QED BY <1>3, <2>1, <3>1, <3>2, <3>4
  <2> QED BY <1>1, <2>3, <2>4
<1> QED BY <1>4, <1>5

(* A close that fails leaves the object there or not, and the stack        *)
(* abandoned (bs_opendal_writer.rs:37-48).                                 *)
LEMMA CloseWriterFailsStep ==
  ASSUME IInv, NEW w \in Writers, CloseWriterFails(w)
  PROVE  IInv'
<1> DEFINE r == AfterFailure(writer[w])
<1>1. /\ GivesUp(w, r) /\ abandoned' = Abandons(writer[w])
      /\ writer[w].pc = "close" /\ object' \in {object, Published(w)}
  BY Typed, AfterFailureWriter DEF CloseWriterFails, GivesUp, At
<1> HIDE DEF r
<1>2. CASE object' = object
  BY <1>1, <1>2, GiveUpStep
<1>3. CASE object' = Published(w)
  <2>1. writer[w].inner
    BY <1>1 DEF IInv, TypeOK
  <2>2. /\ abandoned' \subseteq Sids /\ abandoned \subseteq abandoned'
        /\ writer[w].sid \in abandoned'
    BY <1>1, <2>1, Typed DEF Abandons
  <2>3. writer'[w] = r
    BY <1>1, Typed DEF GivesUp
  <2>4. Keeps(w, r)
    BY <1>1, <2>2, Typed DEF Keeps, GivesUp, Becomes
  <2>5. CallOK(w)' /\ InnerOK(w)' /\ ~Holds(w)'
    BY <1>1, <2>3 DEF GivesUp, CallOK, InnerOK, Holds
  <2> QED BY <1>1, <1>3, <2>1, <2>2, <2>4, <2>5, PublishStep DEF GivesUp
<1> QED BY <1>1, <1>2, <1>3

(* The writer after InnerWriter::write (bs_opendal_writer.rs:50-140). *)
LEMMA WrittenWriter ==
  ASSUME NEW x \in Writer, x.put \in Puts
  PROVE  LET r == Returned(Written(x))
         IN  /\ r \in Writer
             /\ r.pc = "idle" /\ r.call = "none" /\ r.kind = "data"
             /\ r.inner = x.inner /\ r.sid = x.sid
             /\ r.flushed = x.flushed /\ r.poisoned = x.poisoned
             /\ r.off = x.off + DataAdvance(x.size)
             /\ r.moff = x.moff + MetaLine
             /\ \A k \in Kinds :
                  /\ r.buf[k].there = x.buf[k].there /\ r.buf[k].head = x.buf[k].head
                  /\ r.buf[k].len = x.buf[k].len + EntrySize(k, x.size)
                  /\ r.buf[k].recs = x.buf[k].recs \cup {[at |-> x.buf[k].len, put |-> x.put]}
<1> DEFINE b == [k \in Kinds |-> Appended(x.buf[k], x.put, EntrySize(k, x.size))]
<1>1. /\ x.size \in Nat /\ x.off \in Nat /\ x.moff \in Nat /\ x.total \in Nat
      /\ x.buf \in [Kinds -> Blob]
  BY DEF Writer
<1>2. /\ DataAdvance(x.size) \in Nat /\ MetaLine \in Nat
      /\ \A k \in Kinds : EntrySize(k, x.size) \in Nat
  BY <1>1, Lengths
<1>3. ASSUME NEW k \in Kinds
      PROVE  /\ b[k] \in Blob
             /\ b[k].there = x.buf[k].there /\ b[k].head = x.buf[k].head
             /\ b[k].len = x.buf[k].len + EntrySize(k, x.size)
             /\ b[k].recs = x.buf[k].recs \cup {[at |-> x.buf[k].len, put |-> x.put]}
  <2>1. x.buf[k] \in Blob /\ EntrySize(k, x.size) \in Nat
    BY <1>1, <1>2
  <2>2. [at |-> x.buf[k].len, put |-> x.put] \in Entry
    BY <2>1 DEF Blob, Entry
  <2> DEFINE c == x.buf[k]
             l == x.buf[k].len + EntrySize(k, x.size)
             e == x.buf[k].recs \cup {[at |-> x.buf[k].len, put |-> x.put]}
  <2>3. b[k] = [c EXCEPT !.len = l, !.recs = e]
    BY DEF Appended
  <2>4. c \in Blob /\ l \in Nat /\ e \in SUBSET Entry
    BY <2>1, <2>2 DEF Blob
  <2> HIDE DEF b, c, l, e
  <2>5. /\ b[k] \in Blob /\ b[k].there = c.there /\ b[k].head = c.head
        /\ b[k].len = l /\ b[k].recs = e
    BY <2>3, <2>4 DEF Blob
  <2> QED BY <2>5 DEF c, l, e
<1>4. b \in [Kinds -> Blob]
  BY <1>3
<1>5. Written(x) = [x EXCEPT !.buf = b, !.off = @ + DataAdvance(x.size),
                             !.moff = @ + MetaLine, !.total = @ + x.size]
  BY <1>1 DEF Written, Writer
<1> HIDE DEF b
<1>6. /\ x.off + DataAdvance(x.size) \in Nat /\ x.moff + MetaLine \in Nat
      /\ x.total + x.size \in Nat
  BY <1>1, <1>2
<1> DEFINE y == Written(x)
<1>7. /\ y \in Writer
      /\ y.inner = x.inner /\ y.sid = x.sid
      /\ y.flushed = x.flushed /\ y.poisoned = x.poisoned
      /\ y.buf = b
      /\ y.off = x.off + DataAdvance(x.size)
      /\ y.moff = x.moff + MetaLine
  BY <1>4, <1>5, <1>6 DEF Writer
<1> HIDE DEF y
<1>8. LET r == Returned(y)
      IN  /\ r \in Writer
          /\ r.pc = "idle" /\ r.call = "none" /\ r.kind = "data"
          /\ r.inner = y.inner /\ r.sid = y.sid
          /\ r.flushed = y.flushed /\ r.poisoned = y.poisoned
          /\ r.off = y.off /\ r.moff = y.moff /\ r.buf = y.buf
  BY <1>7 DEF Returned, Writer, Kinds
<1> QED BY <1>3, <1>7, <1>8 DEF y

(* A record goes to the end of the buffers of a stack no other writer      *)
(* works on, and its put is acknowledged (bs_opendal_writer.rs:50-140).    *)
LEMMA WriteStep ==
  ASSUME IInv, NEW w \in Writers, Write(w)
  PROVE  IInv'
<1> USE DEF IInv
<1> DEFINE x == writer[w]
           p == writer[w].put
           s == writer[w].sid
           r == Returned(Written(x))
<1>1. /\ x \in Writer /\ x.pc = "write" /\ x.call = "put" /\ x.kind = "data"
      /\ x.inner /\ ~x.flushed /\ ~x.poisoned
      /\ InnerOK(w) /\ Holds(w)
      /\ p \in Puts /\ p \notin acked /\ p <= puts
      /\ s \in Sids /\ s < nextId
      /\ acked' = acked \cup {p} /\ Becomes(w, r)
      /\ UNCHANGED <<object, puts, abandoned, nextId, faults>>
  BY Typed, BoundsAssumption DEF Write, At, CallOK, Holds, Puts, TypeOK
<1>2. /\ x.size \in Nat /\ x.off \in Nat /\ x.moff \in Nat
      /\ x.off + DataAdvance(x.size) > x.off
  <2>1. x.size \in Nat /\ x.off \in Nat /\ x.moff \in Nat
    BY <1>1 DEF Writer
  <2> QED BY <2>1, Lengths
<1>3. PICK cookie \in Cookies : book' = [book EXCEPT ![p] = Booking(w, cookie)]
  BY DEF Write
<1>4. /\ book' \in [Puts -> Booked]
      /\ \A n \in acked : n # p /\ book'[n] = book[n] /\ n \in Puts
      /\ book'[p].sid = s /\ book'[p].off = x.off /\ book'[p].moff = x.moff
      /\ book'[p].by = w
  <2>1. cookie \in Nat
    BY CookiesAssumption, CookieAssumption
  <2>2. Booking(w, cookie) \in Booked
    BY <1>1, <1>2, <2>1, BoundsAssumption DEF Booking, Booked, Sids
  <2> QED BY <1>1, <1>3, <2>2 DEF TypeOK, Booking
<1>5. /\ \A t : t # s => AckedIn(t)' = AckedIn(t)
      /\ \A t : t = s => AckedIn(t)' = AckedIn(t) \cup {p}
  BY <1>1, <1>4 DEF AckedIn
<1>6. /\ r \in Writer
      /\ r.pc = "idle" /\ r.call = "none" /\ r.kind = "data"
      /\ r.inner /\ r.sid = s /\ ~r.flushed /\ ~r.poisoned
      /\ r.off = x.off + DataAdvance(x.size)
      /\ r.moff = x.moff + MetaLine
      /\ \A k \in Kinds :
           /\ r.buf[k].there = x.buf[k].there /\ r.buf[k].head = x.buf[k].head
           /\ r.buf[k].len = x.buf[k].len + EntrySize(k, x.size)
           /\ r.buf[k].recs = x.buf[k].recs \cup {[at |-> x.buf[k].len, put |-> p]}
  BY <1>1, WrittenWriter
<1> HIDE DEF r
<1>w. /\ writer' = [writer EXCEPT ![w] = r] /\ writer' \in [Writers -> Writer]
      /\ writer'[w] = r
      /\ \A v \in Writers : v # w => writer'[v] = writer[v]
  BY <1>1, <1>6 DEF Becomes, TypeOK
<1>7. TypeOK'
  <2>1. \A v \in Writers : writer'[v].pc \in {"write", "close"} => writer'[v].inner
    BY <1>w, <1>6 DEF TypeOK
  <2>2. acked' \subseteq Puts
    BY <1>1 DEF TypeOK
  <2> QED BY <1>1, <1>4, <1>w, <2>1, <2>2 DEF TypeOK
<1>8. \A v \in Writers : CallOK(v)'
  <2>1. CallOK(w)'
    BY <1>1, <1>6, <1>w DEF CallOK, Holds
  <2>2. ASSUME NEW v \in Writers, v # w PROVE CallOK(v)'
    <3>1. CallOK(v) /\ writer'[v] = writer[v] /\ Holds(v)' = Holds(v)
      BY <1>w, <2>2 DEF Holds
    <3>2. writer[v].call = "put" => writer[v].put # p
      BY <1>1, <2>2 DEF Apart
    <3> QED BY <1>1, <3>1, <3>2 DEF CallOK
  <2> QED BY <2>1, <2>2
<1>9. Apart'
  <2>1. \A v \in Writers : Holds(v)' = Holds(v) /\ writer'[v].sid = writer[v].sid
    BY <1>1, <1>6, <1>w DEF Holds
  <2>2. \A v \in Writers : writer'[v].call = "put" =>
          writer[v].call = "put" /\ writer'[v].put = writer[v].put
    BY <1>6, <1>w
  <2> QED BY <2>1, <2>2 DEF Apart
<1>10. \A v \in Writers : v # w /\ Holds(v) => writer[v].sid # s
  BY <1>1 DEF Apart
<1>11. FreshOK'
  <2>1. \A t : t # s => Untouched(t)' = Untouched(t)
    BY <1>1, <1>5 DEF Untouched
  <2>2. \A t \in Sids : t >= nextId => t # s
    BY <1>1, BoundsAssumption DEF TypeOK, Sids
  <2>3. \A v \in Writers : At(v, "create")' =>
          At(v, "create") /\ writer'[v].sid = writer[v].sid /\ writer[v].sid # s
    BY <1>6, <1>w, <1>10 DEF At, Holds
  <2>4. \A v \in Writers : At(v, "create")' => Untouched(writer[v].sid)'
    BY <2>1, <2>3 DEF FreshOK
  <2> QED BY <1>1, <2>1, <2>2, <2>4 DEF FreshOK
<1>12. Accounted'
  <2> SUFFICES ASSUME NEW n \in acked' PROVE
         /\ n <= puts
         /\ book'[n].sid \in Sids /\ book'[n].sid < nextId
         /\ book'[n].by \in Writers
         /\ \/ object[book'[n].sid]["idx"].there
            \/ book'[n].sid \in abandoned
            \/ writer'[book'[n].by].inner /\ writer'[book'[n].by].sid = book'[n].sid
    BY <1>1 DEF Accounted, IsPublished
  <2>1. CASE n = p
    BY <1>1, <1>4, <1>6, <1>w, <2>1
  <2>2. CASE n \in acked
    <3>1. /\ n <= puts /\ book[n].sid \in Sids /\ book[n].sid < nextId
          /\ book[n].by \in Writers
          /\ \/ object[book[n].sid]["idx"].there
             \/ book[n].sid \in abandoned
             \/ writer[book[n].by].inner /\ writer[book[n].by].sid = book[n].sid
      BY <2>2 DEF Accounted, IsPublished
    <3> QED BY <1>4, <1>6, <1>w, <2>2, <3>1
  <2> QED BY <1>1, <2>1, <2>2
<1>13. \A v \in Writers : InnerOK(v)'
  <2>1. ASSUME NEW v \in Writers, v # w, writer'[v].inner PROVE InnerOK(v)'
    <3>1. /\ InnerOK(v) /\ writer'[v] = writer[v] /\ object' = object
          /\ writer[v].sid # s
      BY <1>1, <1>w, <1>10, <2>1 DEF Holds
    <3>2. AckedIn(writer[v].sid)' = AckedIn(writer[v].sid)
      BY <1>5, <3>1
    <3>3. \A n \in AckedIn(writer[v].sid) : book'[n] = book[n]
      BY <1>4 DEF AckedIn
    <3> QED BY <3>1, <3>2, <3>3 DEF InnerOK
  <2>2. InnerOK(w)'
    <3>1. /\ "data" \in Kinds /\ "meta" \in Kinds /\ "idx" \in Kinds
          /\ EntrySize("data", x.size) = DataAdvance(x.size)
          /\ EntrySize("meta", x.size) = MetaLine
      BY <1>2, Lengths DEF Kinds
    <3>2. \A n \in AckedIn(s) : book'[n] = book[n] /\ book[n].off \in Nat /\ n # p
      BY <1>4 DEF AckedIn, TypeOK, Booked
    <3>3. r.buf["data"].recs =
            {[at |-> book'[n].off, put |-> n] : n \in AckedIn(s) \cup {p}}
      <4>1. /\ x.buf["data"].recs = {[at |-> book[n].off, put |-> n] : n \in AckedIn(s)}
            /\ x.buf["data"].len = x.off
        BY <1>1 DEF InnerOK
      <4>2. r.buf["data"].recs = x.buf["data"].recs \cup {[at |-> x.off, put |-> p]}
        BY <1>6, <3>1, <4>1
      <4>3. book'[p].off = x.off
        BY <1>4
      <4> HIDE DEF IInv, r, x, p, s
      <4> QED BY <3>2, <4>1, <4>2, <4>3
    <3>4. r.buf["meta"].recs =
            {[at |-> book'[n].moff, put |-> n] : n \in AckedIn(s) \cup {p}}
      <4>1. /\ x.buf["meta"].recs = {[at |-> book[n].moff, put |-> n] : n \in AckedIn(s)}
            /\ x.buf["meta"].len = x.moff
        BY <1>1 DEF InnerOK
      <4>2. r.buf["meta"].recs = x.buf["meta"].recs \cup {[at |-> x.moff, put |-> p]}
        BY <1>6, <3>1, <4>1
      <4>3. book'[p].moff = x.moff
        BY <1>4
      <4> HIDE DEF IInv, r, x, p, s
      <4> QED BY <3>2, <4>1, <4>2, <4>3
    <3>5. {e.put : e \in r.buf["idx"].recs} = AckedIn(s) \cup {p}
      <4>1. {e.put : e \in x.buf["idx"].recs} = AckedIn(s)
        BY <1>1 DEF InnerOK
      <4>2. r.buf["idx"].recs =
              x.buf["idx"].recs \cup {[at |-> x.buf["idx"].len, put |-> p]}
        BY <1>6, <3>1
      <4> DEFINE e == [at |-> x.buf["idx"].len, put |-> p]
      <4>3. e.put = p
        OBVIOUS
      <4> HIDE DEF e, r, x
      <4> QED BY <4>1, <4>2, <4>3 DEF e
    <3>6. \A n \in AckedIn(s) \cup {p} : book'[n].off < r.off
      <4>1. r.off > x.off /\ r.off \in Nat
        BY <1>2, <1>6, Lengths
      <4>2. \A n \in AckedIn(s) : book[n].off < x.off
        BY <1>1 DEF InnerOK
      <4> QED BY <1>2, <1>4, <3>2, <4>1, <4>2
    <3>7. /\ \A k \in Kinds : r.buf[k].there /\ r.buf[k].head = r.sid
          /\ r.buf["data"].len = r.off /\ r.buf["meta"].len = r.moff
      BY <1>1, <1>6, <3>1 DEF InnerOK
    <3>8. \A k \in Kinds :
            object'[s][k] = IF k \in Before(r.kind) THEN r.buf[k] ELSE NoObject
      BY <1>1, <1>6 DEF InnerOK, Before
    <3>9. \A t : t = s => AckedIn(t)' = AckedIn(s) \cup {p}
      BY <1>5
    <3>10. writer'[w] = r /\ r.sid = s
      BY <1>6, <1>w
    <3> HIDE DEF s, x, p
    <3> QED BY <3>3, <3>4, <3>5, <3>6, <3>7, <3>8, <3>9, <3>10 DEF InnerOK
  <2> QED BY <2>1, <2>2 DEF InnerOK
<1>14. PublishedWhole'
  <2> SUFFICES ASSUME NEW t \in Sids, object[t]["idx"].there
               PROVE  /\ {e.put : e \in object[t]["idx"].recs} = AckedIn(t)'
                      /\ \A k \in Kinds :
                           object[t][k].there /\ object[t][k].head = t
                             /\ object[t][k].recs = Expected(t, k)'
    BY <1>1 DEF PublishedWhole
  <2>1. object[s]["idx"] = NoObject
    BY <1>1 DEF InnerOK, Before, Kinds
  <2>2. t # s
    BY <2>1 DEF NoObject
  <2>3. AckedIn(t)' = AckedIn(t) /\ object' = object
    BY <1>1, <1>5, <2>2
  <2>4. \A n \in AckedIn(t) : book'[n] = book[n]
    BY <1>4 DEF AckedIn
  <2>5. \A k \in Kinds : Expected(t, k)' = Expected(t, k)
    BY <2>3, <2>4 DEF Expected
  <2> QED BY <2>3, <2>5 DEF PublishedWhole
<1>15. AckedIdsUnique'
  <2> SUFFICES ASSUME NEW n \in acked', NEW m \in acked',
                      book'[n].sid = book'[m].sid, book'[n].off = book'[m].off
               PROVE  n = m
    BY DEF AckedIdsUnique
  <2>1. ASSUME NEW a \in acked, book'[a].sid = s PROVE book'[a].off # x.off
    <3>1. a \in AckedIn(s) /\ book'[a] = book[a] /\ book[a].off \in Nat
      BY <1>4, <2>1 DEF AckedIn, TypeOK, Booked
    <3>2. book[a].off < x.off
      BY <1>1, <3>1 DEF InnerOK
    <3> QED BY <1>2, <3>1, <3>2
  <2>2. CASE n \in acked /\ m \in acked
    BY <1>4, <2>2 DEF AckedIdsUnique
  <2>3. CASE n = p \/ m = p
    BY <1>1, <1>4, <2>1, <2>3
  <2> QED BY <1>1, <2>2, <2>3
<1> QED BY <1>7, <1>8, <1>9, <1>11, <1>12, <1>13, <1>14, <1>15

-----------------------------------------------------------------------------
(* Every step of every call, every failure and every death keeps the       *)
(* invariant (bs_opendal_writer.rs:37-275).                                *)
THEOREM NextIInv == IInv /\ [WriterNext]_wvars => IInv'
<1> SUFFICES ASSUME IInv, [WriterNext]_wvars PROVE IInv'
  OBVIOUS
<1>1. CASE UNCHANGED wvars
  <2> USE <1>1 DEF wvars, IInv
  <2>1. TypeOK' /\ Apart' /\ AckedIdsUnique' /\ Accounted'
    BY DEF TypeOK, Apart, AckedIdsUnique, Accounted, Holds, IsPublished
  <2>2. \A w \in Writers : CallOK(w)' /\ InnerOK(w)'
    BY DEF CallOK, InnerOK, Holds, AckedIn
  <2>3. FreshOK'
    BY DEF FreshOK, Untouched, AckedIn, At
  <2>4. PublishedWhole'
    <3>1. \A s : AckedIn(s)' = AckedIn(s)
      BY DEF AckedIn
    <3>2. \A s, k : Expected(s, k)' = Expected(s, k)
      BY <3>1 DEF Expected
    <3> QED BY <3>1, <3>2 DEF PublishedWhole
  <2> QED BY <2>1, <2>2, <2>3, <2>4
<1>2. ASSUME NEW w \in Writers, Step(w) PROVE IInv'
  BY <1>2, NextStackIdStep, CreateStep, WriteStep, CloseWriterStep DEF Step
<1>3. ASSUME NEW w \in Writers, Failure(w) PROVE IInv'
  BY <1>3, FailureStep, CloseWriterFailsStep DEF Failure
<1>4. ASSUME NEW w \in Writers, Call(w) PROVE IInv'
  BY <1>4, PutStep, CloseStep DEF Call
<1> QED BY <1>1, <1>2, <1>3, <1>4 DEF WriterNext

(* The inductive invariant holds in every reachable state. *)
THEOREM SpecIInv == WriterSpec => []IInv
BY InitIInv, NextIInv, PTL DEF WriterSpec

(* Every variable keeps its type, and no call writes or closes without an  *)
(* InnerWriter (bs_opendal_writer.rs:149-215).                             *)
THEOREM SpecTypeOK == WriterSpec => []TypeOK
<1>1. IInv => TypeOK
  BY DEF IInv
<1> QED BY <1>1, SpecIInv, PTL

(* A published index describes exactly the acknowledged puts of its stack, *)
(* and their records are published where it says, whatever fails           *)
(* (bs_opendal_writer.rs:37-140).                                          *)
THEOREM SpecPublishedWhole == WriterSpec => []PublishedWhole
<1>1. IInv => PublishedWhole
  BY DEF IInv
<1> QED BY <1>1, SpecIInv, PTL

(* Two acknowledged puts never share a stack and an offset, though cookies *)
(* collide (bs_opendal_writer.rs:118-139).                                 *)
THEOREM SpecAckedIdsUnique == WriterSpec => []AckedIdsUnique
<1>1. IInv => AckedIdsUnique
  BY DEF IInv
<1> QED BY <1>1, SpecIInv, PTL

(* What an acknowledged put of a closed writer may still lack is in a      *)
(* stack given up (bs_opendal_writer.rs:268-275).                          *)
LEMMA InvClosedPublished ==
  ASSUME IInv
  PROVE  ClosedPublished
<1> SUFFICES ASSUME NEW w \in Writers, writer[w].flushed, NEW n \in Own(w),
                    book[n].sid \notin abandoned
             PROVE  IsPublished(n)
  BY DEF ClosedPublished
<1>1. n \in acked /\ book[n].by = w
  BY DEF Own
<1>2. ~writer[w].inner
  BY DEF IInv, CallOK
<1> QED BY <1>1, <1>2 DEF IInv, Accounted

(* A close that returned Ok leaves unpublished only what an earlier        *)
(* failure or death abandoned (bs_opendal_writer.rs:268-275).              *)
THEOREM SpecClosedPublished == WriterSpec => []ClosedPublished
<1>1. IInv => ClosedPublished
  BY InvClosedPublished
<1> QED BY <1>1, SpecIInv, PTL

(* Only a close changes an object, and the object was not there            *)
(* (bs_opendal_writer.rs:37-48).                                           *)
LEMMA ObjectsStay ==
  ASSUME IInv, NEW w \in Writers, CloseWriter(w) \/ CloseWriterFails(w)
  PROVE  \A s \in Sids, k \in Kinds :
           object[s][k].there => object'[s][k] = object[s][k]
<1>1. writer[w].inner /\ object' \in {object, Published(w)}
  BY DEF CloseWriter, CloseWriterFails, At, IInv, TypeOK
<1>2. ~object[writer[w].sid][writer[w].kind].there
  BY <1>1, PublishedObject DEF NoObject
<1> QED BY <1>1, <1>2, PublishedObject

(* Every step keeps the objects that are there (bs_opendal_writer.rs:217). *)
LEMMA ThereStays ==
  ASSUME IInv, [WriterNext]_wvars
  PROVE  \A s \in Sids, k \in Kinds : object[s][k].there => object'[s][k] = object[s][k]
<1>1. CASE object' = object
  BY <1>1
<1>2. ASSUME NEW w \in Writers, Step(w) \/ Failure(w) \/ Call(w),
             ~CloseWriter(w), ~CloseWriterFails(w)
      PROVE  object' = object
  BY <1>2 DEF Step, Failure, Call, NextStackId, CreateNewWriters, Write,
     NextStackIdFails, CreateFails, WriteFails, Die, Put, Close, CloseNothing
<1> QED BY <1>1, <1>2, ObjectsStay DEF WriterNext, wvars

(* Nothing that was published is ever replaced (bs_opendal_writer.rs:217). *)
THEOREM SpecPublishedStays == WriterSpec => PublishedStays
<1>1. IInv /\ [WriterNext]_wvars =>
        [\A s \in Sids, k \in Kinds :
           object[s][k].there => object'[s][k] = object[s][k]]_wvars
  BY ThereStays
<1> QED BY <1>1, SpecIInv, PTL DEF WriterSpec, PublishedStays

-----------------------------------------------------------------------------
(* The refinement of StackStore. *)

(* Only stacks that were given out are abandoned, and no writer works on   *)
(* an abandoned one: what a failed call drops is never taken up again.     *)
AbandonedOK ==
  /\ \A s \in abandoned : s < nextId
  /\ \A w \in Writers : Holds(w) => writer[w].sid \notin abandoned

(* What any call does to the stack it works on: it keeps it, takes the     *)
(* next one, or gives it up (bs_opendal_writer.rs:169-215, 268-275).       *)
LEMMA HeldStack ==
  ASSUME IInv, NEW w \in Writers, Step(w) \/ Failure(w) \/ Call(w)
  PROVE  /\ \A v \in Writers : v # w => writer'[v] = writer[v]
         /\ nextId' \in {nextId, nextId + 1}
         /\ \/ /\ abandoned' = abandoned
               /\ Holds(w)' => \/ Holds(w) /\ writer'[w].sid = writer[w].sid
                               \/ writer'[w].sid = nextId /\ nextId' = nextId + 1
            \/ ~Holds(w)' /\ abandoned' = Abandons(writer[w])
<1> DEFINE x == writer[w]
<1>0. /\ x \in Writer /\ writer \in [Writers -> Writer]
      /\ \A v \in Writers : v # w => writer'[v] = writer[v]
      /\ nextId' \in {nextId, nextId + 1}
  <2>1. \A r : Becomes(w, r) => \A v \in Writers : v # w => writer'[v] = writer[v]
    BY DEF IInv, TypeOK, Becomes
  <2>2. \E r : Becomes(w, r)
    BY DEF Step, Failure, Call, NextStackId, CreateNewWriters, Write, CloseWriter,
       NextStackIdFails, CreateFails, WriteFails, CloseWriterFails, Die, Put,
       Close, CloseNothing
  <2>3. nextId' \in {nextId, nextId + 1}
    BY DEF Step, Failure, Call, NextStackId, CreateNewWriters, Write, CloseWriter,
       NextStackIdFails, CreateFails, WriteFails, CloseWriterFails, Die, Put,
       Close, CloseNothing
  <2> QED BY <2>1, <2>2, <2>3, Typed DEF IInv, TypeOK
<1>1. ASSUME NEW r, Becomes(w, r), r.pc # "create",
             r.inner => Holds(w) /\ r.sid = x.sid
      PROVE  Holds(w)' => Holds(w) /\ writer'[w].sid = x.sid
  BY <1>1, Typed DEF Holds, At
<1>2. ASSUME NEW n \in Sizes, Put(w, n)
      PROVE  abandoned' = abandoned /\ (Holds(w)' => Holds(w) /\ writer'[w].sid = x.sid)
  <2> DEFINE pc == IF ~x.inner THEN "next" ELSE IF Full(x, n) THEN "close" ELSE "write"
             r == [x EXCEPT !.call = "put", !.size = n, !.put = puts + 1,
                            !.flushed = FALSE, !.pc = pc]
  <2>1. Becomes(w, r) /\ pc # "create" /\ abandoned' = abandoned
    BY <1>2 DEF Put
  <2> HIDE DEF pc
  <2>2. r.pc = pc /\ r.inner = x.inner /\ r.sid = x.sid
    BY <1>0 DEF Writer
  <2> HIDE DEF r
  <2> QED BY <1>1, <2>1, <2>2 DEF Holds
<1>3. CASE NextStackId(w)
  <2>1. writer'[w].sid = nextId
    BY <1>0, <1>3, Typed, ZenonT(40) DEF NextStackId, Writer
  <2> QED BY <1>0, <1>3, <2>1 DEF NextStackId
<1>4. CASE CreateNewWriters(w)
  <2> DEFINE r == [x EXCEPT
                     !.pc = "write", !.inner = TRUE,
                     !.buf = [k \in Kinds |-> Headed(k, x.sid)],
                     !.off = HeadSize("data"), !.moff = HeadSize("meta"), !.total = 0]
  <2>1. Becomes(w, r) /\ Holds(w) /\ abandoned' = abandoned
    BY <1>4 DEF CreateNewWriters, Holds, At
  <2>2. r.sid = x.sid /\ r.pc = "write"
    BY <1>0 DEF Writer
  <2> HIDE DEF r
  <2> QED BY <1>0, <1>1, <2>1, <2>2
<1>5. CASE Write(w)
  <2> DEFINE r == Returned(Written(x))
  <2>1. Becomes(w, r) /\ x.put \in Puts /\ abandoned' = abandoned
    BY <1>5, Typed, BoundsAssumption DEF Write, At, CallOK, Puts
  <2>2. r.pc = "idle" /\ r.inner = x.inner /\ r.sid = x.sid
    BY <1>0, <2>1, WrittenWriter
  <2> HIDE DEF r
  <2> QED BY <1>0, <1>1, <2>1, <2>2 DEF Holds
<1>6. CASE CloseWriter(w)
  <2>0. NoBuffers \in [Kinds -> Blob] /\ x.inner
    BY <1>6, PublishedObject DEF NoBuffers, NoObject, Blob, CloseWriter, At, IInv, TypeOK
  <2>1. ASSUME NEW r, r \in {[x EXCEPT !.kind = NextKind(x.kind)],
                             [WithoutInner(x) EXCEPT !.pc = "next", !.kind = "data"],
                             [Returned(WithoutInner(x)) EXCEPT !.flushed = TRUE]},
               x.pc = "close"
        PROVE  r.pc # "create" /\ (r.inner => r.sid = x.sid)
    <3>1. CASE r = [x EXCEPT !.kind = NextKind(x.kind)]
      BY <1>0, <2>1, <3>1 DEF Writer
    <3>2. CASE r = [WithoutInner(x) EXCEPT !.pc = "next", !.kind = "data"]
      BY <1>0, <2>0, <3>2 DEF Writer, WithoutInner
    <3>3. CASE r = [Returned(WithoutInner(x)) EXCEPT !.flushed = TRUE]
      BY <1>0, <2>0, <3>3 DEF Writer, WithoutInner, Returned
    <3> QED BY <2>1, <3>1, <3>2, <3>3
  <2>2. PICK r \in {[x EXCEPT !.kind = NextKind(x.kind)],
                    [WithoutInner(x) EXCEPT !.pc = "next", !.kind = "data"],
                    [Returned(WithoutInner(x)) EXCEPT !.flushed = TRUE]} : Becomes(w, r)
    BY <1>6 DEF CloseWriter
  <2>3. abandoned' = abandoned /\ x.pc = "close"
    BY <1>6 DEF CloseWriter, At
  <2>4. r.pc # "create" /\ (r.inner => Holds(w) /\ r.sid = x.sid)
    BY <2>0, <2>1, <2>3 DEF Holds
  <2> HIDE DEF x
  <2> QED BY <1>0, <1>1, <2>2, <2>3, <2>4 DEF x
<1>7. CASE Failure(w)
  <2>1. ASSUME NEW r, Becomes(w, r), r.pc # "create", ~r.inner
        PROVE  ~Holds(w)'
    BY <2>1, Typed DEF Holds, At
  <2>2. CASE CreateFails(w)
    BY <1>0, <2>1, <2>2, AfterFailureWriter, Typed
    DEF CreateFails, Abandons, At, CallOK
  <2>3. CASE Die(w)
    BY <1>0, <2>1, <2>3 DEF Die, New
  <2>4. CASE NextStackIdFails(w) \/ WriteFails(w) \/ CloseWriterFails(w)
    BY <1>0, <2>1, <2>4, AfterFailureWriter
    DEF NextStackIdFails, WriteFails, CloseWriterFails
  <2> QED BY <1>0, <1>7, <2>2, <2>3, <2>4 DEF Failure
<1>8. CASE Close(w) \/ CloseNothing(w)
  <2>1. ASSUME NEW r, r \in {[x EXCEPT !.pc = "close", !.call = "close"],
                             [x EXCEPT !.flushed = TRUE]}
        PROVE  /\ r.sid = x.sid /\ r.inner = x.inner
               /\ r.pc \in {"close", x.pc}
    BY <1>0, <2>1 DEF Writer
  <2>2. PICK r \in {[x EXCEPT !.pc = "close", !.call = "close"],
                    [x EXCEPT !.flushed = TRUE]} : Becomes(w, r)
    BY <1>8 DEF Close, CloseNothing
  <2>3. abandoned' = abandoned /\ x.pc = "idle"
    BY <1>8 DEF Close, CloseNothing, At
  <2>4. r.pc # "create" /\ (r.inner => Holds(w) /\ r.sid = x.sid)
    BY <2>1, <2>3 DEF Holds
  <2> HIDE DEF x
  <2> QED BY <1>0, <1>1, <2>2, <2>3, <2>4 DEF x
<1> QED
  BY <1>0, <1>2, <1>3, <1>4, <1>5, <1>6, <1>7, <1>8 DEF Step, Call

(* No call of any writer takes up a stack that has been given up           *)
(* (bs_opendal_writer.rs:169-215, 268-275).                                *)
LEMMA NextAbandonedOK ==
  ASSUME IInv, AbandonedOK, [WriterNext]_wvars
  PROVE  AbandonedOK'
<1>1. CASE UNCHANGED wvars
  BY <1>1 DEF wvars, AbandonedOK, Holds
<1>2. ASSUME NEW w \in Writers, Step(w) \/ Failure(w) \/ Call(w)
      PROVE  AbandonedOK'
  <2>1. nextId \in Nat /\ \A s \in abandoned : s < nextId
    BY Typed DEF AbandonedOK
  <2>2. \A v \in Writers : v # w /\ Holds(v) /\ Holds(w) =>
          writer[v].sid # writer[w].sid
    BY DEF IInv, Apart
  <2>3. \A v \in Writers : Holds(v) => writer[v].sid < nextId /\ writer[v].sid \in Nat
    BY Typed, BoundsAssumption DEF CallOK, Sids
  <2>4. \A v \in Writers : v # w => (Holds(v)' <=> Holds(v))
    BY <1>2, HeldStack DEF Holds, At
  <2>5. CASE abandoned' = abandoned
    <3>1. nextId' \in Nat /\ nextId <= nextId'
      BY <1>2, <2>1, HeldStack
    <3>2. \A v \in Writers : v # w => (Holds(v)' => Holds(v) /\ writer'[v].sid = writer[v].sid)
      BY <1>2, <2>4, HeldStack
    <3>3. \A s \in abandoned : s \in Nat
      BY Typed, BoundsAssumption DEF Sids
    <3>4. CASE Holds(w)' => Holds(w) /\ writer'[w].sid = writer[w].sid
      BY <2>1, <2>5, <3>1, <3>2, <3>3, <3>4 DEF AbandonedOK
    <3>5. CASE writer'[w].sid = nextId
      BY <2>1, <2>5, <3>1, <3>2, <3>3, <3>5 DEF AbandonedOK
    <3> QED BY <1>2, <2>5, <3>4, <3>5, HeldStack DEF Abandons, Holds
  <2>6. CASE ~Holds(w)' /\ abandoned' = Abandons(writer[w])
    <3>1. nextId' \in Nat /\ nextId <= nextId'
      BY <1>2, <2>1, HeldStack
    <3>2. \A v \in Writers : v # w => (Holds(v)' => Holds(v) /\ writer'[v].sid = writer[v].sid)
      BY <1>2, <2>4, HeldStack
    <3>3. /\ \A s \in abandoned' : s < nextId /\ s \in Nat
          /\ \A s \in abandoned' : s \in abandoned \/ (Holds(w) /\ s = writer[w].sid)
      BY <2>1, <2>3, <2>6, Typed, BoundsAssumption DEF Abandons, Holds, Sids
    <3> QED BY <2>1, <2>2, <2>6, <3>1, <3>2, <3>3 DEF AbandonedOK
  <2> QED BY <1>2, <2>5, <2>6, HeldStack
<1> QED BY <1>1, <1>2 DEF WriterNext

(* Of a stack whose index is there exactly the acknowledged puts can be    *)
(* read, so that both cases of StackContents are the same set.             *)
LEMMA ContentsAcked == IInv => StackContents = [s \in Sids |-> AckedIn(s)]
<1> SUFFICES ASSUME IInv, NEW s \in Sids, object[s]["idx"].there
             PROVE  Readable(s) = AckedIn(s)
  BY DEF StackContents
<1>1. /\ {e.put : e \in object[s]["idx"].recs} = AckedIn(s)
      /\ object[s]["data"].recs = {[at |-> book[n].off, put |-> n] : n \in AckedIn(s)}
      /\ object[s]["meta"].recs = {[at |-> book[n].moff, put |-> n] : n \in AckedIn(s)}
      /\ AckedIn(s) \subseteq Puts
  BY DEF IInv, PublishedWhole, Expected, Kinds, TypeOK, AckedIn
<1>2. ASSUME NEW n \in Readable(s) PROVE n \in AckedIn(s)
  BY <1>1 DEF Readable
<1>3. ASSUME NEW n \in AckedIn(s) PROVE n \in Readable(s)
  <2>1. n \in Puts /\ \E e \in object[s]["idx"].recs : e.put = n
    BY <1>1
  <2>2. /\ [at |-> book[n].off, put |-> n] \in object[s]["data"].recs
        /\ [at |-> book[n].moff, put |-> n] \in object[s]["meta"].recs
    BY <1>1
  <2> QED BY <2>1, <2>2 DEF Readable
<1> QED BY <1>2, <1>3

(* The same after a step: what is readable of a stack is what its puts     *)
(* acknowledged (bs_opendal_writer.rs:37-57, 107-150).                     *)
LEMMA ContentsAckedNext == (IInv => StackContents = [s \in Sids |-> AckedIn(s)])'
BY ContentsAcked, PTL

(* A step that changes the phase of one stack at most, and takes nothing   *)
(* in, is a step of the store or none.                                     *)
LEMMA PhaseStep ==
  ASSUME IInv, IInv', UNCHANGED <<acked, book>>, NEW t \in Sids,
         \A s \in Sids : s # t => StackPhase'[s] = StackPhase[s],
         \/ StackPhase'[t] = StackPhase[t]
         \/ StackPhase[t] = "free" /\ StackPhase'[t] = "open"
         \/ StackPhase[t] = "open" /\ StackPhase'[t] \in {"readable", "lost"}
  PROVE  [Store!Next]_Store!vars
<1>1. StackContents' = StackContents
  BY ContentsAcked, ContentsAckedNext DEF AckedIn
<1>2. /\ StackPhase = [s \in Sids |-> StackPhase[s]]
      /\ StackPhase' = [s \in Sids |-> StackPhase'[s]]
  BY DEF StackPhase
<1>3. CASE StackPhase'[t] = StackPhase[t]
  <2>1. StackPhase' = StackPhase
    BY <1>2, <1>3
  <2> QED BY <1>1, <2>1 DEF Store!vars
<1>4. CASE StackPhase'[t] # StackPhase[t]
  <2>1. StackPhase' = [StackPhase EXCEPT ![t] = StackPhase'[t]]
    BY <1>2
  <2>2. Store!Begin(t) \/ Store!Publish(t) \/ Store!Lose(t)
    BY <1>1, <1>4, <2>1 DEF Store!Begin, Store!Publish, Store!Lose, Store!Moves
  <2> QED BY <2>2 DEF Store!Next
<1> QED BY <1>3, <1>4

(* The stack an InnerWriter works on is open (bs_opendal_writer.rs:37-48). *)
LEMMA InnerOpen ==
  ASSUME IInv, AbandonedOK, NEW w \in Writers, writer[w].inner
  PROVE  writer[w].sid \in Sids /\ StackPhase[writer[w].sid] = "open"
<1>1. /\ writer[w].sid \in Sids /\ writer[w].sid < nextId
      /\ writer[w].sid \notin abandoned
  BY Typed DEF CallOK, Holds, AbandonedOK
<1>2. object[writer[w].sid]["idx"] = NoObject
  BY Typed DEF InnerOK, Before, Kinds, Writer
<1> QED BY <1>1, <1>2 DEF StackPhase, NoObject

(* The Controller gives out a free stack, or wastes it: nothing else       *)
(* changes (bs_opendal_writer.rs:198).                                     *)
LEMMA IdStep ==
  ASSUME IInv, IInv', AbandonedOK, UNCHANGED <<acked, book, object, abandoned>>,
         nextId' \in {nextId, nextId + 1}
  PROVE  [Store!Next]_Store!vars
<1>1. nextId \in Nat
  BY DEF IInv, TypeOK
<1>2. CASE nextId' = nextId + 1 /\ nextId \in Sids
  <2>1. \A s \in Sids : s # nextId => StackPhase'[s] = StackPhase[s]
    BY <1>1, <1>2, BoundsAssumption DEF StackPhase, Sids
  <2>2. object[nextId]["idx"] = NoObject
    BY <1>1, <1>2 DEF IInv, FreshOK, Untouched, Kinds
  <2>3. nextId \notin abandoned
    BY <1>1 DEF AbandonedOK
  <2>4. StackPhase[nextId] = "free" /\ StackPhase'[nextId] = "open"
    BY <1>1, <1>2, <2>2, <2>3 DEF StackPhase, NoObject
  <2> QED BY <1>2, <2>1, <2>4, PhaseStep
<1>3. CASE nextId' = nextId \/ nextId \notin Sids
  <2>1. StackPhase' = StackPhase
    BY <1>1, <1>3, BoundsAssumption DEF StackPhase, Sids
  <2>2. StackContents' = StackContents
    BY ContentsAcked, ContentsAckedNext DEF AckedIn
  <2> QED BY <2>1, <2>2 DEF Store!vars
<1> QED BY <1>2, <1>3

(* The index of an InnerWriter's stack appears, or the InnerWriter is      *)
(* dropped, or both (bs_opendal_writer.rs:37-48, 183-208).                 *)
LEMMA EndStep ==
  ASSUME IInv, IInv', AbandonedOK, UNCHANGED <<acked, book, nextId>>,
         NEW w \in Writers, writer[w].inner,
         object' \in {object, Published(w)},
         abandoned' \in {abandoned, Abandons(writer[w])}
  PROVE  [Store!Next]_Store!vars
<1> DEFINE t == writer[w].sid
<1>1. t \in Sids /\ StackPhase[t] = "open" /\ t < nextId
  BY InnerOpen, Typed DEF CallOK, Holds
<1>2. \A s \in Sids : s # t => object'[s] = object[s]
  BY DEF Published, IInv, TypeOK
<1>3. abandoned' \in {abandoned, abandoned \cup {t}}
  BY DEF Abandons
<1>4. \A s \in Sids : s # t => StackPhase'[s] = StackPhase[s]
  BY <1>2, <1>3 DEF StackPhase
<1>5. StackPhase'[t] \in {"open", "readable", "lost"}
  BY <1>1 DEF StackPhase
<1> QED BY <1>1, <1>4, <1>5, PhaseStep

(* A put is acknowledged in an open stack, and in no other                 *)
(* (bs_opendal_writer.rs:50-140, 205-212).                                 *)
LEMMA TakeInStep ==
  ASSUME IInv, IInv', AbandonedOK, NEW w \in Writers, Write(w)
  PROVE  [Store!Next]_Store!vars
<1> DEFINE t == writer[w].sid
           p == writer[w].put
<1>1. writer[w].inner /\ p \in Puts /\ p \notin acked
  BY Typed, BoundsAssumption DEF Write, At, CallOK, Puts, IInv, TypeOK
<1>2. t \in Sids /\ StackPhase[t] = "open"
  BY <1>1, InnerOpen
<1>3. StackPhase' = StackPhase
  BY DEF Write, StackPhase
<1>4. PICK cookie \in Cookies : book' = [book EXCEPT ![p] = Booking(w, cookie)]
  BY DEF Write
<1>5. /\ book'[p].sid = t
      /\ \A n \in acked : book'[n] = book[n]
      /\ acked' = acked \cup {p}
  BY <1>1, <1>4 DEF IInv, TypeOK, Booking, Write
<1>6. \A s \in Sids : AckedIn(s)' = IF s = t THEN AckedIn(s) \cup {p} ELSE AckedIn(s)
  BY <1>5 DEF AckedIn
<1>7. /\ StackContents = [s \in Sids |-> AckedIn(s)]
      /\ StackContents' = [s \in Sids |-> AckedIn(s)']
  BY ContentsAcked, ContentsAckedNext
<1>8. StackContents' = [StackContents EXCEPT ![t] = @ \cup {p}]
  BY <1>6, <1>7
<1>9. \A s \in Sids : p \notin StackContents[s]
  BY <1>1, <1>7 DEF AckedIn
<1> QED BY <1>1, <1>2, <1>3, <1>8, <1>9 DEF Store!Next, Store!TakeIn

(* Every step of a writer, failures, dropped calls and deaths included, is *)
(* one step of StackStore or none (bs_opendal_writer.rs:169-275).          *)
THEOREM StepStore ==
  ASSUME IInv, IInv', AbandonedOK, [WriterNext]_wvars
  PROVE  [Store!Next]_Store!vars
<1>1. CASE UNCHANGED wvars
  BY <1>1, IdStep DEF wvars
<1>2. ASSUME NEW w \in Writers, Step(w) \/ Failure(w) \/ Call(w)
      PROVE  [Store!Next]_Store!vars
  <2>1. CASE Write(w)
    BY <2>1, TakeInStep
  <2>2. CASE \/ NextStackId(w) \/ CreateNewWriters(w) \/ CreateFails(w)
             \/ Call(w)
    BY <2>2, IdStep
    DEF NextStackId, CreateNewWriters, CreateFails, Call, Put, Close, CloseNothing
  <2>3. CASE NextStackIdFails(w)
    <3>1. ~writer[w].inner
      BY <2>3, Typed DEF NextStackIdFails, At, CallOK
    <3> QED BY <2>3, <3>1, IdStep DEF NextStackIdFails, Abandons
  <2>4. CASE WriteFails(w) \/ Die(w)
    <3>1. /\ UNCHANGED <<acked, book, nextId, object>>
          /\ abandoned' = Abandons(writer[w])
      BY <2>4 DEF WriteFails, Die
    <3> QED BY <3>1, EndStep, IdStep DEF Abandons
  <2>5. CASE CloseWriter(w) \/ CloseWriterFails(w)
    <3>1. writer[w].inner
      BY <2>5 DEF CloseWriter, CloseWriterFails, At, IInv, TypeOK
    <3>2. /\ UNCHANGED <<acked, book, nextId>>
          /\ object' \in {object, Published(w)}
          /\ abandoned' \in {abandoned, Abandons(writer[w])}
      BY <2>5 DEF CloseWriter, CloseWriterFails
    <3> QED BY <3>1, <3>2, EndStep
  <2> QED BY <1>2, <2>1, <2>2, <2>3, <2>4, <2>5 DEF Step, Failure
<1> QED BY <1>1, <1>2 DEF WriterNext

(* A bucket without stacks is a StackStore to begin with, and nothing is   *)
(* given up in it (bs_opendal_writer.rs:153-167).                          *)
THEOREM InitStore == Init => AbandonedOK /\ Store!Init
<1> SUFFICES ASSUME Init PROVE AbandonedOK /\ Store!Init
  OBVIOUS
<1>1. AbandonedOK
  BY DEF Init, AbandonedOK, Holds, At, New
<1>2. StackPhase = [s \in Sids |-> "free"]
  <2>1. \A s \in Sids : ~object[s]["idx"].there
    BY DEF Init, NoObject, Kinds
  <2>2. \A s \in Sids : s \notin abandoned /\ ~(s < nextId)
    BY BoundsAssumption DEF Init, Sids
  <2> QED BY <2>1, <2>2 DEF StackPhase
<1>3. StackContents = [s \in Sids |-> {}]
  BY InitIInv, ContentsAcked DEF Init, AckedIn
<1> QED BY <1>1, <1>2, <1>3 DEF Store!Init

(* The core writers implement StackStore: every step of theirs begins,     *)
(* fills, publishes or loses one stack, or does none of it                 *)
(* (bs_opendal_writer.rs:37-275).                                          *)
THEOREM SpecImplementsStore == WriterSpec => ImplementsStore
<1>1. Init => AbandonedOK /\ Store!Init
  BY InitStore
<1>2. IInv /\ AbandonedOK /\ [WriterNext]_wvars => AbandonedOK'
  BY NextAbandonedOK
<1>3. IInv /\ IInv' /\ AbandonedOK /\ [WriterNext]_wvars => [Store!Next]_Store!vars
  BY StepStore
<1> QED BY <1>1, <1>2, <1>3, SpecIInv, PTL DEF WriterSpec, ImplementsStore, Store!Spec

-----------------------------------------------------------------------------
(* The reader, beside the writers. *)

(* Files that are laid out in step stay so when the book of other puts     *)
(* changes (bs_opendal_writer.rs:50-140).                                  *)
LEMMA LaidSame ==
  ASSUME NEW b, NEW bk, NEW ck, Laid(bk, b),
         \A e \in b["idx"].recs : ck[e.put] = bk[e.put]
  PROVE  Laid(ck, b)
BY DEF Laid, Leads, Ends, Follows, Precedes

(* Files that hold their headers only are laid out in step                 *)
(* (bs_opendal_writer.rs:217-266).                                         *)
LEMMA LaidEmpty ==
  ASSUME NEW b, NEW bk, \A k \in Kinds : b[k].recs = {} /\ b[k].len = HeadSize(k)
  PROVE  Laid(bk, b)
BY DEF Laid, Kinds

(* What InnerWriter::write appends to all three files keeps them in step:  *)
(* the record that was the last is followed by the new one                 *)
(* (bs_opendal_writer.rs:50-140).                                          *)
LEMMA LaidAppended ==
  ASSUME NEW b \in [Kinds -> Blob], NEW c, NEW bk \in [Puts -> Booked], NEW ck,
         NEW p, NEW size \in Nat,
         Laid(bk, b),
         \A e \in b["idx"].recs :
           ck[e.put] = bk[e.put] /\ bk[e.put].off < b["data"].len,
         ck[p].off = b["data"].len, ck[p].moff = b["meta"].len, ck[p].size = size,
         \A k \in Kinds : c[k].len = b[k].len + EntrySize(k, size),
         c["idx"].recs = b["idx"].recs \cup {[at |-> b["idx"].len, put |-> p]}
  PROVE  Laid(ck, c)
<1> DEFINE new == [at |-> b["idx"].len, put |-> p]
           recs == b["idx"].recs
<1>1. /\ b["idx"].len \in Nat /\ b["data"].len \in Nat /\ b["meta"].len \in Nat
      /\ \A e \in recs : e \in Entry /\ e.at \in Nat /\ e.put \in Puts
      /\ "idx" \in Kinds /\ "data" \in Kinds /\ "meta" \in Kinds
  BY DEF Kinds, Blob, Entry
<1>2. /\ c["idx"].len = b["idx"].len + IdxSize
      /\ c["meta"].len = b["meta"].len + MetaLine
      /\ c["data"].len = b["data"].len + DataAdvance(size)
      /\ IdxSize \in Nat /\ IdxSize > 0 /\ MetaLine \in Nat /\ MetaLine > 0
      /\ DataAdvance(size) \in Nat /\ DataAdvance(size) > 0
      /\ HeadSize("idx") \in Nat
  BY <1>1, Lengths, LineAssumption, IdxAssumption
     DEF EntrySize, HeadSize, Kinds, DataAdvance
<1>3. \A e \in recs : /\ bk[e.put].moff \in Nat /\ bk[e.put].off \in Nat
                      /\ bk[e.put].size \in Nat
  BY <1>1 DEF Booked
<1>4. new.at = b["idx"].len /\ new.put = p /\ new \in c["idx"].recs
  OBVIOUS
<1> HIDE DEF new
<1>5. \A e \in recs : Precedes(ck, e, new)
  BY <1>1, <1>2, <1>3, <1>4 DEF Laid, Precedes
<1>6. \A e \in recs : Ends(bk, b, e) => Follows(ck, e, new)
  BY <1>4 DEF Ends, Follows
<1>7. \A e, f \in recs : Follows(bk, e, f) => Follows(ck, e, f)
  BY DEF Follows
<1>8. \A e, f \in recs : Precedes(bk, e, f) => Precedes(ck, e, f)
  BY DEF Precedes
<1>9. Ends(ck, c, new)
  BY <1>2, <1>4 DEF Ends
<1>10. HeadSize("idx") <= b["idx"].len
  <2>1. CASE recs = {}
    BY <2>1, <1>1, <1>2 DEF Laid
  <2>2. CASE recs # {}
    BY <2>2, <1>1, <1>2 DEF Laid
  <2> QED BY <2>1, <2>2
<1>11. \E e \in c["idx"].recs : Leads(ck, e)
  <2>1. CASE recs = {}
    <3>1. \A k \in Kinds : b[k].len = HeadSize(k)
      BY <2>1 DEF Laid
    <3> QED BY <3>1, <1>1, <1>4 DEF Leads
  <2>2. CASE recs # {}
    <3>1. PICK e \in recs : Leads(bk, e)
      BY <2>2 DEF Laid
    <3> QED BY <3>1 DEF Leads
  <2> QED BY <2>1, <2>2
<1>12. ASSUME NEW e \in c["idx"].recs
       PROVE  /\ HeadSize("idx") <= e.at /\ e.at + IdxSize <= c["idx"].len
              /\ ck[e.put].moff < c["meta"].len
              /\ Ends(ck, c, e) \/ \E f \in c["idx"].recs : Follows(ck, e, f)
  <2>1. CASE e = new
    BY <2>1, <1>1, <1>2, <1>4, <1>9, <1>10
  <2>2. CASE e \in recs
    <3>1. /\ HeadSize("idx") <= e.at /\ e.at + IdxSize <= b["idx"].len
          /\ bk[e.put].moff < b["meta"].len
          /\ Ends(bk, b, e) \/ \E f \in recs : Follows(bk, e, f)
      BY <2>2 DEF Laid
    <3>2. ck[e.put].moff < c["meta"].len /\ e.at + IdxSize <= c["idx"].len
      BY <2>2, <3>1, <1>1, <1>2, <1>3
    <3> QED BY <2>2, <3>1, <3>2, <1>4, <1>6, <1>7
  <2> QED BY <1>12, <2>1, <2>2 DEF new
<1>13. ASSUME NEW e \in c["idx"].recs, NEW f \in c["idx"].recs
       PROVE  e = f \/ Precedes(ck, e, f) \/ Precedes(ck, f, e)
  <2>1. \A x, y \in recs : x = y \/ Precedes(bk, x, y) \/ Precedes(bk, y, x)
    BY DEF Laid
  <2>2. (e \in recs \/ e = new) /\ (f \in recs \/ f = new)
    BY DEF new
  <2> QED BY <2>1, <2>2, <1>5, <1>8
<1> QED BY <1>4, <1>11, <1>12, <1>13 DEF Laid

(* An acknowledged put stays, with the book of it                          *)
(* (bs_opendal_writer.rs:205-212).                                         *)
LEMMA AckedStays ==
  ASSUME IInv, [WriterNext]_wvars
  PROVE  /\ \A n \in acked : n \in acked' /\ book'[n] = book[n]
         /\ \A s : \A n \in AckedIn(s) : n \in AckedIn(s)'
<1>1. \A n \in acked : n \in acked' /\ book'[n] = book[n]
  <2>1. CASE UNCHANGED <<acked, book>>
    BY <2>1
  <2>2. ASSUME NEW w \in Writers, Write(w)
        PROVE  \A n \in acked : n \in acked' /\ book'[n] = book[n]
    <3>1. /\ writer[w].put \notin acked /\ acked' = acked \cup {writer[w].put}
          /\ \E cookie \in Cookies :
               book' = [book EXCEPT ![writer[w].put] = Booking(w, cookie)]
      BY <2>2, Typed DEF Write, At, CallOK
    <3> QED BY <3>1 DEF IInv, TypeOK
  <2>3. ASSUME NEW w \in Writers, Step(w) \/ Failure(w) \/ Call(w), ~Write(w)
        PROVE  UNCHANGED <<acked, book>>
    BY <2>3 DEF Step, Failure, Call, NextStackId, CreateNewWriters, CloseWriter,
       CloseWriterFails, NextStackIdFails, CreateFails, WriteFails, Die, Put, Close,
       CloseNothing
  <2> QED BY <2>1, <2>2, <2>3 DEF WriterNext, wvars
<1> QED BY <1>1 DEF AckedIn

(* A published stack stays as it is: its objects and the acknowledged puts *)
(* in it, with their book (bs_opendal_writer.rs:37-140).                   *)
LEMMA Frozen ==
  ASSUME IInv, IInv', [WriterNext]_wvars, NEW s \in Sids, object[s]["idx"].there
  PROVE  /\ object'[s] = object[s]
         /\ AckedIn(s)' = AckedIn(s)
         /\ \A n \in AckedIn(s) : book'[n] = book[n]
         /\ {e.put : e \in object[s]["idx"].recs} = AckedIn(s)
<1>1. /\ object \in [Sids -> [Kinds -> Blob]] /\ object' \in [Sids -> [Kinds -> Blob]]
      /\ "idx" \in Kinds
  BY DEF IInv, TypeOK, Kinds
<1>2. \A k \in Kinds : object[s][k].there
  BY DEF IInv, PublishedWhole
<1>3. object'[s] = object[s]
  BY <1>1, <1>2, ThereStays
<1>4. {e.put : e \in object[s]["idx"].recs} = AckedIn(s)
  BY DEF IInv, PublishedWhole
<1>5. {e.put : e \in object'[s]["idx"].recs} = AckedIn(s)'
  <2>1. object'[s]["idx"].there
    BY <1>3
  <2> QED BY <2>1 DEF IInv, PublishedWhole
<1>6. \A n \in AckedIn(s) : book'[n] = book[n]
  BY AckedStays DEF AckedIn
<1> QED BY <1>3, <1>4, <1>5, <1>6

(* The put a call is about, while it writes                                *)
(* (bs_opendal_writer.rs:50-140, 196-212).                                 *)
LEMMA WriteFacts ==
  ASSUME IInv, NEW w \in Writers, Write(w)
  PROVE  LET x == writer[w]
             r == Returned(Written(x))
         IN  /\ x \in Writer /\ x.inner /\ InnerOK(w)
             /\ x.put \in Puts /\ x.put \notin acked
             /\ acked' = acked \cup {x.put}
             /\ book'[x.put].off = x.off /\ book'[x.put].moff = x.moff
             /\ book'[x.put].size = x.size /\ book'[x.put].cookie \in Cookies
             /\ writer'[w] = r /\ r.inner
             /\ \A v \in Writers : v # w => writer'[v] = writer[v]
             /\ \A k \in Kinds : r.buf[k].len = x.buf[k].len + EntrySize(k, x.size)
             /\ r.buf["idx"].recs =
                  x.buf["idx"].recs \cup {[at |-> x.buf["idx"].len, put |-> x.put]}
<1> DEFINE x == writer[w]
           r == Returned(Written(x))
<1>1. /\ x \in Writer /\ x.inner /\ InnerOK(w) /\ x.put \in Puts /\ x.put \notin acked
      /\ acked' = acked \cup {x.put}
  BY Typed, BoundsAssumption DEF Write, At, CallOK, Puts, IInv, TypeOK
<1>2. PICK cookie \in Cookies : book' = [book EXCEPT ![x.put] = Booking(w, cookie)]
  BY DEF Write
<1>3. /\ book'[x.put].off = x.off /\ book'[x.put].moff = x.moff
      /\ book'[x.put].size = x.size /\ book'[x.put].cookie \in Cookies
  BY <1>1, <1>2 DEF Booking, IInv, TypeOK
<1>4. /\ writer'[w] = r
      /\ \A v \in Writers : v # w => writer'[v] = writer[v]
  BY DEF Write, Becomes, IInv, TypeOK
<1>5. /\ r.inner = x.inner
      /\ \A k \in Kinds :
           /\ r.buf[k].len = x.buf[k].len + EntrySize(k, x.size)
           /\ r.buf[k].recs = x.buf[k].recs \cup {[at |-> x.buf[k].len, put |-> x.put]}
  BY <1>1, WrittenWriter
<1> HIDE DEF r
<1> QED BY <1>1, <1>3, <1>4, <1>5 DEF Kinds, r

(* Only InnerWriter::write and create_new_writers change the buffers of an *)
(* InnerWriter that stays (bs_opendal_writer.rs:169-215).                  *)
LEMMA BuffersStay ==
  ASSUME IInv, NEW w \in Writers, Step(w) \/ Failure(w) \/ Call(w),
         ~Write(w), ~CreateNewWriters(w)
  PROVE  /\ UNCHANGED <<book, acked>>
         /\ \A v \in Writers :
              writer'[v].inner => writer[v].inner /\ writer'[v].buf = writer[v].buf
<1> DEFINE x == writer[w]
<1>1. UNCHANGED <<book, acked>>
  BY DEF Step, Failure, Call, NextStackId, CloseWriter, CloseWriterFails,
     NextStackIdFails, CreateFails, WriteFails, Die, Put, Close, CloseNothing
<1>2. /\ x \in Writer
      /\ \A r : Becomes(w, r) =>
           writer'[w] = r /\ \A v \in Writers : v # w => writer'[v] = writer[v]
  BY DEF Becomes, IInv, TypeOK
<1>3. ASSUME NEW r, Becomes(w, r), r.inner => x.inner /\ r.buf = x.buf
      PROVE  \A v \in Writers :
               writer'[v].inner => writer[v].inner /\ writer'[v].buf = writer[v].buf
  BY <1>2, <1>3
<1>4. ~AfterFailure(x).inner /\ ~New.inner
  BY <1>2, AfterFailureWriter DEF New
<1>5. CASE NextStackIdFails(w) \/ WriteFails(w) \/ CloseWriterFails(w)
  BY <1>1, <1>3, <1>4, <1>5 DEF NextStackIdFails, WriteFails, CloseWriterFails
<1>6. CASE Die(w)
  <2> DEFINE r == [New EXCEPT !.born = puts]
  <2>1. Becomes(w, r) /\ ~r.inner
    BY <1>6 DEF Die, New
  <2> HIDE DEF r
  <2> QED BY <2>1, <1>1, <1>3
<1>7. CASE CreateFails(w)
  <2>1. PICK p \in BOOLEAN : Becomes(w, [AfterFailure(x) EXCEPT !.poisoned = p])
    BY <1>7 DEF CreateFails
  <2> DEFINE r == [AfterFailure(x) EXCEPT !.poisoned = p]
  <2>2. ~r.inner
    BY <1>2, AfterFailureWriter
  <2> HIDE DEF r
  <2> QED BY <2>1, <2>2, <1>1, <1>3 DEF r
<1>8. CASE NextStackId(w)
  <2> DEFINE r == [x EXCEPT !.pc = "create", !.sid = nextId]
  <2>1. Becomes(w, r) /\ r.inner = x.inner /\ r.buf = x.buf
    BY <1>8, <1>2 DEF NextStackId, Writer
  <2> HIDE DEF r
  <2> QED BY <2>1, <1>1, <1>3
<1>9. CASE CloseWriter(w)
  <2>1. /\ WithoutInner(x) \in Writer /\ ~WithoutInner(x).inner
    BY <1>2 DEF WithoutInner, Writer, NoBuffers, NoObject, Blob
  <2> DEFINE y == WithoutInner(x)
  <2> HIDE DEF y
  <2>2. ~[y EXCEPT !.pc = "next", !.kind = "data"].inner
        /\ ~[Returned(y) EXCEPT !.flushed = TRUE].inner
    BY <2>1 DEF y, Returned, Writer
  <2> DEFINE r == [x EXCEPT !.kind = NextKind(x.kind)]
  <2>3. r.inner = x.inner /\ r.buf = x.buf
    BY <1>2 DEF Writer
  <2>4. \/ Becomes(w, r)
        \/ Becomes(w, [y EXCEPT !.pc = "next", !.kind = "data"])
        \/ Becomes(w, [Returned(y) EXCEPT !.flushed = TRUE])
    BY <1>9 DEF CloseWriter, y
  <2> HIDE DEF r
  <2> QED BY <2>2, <2>3, <2>4, <1>1, <1>3
<1>10. ASSUME NEW n \in Sizes, Put(w, n)
       PROVE  \A v \in Writers :
                writer'[v].inner => writer[v].inner /\ writer'[v].buf = writer[v].buf
  <2> DEFINE pc == IF ~x.inner THEN "next" ELSE IF Full(x, n) THEN "close" ELSE "write"
             r == [x EXCEPT !.call = "put", !.size = n, !.put = puts + 1,
                            !.flushed = FALSE, !.pc = pc]
  <2>1. Becomes(w, r)
    BY <1>10 DEF Put
  <2>2. r.inner = x.inner /\ r.buf = x.buf
    BY <1>2 DEF Writer
  <2> HIDE DEF r
  <2> QED BY <2>1, <2>2, <1>3
<1>11. CASE Close(w)
  <2> DEFINE r == [x EXCEPT !.pc = "close", !.call = "close"]
  <2>1. Becomes(w, r) /\ r.inner = x.inner /\ r.buf = x.buf
    BY <1>11, <1>2 DEF Close, Writer
  <2> HIDE DEF r
  <2> QED BY <2>1, <1>1, <1>3
<1>12. CASE CloseNothing(w)
  <2> DEFINE r == [x EXCEPT !.flushed = TRUE]
  <2>1. Becomes(w, r) /\ r.inner = x.inner /\ r.buf = x.buf
    BY <1>12, <1>2 DEF CloseNothing, Writer
  <2> HIDE DEF r
  <2> QED BY <2>1, <1>1, <1>3
<1> QED BY <1>1, <1>5, <1>6, <1>7, <1>8, <1>9, <1>10, <1>11, <1>12
        DEF Step, Failure, Call

(* An InnerWriter's index buffer names acknowledged puts, whose payloads   *)
(* lie before the offset it has come to (bs_opendal_writer.rs:50-140).     *)
LEMMA BufferPuts ==
  ASSUME IInv, NEW w \in Writers, writer[w].inner
  PROVE  /\ writer[w].buf \in [Kinds -> Blob]
         /\ writer[w].buf["data"].len = writer[w].off
         /\ writer[w].buf["meta"].len = writer[w].moff
         /\ \A e \in writer[w].buf["idx"].recs :
              e.put \in acked /\ book[e.put].off < writer[w].buf["data"].len
<1>1. writer[w] \in Writer /\ InnerOK(w)
  BY Typed
<1>2. \A e \in writer[w].buf["idx"].recs : e.put \in AckedIn(writer[w].sid)
  BY <1>1 DEF InnerOK
<1> QED BY <1>1, <1>2 DEF InnerOK, Writer, AckedIn

(* Buffers stay laid out in step (bs_opendal_writer.rs:50-140, 217-266).   *)
LEMMA BuffersLaid ==
  ASSUME IInv, LaidOut, [WriterNext]_wvars
  PROVE  \A w \in Writers : writer'[w].inner => Laid(book', writer'[w].buf)
<1>0. ASSUME NEW v \in Writers, writer[v].inner PROVE Laid(book', writer[v].buf)
  <2>1. \A e \in writer[v].buf["idx"].recs : book'[e.put] = book[e.put]
    BY <1>0, BufferPuts, AckedStays
  <2>2. Laid(book, writer[v].buf)
    BY <1>0 DEF LaidOut
  <2> QED BY <2>1, <2>2, LaidSame
<1>1. CASE UNCHANGED wvars
  BY <1>0, <1>1 DEF wvars
<1>2. ASSUME NEW w \in Writers, Write(w)
      PROVE  \A v \in Writers : writer'[v].inner => Laid(book', writer'[v].buf)
  <2> DEFINE x == writer[w]
             r == Returned(Written(x))
  <2>1. /\ x \in Writer /\ x.inner /\ InnerOK(w)
        /\ book'[x.put].off = x.off /\ book'[x.put].moff = x.moff
        /\ book'[x.put].size = x.size
        /\ writer'[w] = r
        /\ \A v \in Writers : v # w => writer'[v] = writer[v]
        /\ \A k \in Kinds : r.buf[k].len = x.buf[k].len + EntrySize(k, x.size)
        /\ r.buf["idx"].recs =
             x.buf["idx"].recs \cup {[at |-> x.buf["idx"].len, put |-> x.put]}
    BY <1>2, WriteFacts
  <2>2. /\ x.buf \in [Kinds -> Blob] /\ x.size \in Nat /\ book \in [Puts -> Booked]
        /\ x.buf["data"].len = x.off /\ x.buf["meta"].len = x.moff
        /\ \A e \in x.buf["idx"].recs :
             book'[e.put] = book[e.put] /\ book[e.put].off < x.buf["data"].len
        /\ Laid(book, x.buf)
    BY <2>1, BufferPuts, AckedStays DEF Writer, IInv, TypeOK, LaidOut
  <2> HIDE DEF r
  <2> DEFINE b == x.buf
             p == x.put
             size == x.size
             c == r.buf
  <2>3. /\ b \in [Kinds -> Blob] /\ book \in [Puts -> Booked] /\ size \in Nat
        /\ Laid(book, b)
        /\ \A e \in b["idx"].recs :
             book'[e.put] = book[e.put] /\ book[e.put].off < b["data"].len
        /\ book'[p].off = b["data"].len /\ book'[p].moff = b["meta"].len
        /\ book'[p].size = size
        /\ \A k \in Kinds : c[k].len = b[k].len + EntrySize(k, size)
        /\ c["idx"].recs = b["idx"].recs \cup {[at |-> b["idx"].len, put |-> p]}
    BY <2>1, <2>2
  <2> HIDE DEF b, p, size, c
  <2>4. Laid(book', c)
    BY <2>3, LaidAppended
  <2> QED BY <1>0, <2>1, <2>4 DEF c
<1>3. ASSUME NEW w \in Writers, CreateNewWriters(w)
      PROVE  \A v \in Writers : writer'[v].inner => Laid(book', writer'[v].buf)
  <2> DEFINE b == [k \in Kinds |-> Headed(k, writer[w].sid)]
  <2>1. /\ writer'[w].buf = b
        /\ \A v \in Writers : v # w => writer'[v] = writer[v]
    BY <1>3 DEF CreateNewWriters, Becomes, IInv, TypeOK, Writer
  <2>2. \A k \in Kinds : b[k].recs = {} /\ b[k].len = HeadSize(k)
    BY DEF Headed
  <2> HIDE DEF b
  <2>3. Laid(book', b)
    BY <2>2, LaidEmpty
  <2> QED BY <1>0, <2>1, <2>3
<1>4. ASSUME NEW w \in Writers, Step(w) \/ Failure(w) \/ Call(w),
             ~Write(w), ~CreateNewWriters(w)
      PROVE  \A v \in Writers : writer'[v].inner => Laid(book', writer'[v].buf)
  BY <1>0, <1>4, BuffersStay
<1> QED BY <1>1, <1>2, <1>3, <1>4 DEF WriterNext

(* What a step publishes is a writer's buffer, and the index comes last    *)
(* (bs_opendal_writer.rs:37-48).                                           *)
LEMMA NewObject ==
  ASSUME IInv, [WriterNext]_wvars, NEW s \in Sids, NEW k \in Kinds,
         object'[s][k] # object[s][k]
  PROVE  /\ UNCHANGED <<book, acked>>
         /\ \E w \in Writers :
              /\ writer[w].inner /\ writer[w].sid = s /\ writer[w].kind = k
              /\ object'[s][k] = writer[w].buf[k]
              /\ k = "idx" => object'[s] = writer[w].buf
<1>1. PICK w \in Writers : /\ CloseWriter(w) \/ CloseWriterFails(w)
                           /\ object' = Published(w)
  <2>1. ASSUME NEW w \in Writers, Step(w) \/ Failure(w) \/ Call(w),
               ~CloseWriter(w), ~CloseWriterFails(w)
        PROVE  object' = object
    BY <2>1 DEF Step, Failure, Call, NextStackId, CreateNewWriters, Write,
       NextStackIdFails, CreateFails, WriteFails, Die, Put, Close, CloseNothing
  <2>2. \A w \in Writers : CloseWriter(w) \/ CloseWriterFails(w) =>
          object' \in {object, Published(w)}
    BY DEF CloseWriter, CloseWriterFails
  <2> QED BY <2>1, <2>2 DEF WriterNext, wvars
<1>2. UNCHANGED <<book, acked>> /\ writer[w].inner
  BY <1>1 DEF CloseWriter, CloseWriterFails, At, IInv, TypeOK
<1>3. /\ writer[w].sid = s /\ writer[w].kind = k
      /\ object'[s][k] = writer[w].buf[k]
  BY <1>1, <1>2, PublishedObject
<1>4. ASSUME k = "idx" PROVE object'[s] = writer[w].buf
  <2>1. \A j \in Kinds : object'[s][j] = writer[w].buf[j]
    BY <1>1, <1>2, <1>3, <1>4, PublishedObject DEF Kinds, Before
  <2>2. object'[s] \in [Kinds -> Blob]
    BY <1>1, <1>2, PublishedObject
  <2>3. writer[w].buf \in [Kinds -> Blob]
    BY <1>2, BufferPuts
  <2> QED BY <2>1, <2>2, <2>3
<1> QED BY <1>2, <1>3, <1>4

(* Buffers and published stacks stay laid out in step                      *)
(* (bs_opendal_writer.rs:37-140).                                          *)
LEMMA LaidOutStep ==
  ASSUME IInv, IInv', LaidOut, [WriterNext]_wvars
  PROVE  LaidOut'
<1>1. ASSUME NEW s \in Sids, object'[s]["idx"].there PROVE Laid(book', object'[s])
  <2>1. CASE object[s]["idx"].there
    <3>1. /\ object'[s] = object[s]
          /\ \A e \in object[s]["idx"].recs : book'[e.put] = book[e.put]
      BY <2>1, Frozen
    <3>2. Laid(book, object[s])
      BY <2>1 DEF LaidOut
    <3> QED BY <3>1, <3>2, LaidSame
  <2>2. CASE ~object[s]["idx"].there
    <3>1. book' = book /\ \E w \in Writers : writer[w].inner /\ object'[s] = writer[w].buf
      BY <1>1, <2>2, NewObject DEF Kinds
    <3> QED BY <3>1 DEF LaidOut
  <2> QED BY <2>1, <2>2
<1> QED BY <1>1, BuffersLaid DEF LaidOut

(* Data objects stay right, published or not: one that is closed holds the *)
(* acknowledged puts of its stack, and more are acknowledged, none less    *)
(* (bs_opendal_writer.rs:37-140).                                          *)
LEMMA DataObjectsStep ==
  ASSUME IInv, DataObjects, [WriterNext]_wvars
  PROVE  DataObjects'
<1>1. ASSUME NEW s \in Sids, NEW e \in object'[s]["data"].recs
      PROVE  e.put \in AckedIn(s)' /\ book'[e.put].off = e.at
  <2>1. CASE object'[s]["data"] = object[s]["data"]
    BY <1>1, <2>1, AckedStays DEF DataObjects, AckedIn
  <2>2. CASE object'[s]["data"] # object[s]["data"]
    <3>1. PICK w \in Writers : /\ UNCHANGED <<book, acked>>
                               /\ writer[w].inner /\ writer[w].sid = s
                               /\ object'[s]["data"] = writer[w].buf["data"]
      BY <2>2, NewObject DEF Kinds
    <3>2. e \in {[at |-> book[n].off, put |-> n] : n \in AckedIn(s)}
      BY <1>1, <3>1, Typed DEF InnerOK
    <3>3. AckedIn(s)' = AckedIn(s)
      BY <3>1 DEF AckedIn
    <3> QED BY <3>1, <3>2, <3>3
  <2> QED BY <2>1, <2>2
<1>2. ASSUME NEW n \in acked' PROVE book'[n].cookie \in Cookies
  <2>1. CASE n \in acked
    BY <2>1, AckedStays DEF DataObjects
  <2>2. CASE n \notin acked
    <3>1. ASSUME NEW w \in Writers, Step(w) \/ Failure(w) \/ Call(w),
                 ~Write(w), ~CreateNewWriters(w)
          PROVE  acked' = acked
      BY <3>1, BuffersStay
    <3>2. PICK w \in Writers : Write(w)
      BY <1>2, <2>2, <3>1 DEF WriterNext, wvars, CreateNewWriters
    <3> QED BY <1>2, <2>2, <3>2, WriteFacts
  <2> QED BY <2>1, <2>2
<1> QED BY <1>1, <1>2 DEF DataObjects

(* What stands at a position of a file, if anything                        *)
(* (bs_opendal_reader.rs:76-109).                                          *)
LEMMA PutAtFacts ==
  ASSUME NEW o, o.recs \subseteq Entry, NEW at
  PROVE  /\ PutAt(o, at) \in 0 .. MaxPuts
         /\ PutAt(o, at) # 0 =>
              \E e \in o.recs : e.at = at /\ e.put = PutAt(o, at)
         /\ \A e \in o.recs :
              e.at = at /\ (\A f \in o.recs : f.at = at => f.put = e.put) =>
                PutAt(o, at) = e.put /\ PutAt(o, at) # 0
<1>1. CASE \E e \in o.recs : e.at = at
  <2> DEFINE c == CHOOSE e \in o.recs : e.at = at
  <2>1. c \in o.recs /\ c.at = at
    BY <1>1
  <2>2. PutAt(o, at) = c.put
    BY <1>1 DEF PutAt
  <2> HIDE DEF c
  <2>3. c.put \in 0 .. MaxPuts /\ \A f \in o.recs : f.put # 0
    BY <2>1, BoundsAssumption DEF Entry, Puts
  <2> QED BY <2>1, <2>2, <2>3
<1>2. CASE ~\E e \in o.recs : e.at = at
  BY <1>2, BoundsAssumption DEF PutAt
<1> QED BY <1>1, <1>2

(* A published stack: its files are laid out in step, and the payload and  *)
(* the meta line of an index record are where its writer says              *)
(* (bs_opendal_writer.rs:37-140).                                          *)
LEMMA StackFacts ==
  ASSUME StoreIInv, NEW s \in Sids, object[s]["idx"].there
  PROVE  /\ Laid(book, object[s])
         /\ object[s] \in [Kinds -> Blob]
         /\ object[s]["idx"].head = s
         /\ \A k \in Kinds : object[s][k].there
         /\ {e.put : e \in object[s]["idx"].recs} = AckedIn(s)
         /\ \A e \in object[s]["idx"].recs :
              /\ e \in Entry /\ e.at \in Nat /\ e.put \in Puts /\ e.put \in acked
              /\ book[e.put] \in Booked
              /\ PutAt(object[s]["data"], book[e.put].off) = e.put
              /\ PutAt(object[s]["meta"], book[e.put].moff) = e.put
              /\ e.put # 0
<1> DEFINE recs == object[s]["idx"].recs
<1>1. /\ Laid(book, object[s])
      /\ object[s] \in [Kinds -> Blob]
      /\ {e.put : e \in recs} = AckedIn(s)
      /\ \A k \in Kinds : /\ object[s][k].there /\ object[s][k].head = s
                          /\ object[s][k].recs = Expected(s, k)
      /\ book \in [Puts -> Booked] /\ acked \subseteq Puts
      /\ "data" \in Kinds /\ "meta" \in Kinds /\ "idx" \in Kinds
      /\ AckedIdsUnique
  BY DEF StoreIInv, LaidOut, IInv, TypeOK, PublishedWhole, Kinds
<1>2. \A k \in Kinds : object[s][k].recs \subseteq Entry
  BY <1>1 DEF Blob
<1>3. /\ object[s]["data"].recs = {[at |-> book[n].off, put |-> n] : n \in AckedIn(s)}
      /\ object[s]["meta"].recs = {[at |-> book[n].moff, put |-> n] : n \in AckedIn(s)}
  BY <1>1 DEF Expected
<1>4. ASSUME NEW e \in recs
      PROVE  /\ e \in Entry /\ e.at \in Nat /\ e.put \in Puts /\ e.put \in acked
             /\ book[e.put] \in Booked
             /\ PutAt(object[s]["data"], book[e.put].off) = e.put
             /\ PutAt(object[s]["meta"], book[e.put].moff) = e.put
             /\ e.put # 0
  <2>1. e \in Entry /\ e.at \in Nat /\ e.put \in Puts /\ book[e.put] \in Booked
        /\ e.put # 0
    BY <1>1, <1>2, BoundsAssumption DEF Entry, Puts
  <2>2. e.put \in AckedIn(s) /\ e.put \in acked
    BY <1>1 DEF AckedIn
  <2>3. PutAt(object[s]["data"], book[e.put].off) = e.put
    <3> DEFINE d == [at |-> book[e.put].off, put |-> e.put]
    <3>1. d \in object[s]["data"].recs /\ d.at = book[e.put].off /\ d.put = e.put
      BY <1>3, <2>2
    <3>2. \A f \in object[s]["data"].recs : f.at = book[e.put].off => f.put = e.put
      BY <1>1, <1>3, <2>2 DEF AckedIdsUnique, AckedIn
    <3>3. object[s]["data"].recs \subseteq Entry
      BY <1>1, <1>2
    <3> HIDE DEF d
    <3> QED BY <3>1, <3>2, <3>3, PutAtFacts
  <2>4. PutAt(object[s]["meta"], book[e.put].moff) = e.put
    <3> DEFINE d == [at |-> book[e.put].moff, put |-> e.put]
    <3>1. d \in object[s]["meta"].recs /\ d.at = book[e.put].moff /\ d.put = e.put
      BY <1>3, <2>2
    <3>2. ASSUME NEW f \in object[s]["meta"].recs, f.at = book[e.put].moff
          PROVE  f.put = e.put
      <4>1. f.put \in AckedIn(s) /\ book[f.put].moff = book[e.put].moff
        BY <1>3, <3>2
      <4>2. PICK g \in recs : g.put = f.put
        BY <1>1, <4>1
      <4>3. g = e \/ Precedes(book, g, e) \/ Precedes(book, e, g)
        BY <1>1 DEF Laid
      <4>4. book[e.put].moff \in Nat
        BY <2>1 DEF Booked
      <4> QED BY <4>1, <4>2, <4>3, <4>4 DEF Precedes
    <3>3. object[s]["meta"].recs \subseteq Entry
      BY <1>1, <1>2
    <3> HIDE DEF d
    <3> QED BY <3>1, <3>2, <3>3, PutAtFacts
  <2> QED BY <2>1, <2>2, <2>3, <2>4
<1> QED BY <1>1, <1>4

(* The first of the index records that are left is taken off: what follows *)
(* it in the files is the first of the rest                                *)
(* (bs_opendal_reader.rs:36-37, 73-74).                                    *)
LEMMA NextEntry ==
  ASSUME StoreIInv, NEW s \in Sids, object[s]["idx"].there,
         NEW e \in object[s]["idx"].recs, NEW ir \in object[s]["idx"].recs,
         e.at <= ir.at,
         \A f \in object[s]["idx"].recs : e.at <= f.at => ir.at <= f.at
  PROVE  /\ ir = e
         /\ \A f \in object[s]["idx"].recs :
              e.at <= f.at => f = e \/ book[e.put].off < book[f.put].off
         /\ \/ \A f \in object[s]["idx"].recs : e.at <= f.at => f = e
            \/ \E g \in object[s]["idx"].recs :
                 /\ g # e /\ e.at <= g.at /\ Follows(book, e, g)
                 /\ \A f \in object[s]["idx"].recs :
                      e.at <= f.at /\ f # e <=> g.at <= f.at
<1> DEFINE recs == object[s]["idx"].recs
           b == object[s]
<1>1. /\ Laid(book, b) /\ b["idx"].len \in Nat
      /\ \A f \in recs : f.at \in Nat
      /\ IdxSize \in Nat /\ IdxSize > 0
  <2>1. b \in [Kinds -> Blob] /\ "idx" \in Kinds
    BY StackFacts DEF Kinds
  <2> QED BY <2>1, StackFacts, LineAssumption, IdxAssumption DEF Blob
<1> HIDE DEF b
<1>2. \A f, g \in recs : f = g \/ Precedes(book, f, g) \/ Precedes(book, g, f)
  BY <1>1 DEF Laid, b
<1>3. \A f \in recs : e.at <= f.at => f = e \/ Precedes(book, e, f)
  BY <1>1, <1>2 DEF Precedes
<1>4. ir = e
  BY <1>1, <1>3 DEF Precedes
<1>5. Ends(book, b, e) \/ \E g \in recs : Follows(book, e, g)
  BY <1>1 DEF Laid, b
<1>6. ASSUME Ends(book, b, e) PROVE \A f \in recs : e.at <= f.at => f = e
  <2>1. \A f \in recs : f.at + IdxSize <= b["idx"].len
    BY <1>1 DEF Laid, b
  <2>2. b["idx"].len = e.at + IdxSize
    BY <1>6 DEF Ends
  <2> QED BY <1>1, <1>3, <2>1, <2>2 DEF Precedes
<1>7. ASSUME NEW g \in recs, Follows(book, e, g)
      PROVE  /\ g # e /\ e.at <= g.at
             /\ \A f \in recs : e.at <= f.at /\ f # e <=> g.at <= f.at
  <2>1. g.at = e.at + IdxSize /\ e.at \in Nat /\ g.at \in Nat
    BY <1>1, <1>7 DEF Follows
  <2>2. \A f \in recs : e.at <= f.at /\ f # e => g.at <= f.at
    BY <1>3, <2>1 DEF Precedes
  <2>3. \A f \in recs : g.at <= f.at => e.at <= f.at /\ f # e
    BY <1>1, <2>1
  <2> QED BY <1>1, <2>1, <2>2, <2>3
<1> QED BY <1>3, <1>4, <1>5, <1>6, <1>7 DEF Precedes

(* A reader that has begun nothing, or a listing only                      *)
(* (bs_opendal_reader.rs:132-168).                                         *)
LEMMA FreshReader ==
  ASSUME NEW r \in Reader, reader' = r,
         r.seen = <<>>, r.pc \in {"idle", "header"},
         r.wanted \in {{}, {"meta"}, {"meta", "data"}},
         \A s \in r.listed : object'[s]["idx"].there,
         r.pc = "header" => r.sid \in Sids /\ object'[r.sid]["idx"].there,
         r.fetched.got # 0 => r.fetched.got = r.fetched.ask,
         r.fetched.due => r.fetched.got # 0
  PROVE  ReaderIInv'
<1>1. ReaderOK'
  BY DEF ReaderOK
<1>2. IterateRight' /\ FetchRight'
  BY DEF IterateRight, FetchRight, Seen
<1> QED BY <1>1, <1>2 DEF ReaderIInv

(* A reader before its first call, and after an error                      *)
(* (bs_opendal_reader.rs:132-142).                                         *)
LEMMA IdleReaderFacts ==
  /\ IdleReader \in Reader
  /\ IdleReader.seen = <<>> /\ IdleReader.pc = "idle" /\ IdleReader.wanted = {}
  /\ IdleReader.listed = {}
  /\ IdleReader.fetched.got = 0 /\ ~IdleReader.fetched.due
BY BoundsAssumption DEF IdleReader, Reader

(* After an error there is nothing to keep (bs_opendal_reader.rs:351-434). *)
LEMMA GivenUp ==
  ASSUME reader' = IdleReader
  PROVE  ReaderIInv'
<1> DEFINE r == IdleReader
<1>1. /\ r \in Reader /\ r.seen = <<>> /\ r.pc = "idle" /\ r.wanted = {}
      /\ r.listed = {} /\ r.fetched.got = 0 /\ ~r.fetched.due /\ reader' = r
  BY IdleReaderFacts
<1> HIDE DEF r
<1> QED BY <1>1, FreshReader

(* list finds stacks that are published (bs_opendal_reader.rs:145-168).    *)
LEMMA ListStep ==
  ASSUME StoreIInv, List
  PROVE  ReaderIInv'
<1> DEFINE l == {s \in Sids : object[s]["idx"].there}
           r == [IdleReader EXCEPT !.listed = l]
<1>1. reader' = r /\ l \in SUBSET Sids /\ \A s \in l : object'[s]["idx"].there
  BY DEF List, wvars
<1> HIDE DEF l
<1>2. /\ r \in Reader /\ r.seen = <<>> /\ r.pc = "idle" /\ r.wanted = {}
      /\ r.listed = l /\ r.fetched.got = 0 /\ ~r.fetched.due
  BY <1>1, IdleReaderFacts DEF Reader
<1> HIDE DEF r
<1> QED BY <1>1, <1>2, FreshReader

(* An iterator begins with a stack that was listed                         *)
(* (bs_opendal_reader.rs:268-275).                                         *)
LEMMA IterateStep ==
  ASSUME StoreIInv, ReaderIInv, NEW s \in Sids,
         NEW wanted \in {{}, {"meta"}, {"meta", "data"}}, Iterate(s, wanted)
  PROVE  ReaderIInv'
<1> DEFINE r == [IdleReader EXCEPT !.pc = "header", !.sid = s, !.wanted = wanted]
<1>1. reader' = r /\ object'[s]["idx"].there /\ s \in Nat
  BY BoundsAssumption DEF Iterate, wvars, ReaderIInv, ReaderOK, Sids
<1>2. /\ r \in Reader /\ r.seen = <<>> /\ r.pc = "header" /\ r.wanted = wanted
      /\ r.sid = s /\ r.listed = {} /\ r.fetched.got = 0 /\ ~r.fetched.due
  BY <1>1, IdleReaderFacts DEF Reader
<1> HIDE DEF r
<1> QED BY <1>1, <1>2, FreshReader

(* A fetch looks where the put's record is, and only there, so it returns  *)
(* that put's payload or nothing, and nothing only when the stack is not   *)
(* published (bs_opendal_reader.rs:435-499).                               *)
LEMMA FetchStep ==
  ASSUME StoreIInv, NEW n \in Puts, Fetch(n)
  PROVE  ReaderIInv'
<1> DEFINE id == ParseIndexId(FormatIndexId(book[n].off, book[n].cookie))
           s == book[n].sid
           m == PutAt(object[s]["data"], id.off)
           ok == m # 0 /\ book[m].cookie = id.cookie
           due == IsPublished(n)
           got == IF ok THEN m ELSE 0
           x == [ask |-> n, got |-> got, due |-> due]
           r == [IdleReader EXCEPT !.fetched = x]
<1>1. /\ n \in acked /\ s \in Sids /\ n \in AckedIn(s)
      /\ book[n].off \in Nat /\ book[n].cookie \in Nat
      /\ book[n].cookie \in 0 .. (CookieSpan - 1)
      /\ object[s] \in [Kinds -> Blob]
      /\ AckedIdsUnique
  BY CookiesAssumption DEF Fetch, StoreIInv, DataObjects, IInv, TypeOK, Booked,
     Accounted, AckedIn
<1>2. id.off = book[n].off /\ id.cookie = book[n].cookie
  BY <1>1, IndexIdRoundTrip
<1>3. object[s]["data"].recs \subseteq Entry
  BY <1>1 DEF Kinds, Blob
<1>4. \A e \in object[s]["data"].recs :
        e.at = id.off => e.put = n
  BY <1>1, <1>2 DEF StoreIInv, DataObjects, AckedIn, AckedIdsUnique
<1> HIDE DEF id
<1>5. m \in 0 .. MaxPuts /\ (m # 0 => m = n)
  BY <1>3, <1>4, PutAtFacts
<1>6. ASSUME due PROVE ok
  <2>1. object[s]["idx"].there
    BY <1>6 DEF IsPublished
  <2>2. \A e \in object[s]["idx"].recs :
          PutAt(object[s]["data"], book[e.put].off) = e.put /\ e.put # 0
    BY <1>1, <2>1, StackFacts
  <2>3. \E e \in object[s]["idx"].recs : e.put = n
    BY <1>1, <2>1, StackFacts
  <2>4. m = n /\ m # 0
    BY <1>2, <2>2, <2>3
  <2> QED BY <1>2, <2>4
<1>7. reader' = IF ~ok /\ ~due THEN IdleReader ELSE r
  BY DEF Fetch, id
<1>8. got \in 0 .. MaxPuts /\ due \in BOOLEAN /\ n \in 0 .. MaxPuts
  <2>1. due \in BOOLEAN
    BY <1>1 DEF IsPublished, Kinds, Blob
  <2>2. n \in 0 .. MaxPuts /\ 0 \in 0 .. MaxPuts
    BY BoundsAssumption DEF Puts
  <2> HIDE DEF m, ok, due
  <2>3. got \in 0 .. MaxPuts
    BY <1>5, <2>2
  <2> QED BY <2>1, <2>2, <2>3
<1>9. got # 0 => got = n
  BY <1>5
<1>10. due => got # 0
  BY <1>6
<1> HIDE DEF m, ok, due, got
<1>11. CASE ~ok /\ ~due
  BY <1>7, <1>11, GivenUp
<1>12. CASE ok \/ due
  <2>1. /\ x.got = got /\ x.ask = n /\ x.due = due
        /\ x \in [ask : 0 .. MaxPuts, got : 0 .. MaxPuts, due : BOOLEAN]
    BY <1>8
  <2> HIDE DEF x
  <2>2. /\ r \in Reader /\ r.seen = <<>> /\ r.pc = "idle" /\ r.wanted = {}
        /\ r.listed = {} /\ r.fetched = x
    BY <2>1, IdleReaderFacts DEF Reader
  <2>3. reader' = r
    BY <1>7, <1>12
  <2> HIDE DEF r
  <2> QED BY <1>9, <1>10, <2>1, <2>2, <2>3, FreshReader
<1> QED BY <1>11, <1>12

(* The index of a published stack is its own (bs_opendal_reader.rs:305).   *)
LEMMA ReadHeaderStep ==
  ASSUME StoreIInv, ReaderIInv, ReadHeader
  PROVE  ReaderIInv'
<1> DEFINE r == [reader EXCEPT !.pc = "records"]
<1>1. /\ reader.pc = "header" /\ reader.sid \in Sids
      /\ object[reader.sid]["idx"].there /\ object[reader.sid]["idx"].head = reader.sid
      /\ reader \in Reader /\ ReaderOK /\ IterateRight /\ FetchRight
      /\ UNCHANGED <<object, book, acked>>
  BY StackFacts DEF ReadHeader, ReaderIInv, ReaderOK, wvars
<1>2. reader' = r
  BY <1>1 DEF ReadHeader
<1>3. /\ r \in Reader /\ r.pc = "records" /\ r.sid = reader.sid
      /\ r.seen = reader.seen /\ r.listed = reader.listed
      /\ r.wanted = reader.wanted /\ r.fetched = reader.fetched
  BY <1>1 DEF Reader
<1> HIDE DEF r
<1>4. ReaderOK'
  BY <1>1, <1>2, <1>3 DEF ReaderOK
<1>5. IterateRight' /\ FetchRight'
  BY <1>1, <1>2, <1>3 DEF IterateRight, FetchRight, ReaderOK, Seen
<1> QED BY <1>2, <1>3, <1>4, <1>5 DEF ReaderIInv

(* The first of all index records, where the readers of the files begin    *)
(* (bs_opendal_reader.rs:327-342).                                         *)
LEMMA FirstEntry ==
  ASSUME StoreIInv, NEW s \in Sids, object[s]["idx"].there,
         object[s]["idx"].recs # {}
  PROVE  \E e \in object[s]["idx"].recs :
           /\ Leads(book, e)
           /\ object[s]["idx"].recs = {f \in object[s]["idx"].recs : e.at <= f.at}
<1>1. Laid(book, object[s])
  BY StackFacts
<1>2. PICK e \in object[s]["idx"].recs : Leads(book, e)
  BY <1>1 DEF Laid
<1>3. \A f \in object[s]["idx"].recs : e.at <= f.at
  BY <1>1, <1>2 DEF Laid, Leads
<1> QED BY <1>2, <1>3

(* An iterator that is about to return the first record                    *)
(* (bs_opendal_reader.rs:308-342).                                         *)
LEMMA FirstNext ==
  ASSUME StoreIInv, UNCHANGED <<object, book, acked>>, ReaderIInv,
         NEW r \in Reader, reader' = r,
         r.pc = "next", r.seen = <<>>, r.sid = reader.sid,
         r.listed = reader.listed, r.wanted = reader.wanted,
         r.fetched = reader.fetched, reader.pc # "idle",
         r.irs = IndexOf,
         "meta" \in r.wanted => r.meta = HeadSize("meta"),
         "data" \in r.wanted => r.data = HeadSize("data")
  PROVE  ReaderIInv'
<1>1. /\ r.sid \in Sids /\ object[r.sid]["idx"].there
      /\ ReaderOK /\ IterateRight /\ FetchRight
      /\ IndexOf = object[r.sid]["idx"].recs /\ IndexOf' = IndexOf
  BY DEF ReaderIInv, ReaderOK, IndexOf
<1>2. Seen' = {e.put : e \in IndexOf' \ reader'.irs}
  BY <1>1 DEF Seen
<1>3. ASSUME r.irs # {}
      PROVE  \E e \in reader'.irs :
               Here(e)' /\ reader'.irs = {f \in IndexOf' : e.at <= f.at}
  <2>1. PICK e \in IndexOf : Leads(book, e) /\ IndexOf = {f \in IndexOf : e.at <= f.at}
    BY <1>1, <1>3, FirstEntry
  <2>2. Here(e)'
    BY <2>1 DEF Here, Leads
  <2> QED BY <1>1, <2>1, <2>2
<1>4. ReaderOK'
  <2>1. \A s \in reader'.listed : object'[s]["idx"].there
    BY <1>1 DEF ReaderOK
  <2>2. reader'.wanted \in {{}, {"meta"}, {"meta", "data"}}
    BY <1>1 DEF ReaderOK
  <2>3. reader'.sid \in Sids /\ object'[reader'.sid]["idx"].there
    BY <1>1
  <2>4. \A i \in DOMAIN reader'.seen : FALSE
    OBVIOUS
  <2> QED BY <1>1, <1>2, <1>3, <2>1, <2>2, <2>3, <2>4 DEF ReaderOK
<1>5. IterateRight' /\ FetchRight'
  BY <1>1 DEF IterateRight, FetchRight, Seen
<1> QED BY <1>4, <1>5 DEF ReaderIInv

(* All index records are read (bs_opendal_reader.rs:308-326).              *)
LEMMA ReadRecordsStep ==
  ASSUME StoreIInv, ReaderIInv, ReadRecords
  PROVE  ReaderIInv'
<1> DEFINE recs == IndexOf
           pc == IF "meta" \in reader.wanted THEN "meta" ELSE "next"
           r == [reader EXCEPT !.irs = recs, !.pc = pc]
<1>1. /\ reader.pc = "records" /\ reader.sid \in Sids /\ reader.seen = <<>>
      /\ object[reader.sid]["idx"].there
      /\ reader.wanted \in {{}, {"meta"}, {"meta", "data"}}
      /\ reader \in Reader /\ ReaderOK /\ IterateRight /\ FetchRight
      /\ UNCHANGED <<object, book, acked>>
  BY DEF ReadRecords, ReaderIInv, ReaderOK, wvars
<1>2. reader' = r
  BY DEF ReadRecords, IndexOf
<1>3. recs \in SUBSET Entry /\ pc \in {"meta", "next"}
  BY <1>1, StackFacts DEF IndexOf
<1>p. pc = "meta" <=> "meta" \in reader.wanted
  OBVIOUS
<1> HIDE DEF recs, pc
<1>4. /\ r \in Reader /\ r.pc = pc /\ r.sid = reader.sid /\ r.irs = recs
      /\ r.seen = reader.seen /\ r.listed = reader.listed
      /\ r.wanted = reader.wanted /\ r.fetched = reader.fetched
  BY <1>1, <1>3 DEF Reader
<1> HIDE DEF r
<1>5. CASE pc = "meta"
  <2>1. IndexOf' = recs
    BY <1>1, <1>2, <1>4 DEF IndexOf, recs
  <2>2. ReaderOK'
    BY <1>1, <1>2, <1>4, <1>5, <1>p, <2>1 DEF ReaderOK
  <2>3. IterateRight' /\ FetchRight'
    BY <1>1, <1>2, <1>4, <1>5 DEF IterateRight, FetchRight, Seen
  <2> QED BY <1>2, <1>4, <2>2, <2>3 DEF ReaderIInv
<1>6. CASE pc = "next"
  <2>1. reader.wanted = {}
    BY <1>1, <1>p, <1>6
  <2> QED BY <1>1, <1>2, <1>4, <1>6, <2>1, FirstNext DEF recs
<1> QED BY <1>3, <1>5, <1>6

(* The files are read from behind their headers                            *)
(* (bs_opendal_reader.rs:327-342, 400-427).                                *)
LEMMA OpenReaderStep ==
  ASSUME StoreIInv, ReaderIInv, OpenReader("meta") \/ OpenReader("data")
  PROVE  ReaderIInv'
<1>1. /\ reader.pc \in {"meta", "data"} /\ reader.pc \in reader.wanted
      /\ reader.sid \in Sids /\ reader.seen = <<>> /\ reader.irs = IndexOf
      /\ object[reader.sid]["idx"].there
      /\ \A k \in Kinds : object[reader.sid][k].there
      /\ reader.wanted \in {{"meta"}, {"meta", "data"}}
      /\ reader \in Reader /\ ReaderOK /\ IterateRight /\ FetchRight
      /\ UNCHANGED <<object, book, acked>>
      /\ HeadSize("meta") \in Nat /\ HeadSize("data") \in Nat
  BY StackFacts, LineAssumption, IdxAssumption, AlignmentAssumption
     DEF OpenReader, ReaderIInv, ReaderOK, wvars, HeadSize, Kinds
<1>2. CASE OpenReader("meta")
  <2> DEFINE h == HeadSize("meta")
             pc == IF "data" \in reader.wanted THEN "data" ELSE "next"
             r == [reader EXCEPT !["meta"] = h, !.pc = pc]
  <2>1. reader.pc = "meta" /\ reader' = r
    BY <1>1, <1>2 DEF OpenReader, Kinds
  <2>2. h \in Nat /\ pc \in {"data", "next"} /\ (pc = "data" <=> "data" \in reader.wanted)
    BY <1>1
  <2> HIDE DEF h, pc
  <2>3. /\ r \in Reader /\ r.pc = pc /\ r.sid = reader.sid /\ r.irs = reader.irs
        /\ r.seen = reader.seen /\ r.listed = reader.listed /\ r.meta = h
        /\ r.wanted = reader.wanted /\ r.fetched = reader.fetched
    BY <1>1, <2>2 DEF Reader
  <2> HIDE DEF r
  <2>4. CASE pc = "data"
    <3>1. IndexOf' = IndexOf
      BY <1>1, <2>1, <2>3 DEF IndexOf
    <3>2. ReaderOK'
      BY <1>1, <2>1, <2>2, <2>3, <2>4, <3>1 DEF ReaderOK, h
    <3>3. IterateRight' /\ FetchRight'
      BY <1>1, <2>1, <2>3, <2>4 DEF IterateRight, FetchRight, Seen
    <3> QED BY <2>1, <2>3, <3>2, <3>3 DEF ReaderIInv
  <2>5. CASE pc = "next"
    BY <1>1, <2>1, <2>2, <2>3, <2>5, FirstNext DEF h
  <2> QED BY <2>2, <2>4, <2>5
<1>3. CASE OpenReader("data")
  <2> DEFINE h == HeadSize("data")
             r == [reader EXCEPT !["data"] = h, !.pc = "next"]
  <2>1. reader.pc = "data" /\ reader' = r /\ reader.meta = HeadSize("meta")
    BY <1>1, <1>3 DEF OpenReader, Kinds, ReaderOK
  <2>2. h \in Nat
    BY <1>1
  <2> HIDE DEF h
  <2>3. /\ r \in Reader /\ r.pc = "next" /\ r.sid = reader.sid /\ r.irs = reader.irs
        /\ r.seen = reader.seen /\ r.listed = reader.listed /\ r.data = h
        /\ r.meta = reader.meta
        /\ r.wanted = reader.wanted /\ r.fetched = reader.fetched
    BY <1>1, <2>2 DEF Reader
  <2> HIDE DEF r
  <2> QED BY <1>1, <2>1, <2>3, FirstNext DEF h
<1> QED BY <1>2, <1>3

(* What the readers of the files find when they are at an index record     *)
(* (bs_opendal_reader.rs:76-109).                                          *)
LEMMA AtEntry ==
  ASSUME StoreIInv, ReaderIInv, reader.sid \in Sids,
         object[reader.sid]["idx"].there, NEW e \in IndexOf, Here(e)
  PROVE  /\ \A k \in reader.wanted : PutAt(object[reader.sid][k], reader[k]) = e.put
         /\ e.put # 0 /\ ~Bad("meta") /\ ~Bad("data")
<1>1. /\ reader.wanted \in {{}, {"meta"}, {"meta", "data"}}
      /\ PutAt(object[reader.sid]["data"], book[e.put].off) = e.put
      /\ PutAt(object[reader.sid]["meta"], book[e.put].moff) = e.put
      /\ e.put # 0
  BY StackFacts DEF ReaderIInv, ReaderOK, IndexOf
<1>2. \A k \in reader.wanted : PutAt(object[reader.sid][k], reader[k]) = e.put
  <2>1. "meta" \in reader.wanted =>
          PutAt(object[reader.sid]["meta"], reader["meta"]) = e.put
    BY <1>1 DEF Here
  <2>2. "data" \in reader.wanted =>
          PutAt(object[reader.sid]["data"], reader["data"]) = e.put
    BY <1>1 DEF Here
  <2> QED BY <1>1, <2>1, <2>2
<1> QED BY <1>1, <1>2 DEF Bad

(* An iterator is at the first of the records that are left, so what it    *)
(* reads belongs to that record, and the sizes take it to the next         *)
(* (bs_opendal_reader.rs:32-57, 67-117, 254-263).                          *)
LEMMA IterateNextStep ==
  ASSUME StoreIInv, ReaderIInv, IterateNext
  PROVE  ReaderIInv'
<1>0. /\ reader.pc = "next" /\ reader.sid \in Sids
      /\ object[reader.sid]["idx"].there
      /\ reader \in Reader /\ ReaderOK /\ IterateRight /\ FetchRight
      /\ UNCHANGED <<object, book, acked>>
      /\ IndexOf' = object[reader'.sid]["idx"].recs
  BY DEF IterateNext, ReaderIInv, ReaderOK, wvars, IndexOf
<1>1. PICK ir \in reader.irs :
        /\ \A e \in reader.irs : ir.at <= e.at
        /\ reader' =
             [reader EXCEPT
                !.irs = reader.irs \ {ir},
                !.meta = reader.meta + MetaLine,
                !.data = IF "data" \in reader.wanted
                           THEN reader.data + DataStep(book[ir.put].size)
                           ELSE reader.data,
                !.seen = Append(reader.seen,
                   [ir |-> ir.put,
                    with |-> {PutAt(object[reader.sid][k], reader[k]) :
                                k \in reader.wanted}])]
  BY DEF IterateNext
<1>2. PICK e \in reader.irs : Here(e) /\ reader.irs = {f \in IndexOf : e.at <= f.at}
  BY <1>0, <1>1 DEF ReaderOK
<1> DEFINE left == reader.irs \ {e}
           s == reader.sid
<1>3. /\ ir = e /\ e \in IndexOf
      /\ \A f \in left : book[e.put].off < book[f.put].off
      /\ left # {} => \E g \in left : /\ Follows(book, e, g)
                                      /\ left = {f \in IndexOf : g.at <= f.at}
  <2>1. e \in IndexOf
    BY <1>2
  <2> DEFINE recs == object[s]["idx"].recs
  <2>2. /\ s \in Sids /\ object[s]["idx"].there
        /\ IndexOf = recs /\ e \in recs /\ ir \in recs
        /\ reader.irs = {f \in recs : e.at <= f.at}
        /\ e.at <= ir.at
        /\ \A f \in recs : e.at <= f.at => ir.at <= f.at
    BY <1>0, <1>1, <1>2, <2>1 DEF IndexOf
  <2>3. /\ ir = e
        /\ \A f \in recs : e.at <= f.at => f = e \/ book[e.put].off < book[f.put].off
        /\ \/ \A f \in recs : e.at <= f.at => f = e
           \/ \E g \in recs :
                /\ g # e /\ e.at <= g.at /\ Follows(book, e, g)
                /\ \A f \in recs : e.at <= f.at /\ f # e <=> g.at <= f.at
    BY <2>2, NextEntry
  <2> HIDE DEF recs
  <2> QED BY <2>2, <2>3
<1>4. /\ \A k \in reader.wanted : PutAt(object[s][k], reader[k]) = e.put
      /\ e \in Entry /\ e.put \in Puts /\ book[e.put] \in Booked
  BY <1>0, <1>2, <1>3, AtEntry, StackFacts DEF IndexOf
<1>5. /\ MetaLine \in Nat /\ DataAdvance(book[e.put].size) \in Nat
      /\ DataStep(book[e.put].size) = DataAdvance(book[e.put].size)
  <2>1. book[e.put].size \in Nat
    BY <1>4 DEF Booked
  <2> QED BY <2>1, Lengths DEF DataStep, DataAdvance, RecordSize
<1> DEFINE with == {PutAt(object[s][k], reader[k]) : k \in reader.wanted}
           rec == [ir |-> e.put, with |-> with]
           seen == Append(reader.seen, rec)
           meta == reader.meta + MetaLine
           data == IF "data" \in reader.wanted
                     THEN reader.data + DataAdvance(book[e.put].size) ELSE reader.data
           r == [reader EXCEPT !.irs = left, !.meta = meta, !.data = data, !.seen = seen]
<1>6. reader' = r
  BY <1>1, <1>3, <1>5
<1>7. with \subseteq {e.put} /\ with \subseteq 0 .. MaxPuts
  BY <1>4, BoundsAssumption DEF Puts
<1>8. /\ left \in SUBSET Entry /\ meta \in Nat /\ data \in Nat
      /\ rec.ir = e.put /\ rec.with = with
      /\ rec \in [ir : Puts, with : SUBSET (0 .. MaxPuts)]
      /\ reader.seen \in Seq([ir : Puts, with : SUBSET (0 .. MaxPuts)])
  BY <1>0, <1>4, <1>5, <1>7 DEF Reader
<1>m. /\ meta = reader.meta + MetaLine
      /\ "data" \in reader.wanted =>
           data = reader.data + DataAdvance(book[e.put].size)
  OBVIOUS
<1> HIDE DEF with, rec, meta, data
<1>9. /\ seen \in Seq([ir : Puts, with : SUBSET (0 .. MaxPuts)])
      /\ Len(seen) = Len(reader.seen) + 1 /\ Len(reader.seen) \in Nat
      /\ seen[Len(seen)] = rec
      /\ \A i \in DOMAIN reader.seen : i \in DOMAIN seen /\ seen[i] = reader.seen[i]
      /\ \A i \in DOMAIN seen : i \in DOMAIN reader.seen \/ i = Len(seen)
      /\ DOMAIN reader.seen = 1 .. Len(reader.seen) /\ DOMAIN seen = 1 .. Len(seen)
  BY <1>8
<1> HIDE DEF seen
<1>10. /\ r \in Reader /\ r.pc = "next" /\ r.sid = s /\ r.irs = left
       /\ r.meta = meta /\ r.data = data /\ r.seen = seen
       /\ r.listed = reader.listed /\ r.wanted = reader.wanted
       /\ r.fetched = reader.fetched
  BY <1>0, <1>8, <1>9 DEF Reader
<1> HIDE DEF r
<1>11. IndexOf' = IndexOf
  BY <1>0, <1>6, <1>10 DEF IndexOf
<1>12. Seen' = {f.put : f \in IndexOf \ left}
  <2>1. Seen' = {seen[i].ir : i \in DOMAIN seen}
    BY <1>6, <1>10 DEF Seen
  <2>2. Seen = {reader.seen[i].ir : i \in DOMAIN reader.seen}
    BY DEF Seen
  <2>3. {seen[i].ir : i \in DOMAIN seen} = Seen \cup {e.put}
    <3>1. Len(seen) \in DOMAIN seen
      BY <1>9
    <3> QED BY <1>8, <1>9, <2>2, <3>1
  <2>4. Seen = {f.put : f \in IndexOf \ reader.irs}
    BY <1>0 DEF ReaderOK
  <2>5. IndexOf \ left = (IndexOf \ reader.irs) \cup {e}
    BY <1>3
  <2> HIDE DEF left
  <2> QED BY <2>1, <2>3, <2>4, <2>5
<1>13. left # {} => \E g \in left : Here(g)' /\ left = {f \in IndexOf : g.at <= f.at}
  <2> SUFFICES ASSUME NEW g \in left, Follows(book, e, g) PROVE Here(g)'
    BY <1>3
  <2>1. "meta" \in reader.wanted => meta = book[g.put].moff
    BY <1>2, <1>m DEF Here, Follows
  <2>2. "data" \in reader.wanted => data = book[g.put].off
    BY <1>2, <1>m DEF Here, Follows
  <2> QED BY <1>0, <1>6, <1>10, <2>1, <2>2 DEF Here
<1>14. \A i \in DOMAIN seen : \A f \in left : book[seen[i].ir].off < book[f.put].off
  <2>1. \A i \in DOMAIN reader.seen : \A f \in left :
          book[reader.seen[i].ir].off < book[f.put].off
    BY <1>0 DEF ReaderOK
  <2> QED BY <1>3, <1>8, <1>9, <2>1
<1>15. ReaderOK'
  <2>1. \A t \in reader'.listed : object'[t]["idx"].there
    BY <1>0, <1>6, <1>10 DEF ReaderOK
  <2>2. reader'.wanted \in {{}, {"meta"}, {"meta", "data"}}
    BY <1>0, <1>6, <1>10 DEF ReaderOK
  <2>3. left \subseteq IndexOf
    BY <1>0 DEF ReaderOK
  <2>4. \A i \in DOMAIN reader'.seen : \A f \in reader'.irs :
          book'[reader'.seen[i].ir].off < book'[f.put].off
    BY <1>0, <1>6, <1>10, <1>14
  <2> HIDE DEF left
  <2> QED BY <1>0, <1>6, <1>10, <1>11, <1>12, <1>13, <2>1, <2>2, <2>3, <2>4 DEF ReaderOK
<1>16. IterateRight'
  <2>1. ASSUME NEW i \in DOMAIN seen
        PROVE  /\ seen[i].with \subseteq {seen[i].ir}
               /\ i > 1 => book[seen[i - 1].ir].off < book[seen[i].ir].off
    <3>1. CASE i \in DOMAIN reader.seen
      <4>1. /\ reader.seen[i].with \subseteq {reader.seen[i].ir}
            /\ i > 1 => book[reader.seen[i - 1].ir].off < book[reader.seen[i].ir].off
        BY <1>0, <3>1 DEF IterateRight
      <4>2. i > 1 => i - 1 \in DOMAIN reader.seen
        BY <1>9, <3>1
      <4> QED BY <1>9, <3>1, <4>1, <4>2
    <3>2. CASE i = Len(seen)
      <4>1. seen[i] = rec
        BY <1>9, <3>2
      <4>2. i > 1 => i - 1 \in DOMAIN reader.seen
        BY <1>9, <3>2
      <4>3. \A j \in DOMAIN reader.seen :
              book[reader.seen[j].ir].off < book[e.put].off
        BY <1>0, <1>3 DEF ReaderOK
      <4> QED BY <1>7, <1>8, <1>9, <4>1, <4>2, <4>3
    <3> QED BY <1>9, <2>1, <3>1, <3>2
  <2>0. PICK t \in Sids : t = reader.sid /\ t = reader'.sid
    BY <1>0, <1>6, <1>10
  <2>2. ASSUME NEW m \in Seen', NEW n \in AckedIn(t)', book[n].off < book[m].off
        PROVE  n \in Seen'
    <3>1. AckedIn(t)' = AckedIn(t) /\ {f.put : f \in IndexOf} = AckedIn(t)
      <4>1. {f.put : f \in IndexOf} = AckedIn(t)
        BY <1>0, <2>0, StackFacts DEF IndexOf
      <4> QED BY <1>0, <4>1 DEF AckedIn
    <3>2. PICK f \in IndexOf : f.put = n
      BY <2>2, <3>1
    <3>3. PICK i \in DOMAIN seen : m = seen[i].ir
      BY <1>6, <1>10, <2>2 DEF Seen
    <3>4. f \in left => book[m].off < book[f.put].off
      BY <1>14, <3>3
    <3>5. book[m].off \in Nat /\ book[n].off \in Nat
      <4>1. book \in [Puts -> Booked]
        BY DEF StoreIInv, IInv, TypeOK
      <4>2. seen[i].ir \in Puts
        <5>1. ASSUME NEW R, NEW q \in Seq(R), NEW j \in DOMAIN q PROVE q[j] \in R
          BY <5>1
        <5>2. seen \in Seq([ir : Puts, with : SUBSET (0 .. MaxPuts)])
          BY <1>9
        <5>3. seen[i] \in [ir : Puts, with : SUBSET (0 .. MaxPuts)]
          BY <3>3, <5>1, <5>2
        <5> QED BY <5>3
      <4>3. n \in Puts
        BY <1>0, <3>2, StackFacts DEF IndexOf
      <4> QED BY <3>3, <4>1, <4>2, <4>3 DEF Booked
    <3>6. f \notin left
      BY <2>2, <3>2, <3>4, <3>5
    <3> QED BY <1>12, <3>2, <3>6
  <2>3. reader'.pc = "next" /\ reader'.sid = t /\ reader'.seen = seen /\ book' = book
    BY <1>0, <1>6, <1>10, <2>0
  <2>4. \A i \in DOMAIN reader'.seen :
          /\ reader'.seen[i].with \subseteq {reader'.seen[i].ir}
          /\ i > 1 => book'[reader'.seen[i - 1].ir].off < book'[reader'.seen[i].ir].off
    BY <2>1, <2>3
  <2>5. \A m \in Seen', n \in AckedIn(reader.sid)' :
          book'[n].off < book'[m].off => n \in Seen'
    BY <2>0, <2>2, <2>3
  <2> QED BY <2>3, <2>4, <2>5 DEF IterateRight
<1>17. FetchRight'
  BY <1>0, <1>6, <1>10 DEF FetchRight
<1> QED BY <1>6, <1>10, <1>15, <1>16, <1>17 DEF ReaderIInv

(* next returns None only when no record is left, and never meets bytes    *)
(* that are no record (bs_opendal_reader.rs:33-57, 70-113).                *)
LEMMA IterateEndsStep ==
  ASSUME StoreIInv, ReaderIInv, IterateEnds
  PROVE  ReaderIInv'
<1> DEFINE r == [reader EXCEPT !.pc = "end"]
<1>1. /\ reader.pc = "next" /\ reader.sid \in Sids
      /\ object[reader.sid]["idx"].there
      /\ reader \in Reader /\ ReaderOK /\ IterateRight /\ FetchRight
      /\ UNCHANGED <<object, book, acked>>
  BY DEF IterateEnds, ReaderIInv, ReaderOK, wvars
<1>2. reader.irs = {}
  <2> SUFFICES ASSUME reader.irs # {} PROVE FALSE
    OBVIOUS
  <2>1. PICK e \in reader.irs : Here(e) /\ e \in IndexOf
    BY <1>1 DEF ReaderOK
  <2>2. ~Bad("meta") /\ ~Bad("data")
    BY <1>1, <2>1, AtEntry
  <2> QED BY <2>2 DEF IterateEnds
<1>3. reader' = r
  BY <1>2 DEF IterateEnds
<1>4. /\ r \in Reader /\ r.pc = "end" /\ r.sid = reader.sid
      /\ r.seen = reader.seen /\ r.listed = reader.listed
      /\ r.wanted = reader.wanted /\ r.fetched = reader.fetched
  BY <1>1 DEF Reader
<1> HIDE DEF r
<1>5. IndexOf' = IndexOf /\ Seen' = Seen
  BY <1>1, <1>3, <1>4 DEF IndexOf, Seen
<1>6. Seen = {e.put : e \in IndexOf}
  BY <1>1, <1>2 DEF ReaderOK
<1>7. ReaderOK'
  <2>1. \A t \in reader'.listed : object'[t]["idx"].there
    BY <1>1, <1>3, <1>4 DEF ReaderOK
  <2>2. reader'.wanted \in {{}, {"meta"}, {"meta", "data"}}
    BY <1>1, <1>3, <1>4 DEF ReaderOK
  <2> QED BY <1>1, <1>3, <1>4, <1>5, <1>6, <2>1, <2>2 DEF ReaderOK
<1>8. IterateRight'
  <2>1. {e.put : e \in IndexOf} = AckedIn(reader.sid)
    BY <1>1, StackFacts DEF IndexOf
  <2>2. Seen' = AckedIn(reader.sid)
    BY <1>5, <1>6, <2>1
  <2>3. AckedIn(reader.sid)' = AckedIn(reader.sid)
    BY <1>1, <1>3, <1>4 DEF AckedIn
  <2>4. \A i \in DOMAIN reader'.seen :
          /\ reader'.seen[i].with \subseteq {reader'.seen[i].ir}
          /\ i > 1 => book'[reader'.seen[i - 1].ir].off < book'[reader'.seen[i].ir].off
    BY <1>1, <1>3, <1>4 DEF IterateRight
  <2>5. reader'.pc = "end" /\ reader'.sid = reader.sid
    BY <1>3, <1>4
  <2> QED BY <2>2, <2>3, <2>4, <2>5 DEF IterateRight
<1>9. FetchRight'
  BY <1>1, <1>3, <1>4 DEF FetchRight
<1> QED BY <1>3, <1>4, <1>7, <1>8, <1>9 DEF ReaderIInv

(* next answers None to a failed request: what was returned before it is a *)
(* beginning of the stack (bs_opendal_reader.rs:40-47, 76-102).            *)
LEMMA NextFailsStep ==
  ASSUME StoreIInv, ReaderIInv, NextFails
  PROVE  ReaderIInv'
<1> DEFINE cutOff(ir) == [reader EXCEPT !.irs = reader.irs \ {ir},
                                        !.pc = "end", !.cut = TRUE]
<1>1. /\ reader.pc = "next" /\ reader.sid \in Sids
      /\ object[reader.sid]["idx"].there
      /\ reader \in Reader /\ ReaderOK /\ IterateRight /\ FetchRight
      /\ UNCHANGED <<object, book, acked>>
  BY DEF NextFails, ReaderIInv, ReaderOK
<1>2. PICK ir \in reader.irs : reader' = cutOff(ir)
  BY DEF NextFails
<1> DEFINE r == cutOff(ir)
<1>3. /\ r \in Reader /\ r.pc = "end" /\ r.sid = reader.sid /\ r.cut
      /\ r.seen = reader.seen /\ r.listed = reader.listed
      /\ r.wanted = reader.wanted /\ r.fetched = reader.fetched
  BY <1>1 DEF Reader
<1>4. reader' = r
  BY <1>2
<1> HIDE DEF r
<1>5. IndexOf' = IndexOf /\ Seen' = Seen /\ AckedIn(reader.sid)' = AckedIn(reader.sid)
  BY <1>1, <1>3, <1>4 DEF IndexOf, Seen, AckedIn
<1>6. Seen \subseteq {e.put : e \in IndexOf}
  BY <1>1 DEF ReaderOK
<1>7. ReaderOK'
  <2>1. \A t \in reader'.listed : object'[t]["idx"].there
    BY <1>1, <1>3, <1>4 DEF ReaderOK
  <2>2. reader'.wanted \in {{}, {"meta"}, {"meta", "data"}}
    BY <1>1, <1>3, <1>4 DEF ReaderOK
  <2> QED BY <1>1, <1>3, <1>4, <1>5, <1>6, <2>1, <2>2 DEF ReaderOK
<1>8. IterateRight'
  <2>1. \A i \in DOMAIN reader'.seen :
          /\ reader'.seen[i].with \subseteq {reader'.seen[i].ir}
          /\ i > 1 => book'[reader'.seen[i - 1].ir].off < book'[reader'.seen[i].ir].off
    BY <1>1, <1>3, <1>4 DEF IterateRight
  <2>2. \A m \in Seen', n \in AckedIn(reader.sid)' :
          book'[n].off < book'[m].off => n \in Seen'
    BY <1>1, <1>5 DEF IterateRight
  <2>3. reader'.pc = "end" /\ reader'.cut /\ reader'.sid = reader.sid
    BY <1>3, <1>4
  <2> QED BY <2>1, <2>2, <2>3 DEF IterateRight
<1>9. FetchRight'
  BY <1>1, <1>3, <1>4 DEF FetchRight
<1> QED BY <1>3, <1>4, <1>7, <1>8, <1>9 DEF ReaderIInv

(* Whatever the writers do meanwhile, the stack a reader works on stays,   *)
(* with all that it has returned (bs_opendal_writer.rs:37-215).            *)
LEMMA WritersMeanwhile ==
  ASSUME StoreIInv, IInv', ReaderIInv, [WriterNext]_wvars, UNCHANGED reader
  PROVE  ReaderIInv'
<1> DEFINE s == reader.sid
<1>1. /\ IInv /\ ReaderOK /\ IterateRight /\ FetchRight /\ reader \in Reader
  BY DEF StoreIInv, ReaderIInv
<1>2. \A t \in reader.listed : object'[t]["idx"].there
  <2>1. \A t \in reader.listed : t \in Sids /\ object[t]["idx"].there
    BY <1>1 DEF ReaderOK, Reader
  <2> QED BY <1>1, <2>1, Frozen
<1>3. ASSUME reader.pc # "idle"
      PROVE  /\ s \in Sids /\ object[s]["idx"].there /\ object'[s] = object[s]
             /\ IndexOf' = IndexOf
             /\ AckedIn(s)' = AckedIn(s)
             /\ \A e \in IndexOf : book'[e.put] = book[e.put]
  <2>1. s \in Sids /\ object[s]["idx"].there
    BY <1>1, <1>3 DEF ReaderOK
  <2> QED BY <1>1, <2>1, Frozen DEF IndexOf
<1>4. \A i \in DOMAIN reader.seen :
        book'[reader.seen[i].ir] = book[reader.seen[i].ir]
  <2> SUFFICES ASSUME NEW i \in DOMAIN reader.seen
               PROVE  book'[reader.seen[i].ir] = book[reader.seen[i].ir]
    OBVIOUS
  <2>1. reader.pc \in {"next", "end"}
    BY <1>1 DEF ReaderOK, IterateRight, Reader
  <2>2. \E e \in IndexOf : e.put = reader.seen[i].ir
    <3>1. reader.seen[i].ir \in Seen
      BY DEF Seen
    <3>2. Seen \subseteq {e.put : e \in IndexOf}
      BY <1>1, <2>1 DEF ReaderOK
    <3> QED BY <3>1, <3>2
  <2> QED BY <1>3, <2>1, <2>2
<1>5. Seen' = Seen
  BY DEF Seen
<1>6. ReaderOK'
  <2>1. CASE reader.pc = "idle"
    BY <1>1, <1>2, <2>1 DEF ReaderOK
  <2>2. CASE reader.pc # "idle" /\ reader.pc # "next"
    BY <1>1, <1>2, <1>3, <1>5, <2>2 DEF ReaderOK
  <2>3. CASE reader.pc = "next"
    <3>1. ASSUME reader.irs # {}
          PROVE  \E e \in reader.irs :
                   Here(e)' /\ reader.irs = {f \in IndexOf' : e.at <= f.at}
      <4>1. PICK e \in reader.irs :
              Here(e) /\ reader.irs = {f \in IndexOf : e.at <= f.at}
        BY <1>1, <2>3, <3>1 DEF ReaderOK
      <4>2. e \in IndexOf
        BY <4>1
      <4>3. Here(e)'
        BY <1>3, <2>3, <4>1, <4>2 DEF Here
      <4> QED BY <1>3, <2>3, <4>1, <4>3
    <3>2. reader.irs \subseteq IndexOf /\ Seen = {e.put : e \in IndexOf \ reader.irs}
      BY <1>1, <2>3 DEF ReaderOK
    <3>3. \A i \in DOMAIN reader.seen : \A e \in reader.irs :
            book'[reader.seen[i].ir].off < book'[e.put].off
      BY <1>1, <1>3, <1>4, <2>3, <3>2 DEF ReaderOK
    <3>4. reader.wanted \in {{}, {"meta"}, {"meta", "data"}}
      BY <1>1 DEF ReaderOK
    <3> QED BY <1>2, <1>3, <1>5, <2>3, <3>1, <3>2, <3>3, <3>4 DEF ReaderOK
  <2> QED BY <2>1, <2>2, <2>3
<1>7. IterateRight'
  <2>1. ASSUME NEW i \in DOMAIN reader.seen, i > 1
        PROVE  book'[reader.seen[i - 1].ir].off < book'[reader.seen[i].ir].off
    <3>1. i - 1 \in DOMAIN reader.seen
      BY <1>1, <2>1 DEF Reader
    <3> QED BY <1>1, <1>4, <2>1, <3>1 DEF IterateRight
  <2>2. reader.pc = "end" /\ ~reader.cut => Seen' = AckedIn(s)'
    BY <1>1, <1>3, <1>5 DEF IterateRight
  <2>3. ASSUME NEW m \in Seen, NEW n \in AckedIn(s)', book'[n].off < book'[m].off
        PROVE  n \in Seen
    <3>1. reader.pc # "idle"
      BY <1>1, <2>3 DEF ReaderOK, Seen
    <3>2. n \in AckedIn(s) /\ {e.put : e \in IndexOf} = AckedIn(s)
      BY <1>3, <2>3, <3>1, StackFacts DEF IndexOf
    <3>3. book'[n] = book[n]
      BY <1>3, <3>1, <3>2
    <3>4. book'[m] = book[m]
      BY <1>4, <2>3 DEF Seen
    <3> QED BY <1>1, <2>3, <3>2, <3>3, <3>4 DEF IterateRight
  <2>4. \A i \in DOMAIN reader.seen : reader.seen[i].with \subseteq {reader.seen[i].ir}
    BY <1>1 DEF IterateRight
  <2>5. reader.pc # "panic" /\ UNCHANGED reader
    BY <1>1 DEF IterateRight
  <2> QED BY <1>5, <2>1, <2>2, <2>3, <2>4, <2>5 DEF IterateRight
<1>8. FetchRight'
  BY <1>1 DEF FetchRight
<1> QED BY <1>1, <1>6, <1>7, <1>8 DEF ReaderIInv

(* A request of the reader, failed or not, changes nothing of the writers  *)
(* (bs_opendal_reader.rs:130-499).                                         *)
LEMMA ReaderChangesNothing ==
  ASSUME StoreIInv, ReaderNext
  PROVE  StoreIInv'
<1>1. /\ UNCHANGED <<object, writer, book, puts, acked, abandoned, nextId>>
      /\ faults' \in 0 .. MaxFaults
  <2>1. faults \in 0 .. MaxFaults /\ (Fault => faults' \in 0 .. MaxFaults)
    BY BoundsAssumption DEF StoreIInv, IInv, TypeOK, Fault
  <2> QED BY <2>1 DEF ReaderNext, List, Iterate, ReadHeader, ReadRecords, OpenReader,
             IterateNext, IterateEnds, IterateFails, NextFails, Fetch, FetchFails, wvars
<1> USE <1>1 DEF StoreIInv, IInv
<1>2. \A s : AckedIn(s)' = AckedIn(s)
  BY DEF AckedIn
<1>3. TypeOK' /\ Apart' /\ AckedIdsUnique' /\ Accounted'
  BY DEF TypeOK, Apart, AckedIdsUnique, Accounted, Holds, IsPublished
<1>4. \A w \in Writers : CallOK(w)' /\ InnerOK(w)'
  BY <1>2 DEF CallOK, InnerOK, Holds
<1>5. FreshOK'
  BY <1>2 DEF FreshOK, Untouched, At
<1>6. PublishedWhole'
  <2>1. \A s, k : Expected(s, k)' = Expected(s, k)
    BY <1>2 DEF Expected
  <2> QED BY <1>2, <2>1 DEF PublishedWhole
<1>7. LaidOut' /\ DataObjects'
  BY <1>2 DEF LaidOut, DataObjects
<1> QED BY <1>3, <1>4, <1>5, <1>6, <1>7

(* Every step of the writers and of the reader keeps the invariant.        *)
THEOREM NextReadIInv == ReadIInv /\ [Next]_vars => ReadIInv'
<1> SUFFICES ASSUME ReadIInv, [Next]_vars PROVE ReadIInv'
  OBVIOUS
<1>1. StoreIInv /\ ReaderIInv /\ IInv /\ LaidOut /\ DataObjects
  BY DEF ReadIInv, StoreIInv
<1>2. CASE [WriterNext]_wvars /\ UNCHANGED reader
  <2>1. IInv'
    BY <1>1, <1>2, NextIInv
  <2>2. LaidOut' /\ DataObjects'
    BY <1>1, <1>2, <2>1, LaidOutStep, DataObjectsStep
  <2>3. ReaderIInv'
    BY <1>1, <1>2, <2>1, WritersMeanwhile
  <2> QED BY <2>1, <2>2, <2>3 DEF ReadIInv, StoreIInv
<1>3. CASE ReaderNext
  <2>1. StoreIInv'
    BY <1>1, <1>3, ReaderChangesNothing
  <2>2. ReaderIInv'
    BY <1>1, <1>3, ListStep, IterateStep, ReadHeaderStep, ReadRecordsStep,
       OpenReaderStep, IterateNextStep, IterateEndsStep, NextFailsStep,
       FetchStep, GivenUp
       DEF ReaderNext, IterateFails, FetchFails
  <2> QED BY <2>1, <2>2 DEF ReadIInv
<1> QED BY <1>2, <1>3 DEF Next, vars, wvars

(* At first there is nothing to read (bs_opendal_reader.rs:132-142).       *)
THEOREM InitReadIInv == InitBoth => ReadIInv
<1> SUFFICES ASSUME InitBoth PROVE ReadIInv
  OBVIOUS
<1>1. IInv
  BY InitIInv DEF InitBoth
<1>2. LaidOut /\ DataObjects
  <2>1. \A s \in Sids, k \in Kinds : object[s][k].recs = {} /\ ~object[s][k].there
    BY DEF InitBoth, Init, NoObject
  <2>2. \A w \in Writers : ~writer[w].inner
    BY DEF InitBoth, Init, New
  <2>3. acked = {}
    BY DEF InitBoth, Init
  <2> QED BY <2>1, <2>2, <2>3 DEF LaidOut, DataObjects, Kinds
<1>3. ReaderOK /\ IterateRight /\ FetchRight /\ reader \in Reader
  BY IdleReaderFacts DEF InitBoth, ReaderOK, IterateRight, FetchRight, Seen
<1> QED BY <1>1, <1>2, <1>3 DEF ReadIInv, StoreIInv, ReaderIInv

(* The inductive invariant of writers and reader holds in every reachable  *)
(* state.                                                                  *)
THEOREM SpecReadIInv == Spec => []ReadIInv
BY InitReadIInv, NextReadIInv, PTL DEF Spec

(* Writers' and reader's state keep their types                            *)
(* (bs_opendal_reader.rs:60-64).                                           *)
THEOREM SpecReaderTypeOK == Spec => []ReaderTypeOK
<1>1. ReadIInv => ReaderTypeOK
  BY DEF ReadIInv, StoreIInv, IInv, ReaderIInv, ReaderTypeOK
<1> QED BY <1>1, SpecReadIInv, PTL

(* An iterator returns a stack from its beginning, in the order of its     *)
(* offsets and without a gap, each index record with its own meta line and *)
(* payload; when it ends without a failed request it has returned all of   *)
(* the stack (bs_opendal_reader.rs:32-57, 67-117, 210-434).                *)
THEOREM SpecIterateRight == Spec => []IterateRight
<1>1. ReadIInv => IterateRight
  BY DEF ReadIInv, ReaderIInv
<1> QED BY <1>1, SpecReadIInv, PTL

(* A fetch returns the payload of the put whose id it was given, and       *)
(* always when the stack of that put is published, even if cookies collide *)
(* (bs_opendal_reader.rs:435-499).                                         *)
THEOREM SpecFetchRight == Spec => []FetchRight
<1>1. ReadIInv => FetchRight
  BY DEF ReadIInv, ReaderIInv
<1> QED BY <1>1, SpecReadIInv, PTL

(* With readers beside them the writers keep all they promise: their       *)
(* safety properties (bs_opendal_writer.rs:37-275).                        *)
THEOREM SpecWritersRight ==
  Spec => [](PublishedWhole /\ AckedIdsUnique /\ ClosedPublished)
<1>1. ReadIInv => PublishedWhole /\ AckedIdsUnique /\ ClosedPublished
  BY InvClosedPublished DEF ReadIInv, StoreIInv, IInv
<1> QED BY <1>1, SpecReadIInv, PTL

(* A request of the reader is no step of StackStore                        *)
(* (bs_opendal_reader.rs:130-499).                                         *)
LEMMA ReaderStutters ==
  ASSUME ReaderNext
  PROVE  /\ UNCHANGED Store!vars
         /\ AbandonedOK => AbandonedOK'
<1>1. UNCHANGED <<object, writer, book, acked, abandoned, nextId>>
  BY DEF ReaderNext, List, Iterate, ReadHeader, ReadRecords, OpenReader,
     IterateNext, IterateEnds, IterateFails, NextFails, Fetch, FetchFails, wvars
<1>2. \A s : AckedIn(s)' = AckedIn(s) /\ Readable(s)' = Readable(s)
  BY <1>1 DEF AckedIn, Readable
<1> QED BY <1>1, <1>2
        DEF Store!vars, StackPhase, StackContents, AbandonedOK, Holds

(* And with readers beside them they implement StackStore: no reader       *)
(* begins, changes or loses a stack (bs_opendal_writer.rs:37-275,          *)
(* bs_opendal_reader.rs:130-499).                                          *)
THEOREM SpecBothImplementStore == Spec => ImplementsStore
<1>1. InitBoth => AbandonedOK /\ Store!Init
  BY InitStore DEF InitBoth
<1>2. ASSUME ReadIInv, ReadIInv', AbandonedOK, [Next]_vars
      PROVE  AbandonedOK' /\ [Store!Next]_Store!vars
  <2>1. IInv /\ IInv'
    BY <1>2 DEF ReadIInv, StoreIInv
  <2>2. CASE [WriterNext]_wvars
    BY <1>2, <2>1, <2>2, NextAbandonedOK, StepStore
  <2>3. CASE ReaderNext
    BY <1>2, <2>3, ReaderStutters
  <2> QED BY <1>2, <2>2, <2>3 DEF Next, vars, wvars
<1> QED BY <1>1, <1>2, SpecReadIInv, PTL DEF Spec, ImplementsStore, Store!Spec

(* And nothing that was published is replaced                              *)
(* (bs_opendal_writer.rs:217, bs_opendal_reader.rs:130-499).               *)
THEOREM SpecBothPublishedStays == Spec => PublishedStays
<1>1. ASSUME ReadIInv, [Next]_vars
      PROVE  [\A s \in Sids, k \in Kinds :
                object[s][k].there => object'[s][k] = object[s][k]]_wvars
  <2>1. CASE [WriterNext]_wvars
    BY <1>1, <2>1, ThereStays DEF ReadIInv, StoreIInv
  <2>2. CASE ReaderNext
    BY <2>2 DEF ReaderNext, List, Iterate, ReadHeader, ReadRecords, OpenReader,
       IterateNext, IterateEnds, IterateFails, NextFails, Fetch, FetchFails, wvars
  <2> QED BY <1>1, <2>1, <2>2 DEF Next, vars, wvars
<1> QED BY <1>1, SpecReadIInv, PTL DEF Spec, PublishedStays
=============================================================================
