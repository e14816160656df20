--------------------------- MODULE S3WriterProofs ---------------------------
(***************************************************************************)
(* The safety properties of S3Writer, for any writers, payloads, stacks    *)
(* and failures.                                                           *)
(***************************************************************************)
EXTENDS S3Writer, TLAPS

(* A writer r in a call, when `begun` puts have begun. *)
CallOK(r, begun) ==
  /\ r.sid \in Sids \cup {0}
  /\ r.pc # "upload" => r.kind = "data"
  /\ r.pc \in {"new", "dead"} => r.sid = 0 /\ r.call = "none"
  /\ r.pc = "new" \/ r.call = "open" => ~r.closed
  /\ r.pc = "idle" => r.sid # 0 /\ r.call = "none"
  /\ r.pc = "upload" => r.sid # 0 /\ r.call \in {"put", "close"}
  /\ r.pc = "resolve" => /\ r.call \in {"open", "put"}
                         /\ r.call = "open" <=> r.sid = 0
  /\ r.call = "put" => /\ r.put \in 1 .. begun /\ r.size \in Nat
                       /\ ~r.closed
  /\ r.call = "close" => r.closed

(* Puts in progress have numbers of their own. *)
NumbersOK ==
  /\ \A v, w \in Writers :
       v # w /\ writer[v].call = "put" /\ writer[w].call = "put"
       => writer[v].put # writer[w].put
  /\ \A w \in Writers : writer[w].call = "put" => writer[w].put \notin acked

(* Stacks belong to one writer, and those not given out yet to nobody. *)
StacksOK ==
  /\ nextId # 0
  /\ \A w \in Writers : writer[w].sid < nextId
  /\ \A v, w \in Writers : v # w /\ writer[v].sid # 0 => writer[v].sid # writer[w].sid
  /\ \A p \in spoiled : p[1] < nextId
  /\ \A s \in Sids : s >= nextId => \A k \in Kinds : object[s][k] = NoObject

(* What is acknowledged was put by the writer of its stack, below the      *)
(* offset that writer has reached.                                         *)
BookOK ==
  \A n \in acked :
    /\ book[n].sid \in Sids /\ book[n].sid < nextId /\ book[n].by \in Writers
    /\ \A w \in Writers : writer[w].sid = book[n].sid =>
         w = book[n].by /\ book[n].off < writer[w].off

(* The acknowledged puts of stack s. *)
Of(s) == {n \in acked : book[n].sid = s}

(* The buffers of r hold the puts in ns, at the offsets in `fields`, and   *)
(* nothing else.                                                           *)
Filled(r, ns, fields) ==
  /\ \A k \in Kinds : r.buf[k].head = r.sid
  /\ r.buf["data"].recs = {[at |-> fields[n].off, put |-> n] : n \in ns}
  /\ r.buf["meta"].recs = {[at |-> fields[n].moff, put |-> n] : n \in ns}
  /\ {e.put : e \in r.buf["idx"].recs} = ns
  /\ r.buf["data"].len = r.off /\ r.buf["meta"].len = r.moff

(* What the three objects of the stack of r hold is in its buffers; the    *)
(* upload in progress has got as far as kind.                              *)
Covered(r, objects) ==
  /\ \A k \in Kinds : objects[k].recs \subseteq r.buf[k].recs
  /\ r.kind \in {"meta", "idx"} => objects["data"] = r.buf["data"]
  /\ r.kind = "idx" => objects["meta"] = r.buf["meta"]

(* A writer whose stack is not spoiled has everything in its buffers, or   *)
(* has uploaded everything and cleared them.                               *)
BufferOK(w) ==
  LET r == writer[w]
  IN  r.sid # 0 /\ ~Spoiled(r.sid, "rotation") =>
        \/ /\ r.pc \in {"idle", "upload"}
           /\ Filled(r, Of(r.sid), book)
           /\ Covered(r, object[r.sid])
           /\ r.closed /\ r.pc = "idle" => Spoiled(r.sid, "close")
        \/ /\ r.pc = "resolve" \/ (r.pc = "idle" /\ r.closed)
           /\ \A n \in acked : book[n].sid = r.sid => Published(n)

(* What a writer has rotated away is published. *)
RotatedOK ==
  \A n \in acked :
    LET w == book[n].by
    IN  ~At(w, "dead") /\ writer[w].sid # book[n].sid /\ ~Spoiled(book[n].sid, "rotation")
          => Published(n)

IInv ==
  /\ TypeOK /\ \A w \in Writers : CallOK(writer[w], puts)
  /\ NumbersOK /\ StacksOK /\ BookOK /\ (\A w \in Writers : BufferOK(w)) /\ RotatedOK
  /\ IndexAfterData /\ ClosedPublished /\ AckedIdsUnique

-----------------------------------------------------------------------------
(* What the steps make of a writer. *)

(* Headers and records have sizes.                                         *)
LEMMA SizesTyped ==
  /\ \A k \in Kinds : HeadSize(k) \in Nat
  /\ \A k \in Kinds, n \in Nat : EntrySize(k, n) \in Nat
  /\ \A n \in Nat : RecordSize(n) \in Nat /\ RecordSize(n) > 0
<1>1. ASSUME NEW n \in Nat PROVE RecordSize(n) \in Nat /\ RecordSize(n) > 0
  <2>1. n + HeaderSize \in Nat
    BY HeaderAssumption
  <2>2. (n + HeaderSize) % Alignment \in 0 .. Alignment - 1
    BY <2>1, AlignmentAssumption
  <2> QED BY <2>1, <2>2, HeaderAssumption, AlignmentAssumption
         DEF RecordSize, PaddedDataSize
<1>2. \A k \in Kinds : HeadSize(k) \in Nat
  BY AlignmentAssumption, LineAssumption, IdxAssumption DEF HeadSize, Kinds
<1>3. \A k \in Kinds, n \in Nat : EntrySize(k, n) \in Nat
  BY <1>1, LineAssumption, IdxAssumption DEF EntrySize, Kinds
<1> QED BY <1>1, <1>2, <1>3

(* The end of a call leaves the stack and its buffers alone.               *)
LEMMA ReturnedFields ==
  ASSUME NEW r \in Writer
  PROVE  /\ Returned(r) \in Writer
         /\ Returned(r).pc = "idle" /\ Returned(r).call = "none"
         /\ Returned(r).kind = "data" /\ Returned(r).closed = r.closed
         /\ Returned(r).buf = r.buf /\ Returned(r).sid = r.sid
         /\ Returned(r).off = r.off /\ Returned(r).moff = r.moff
BY DEF Returned, Writer, Kinds

(* r with the fields that NextStack and Recorded set.                      *)
Updated(r, s, o, m, x, b) ==
  [r EXCEPT !.sid = s, !.off = o, !.moff = m, !.raw = x, !.buf = b]

(* open_stack resets the offsets and the buffers (writer_s3.rs:107-134).   *)
LEMMA NextStackFields ==
  ASSUME NEW r \in Writer, NEW s \in Nat
  PROVE  /\ NextStack(r, s) \in Writer
         /\ NextStack(r, s).sid = s /\ NextStack(r, s).closed = r.closed
         /\ NextStack(r, s).off = HeadSize("data")
         /\ NextStack(r, s).moff = HeadSize("meta")
         /\ NextStack(r, s).buf = [k \in Kinds |-> Headed(k, s)]
<1> DEFINE blobs == [k \in Kinds |-> Headed(k, s)]
           headed == HeadSize("data")
           metaHeaded == HeadSize("meta")
           q == NextStack(r, s)
<1>1. blobs \in [Kinds -> Blob]
  BY SizesTyped DEF Headed, Blob
<1>2. headed \in Nat /\ metaHeaded \in Nat
  BY SizesTyped DEF Kinds
<1>3. q = Updated(r, s, headed, metaHeaded, 0, blobs)
  BY DEF NextStack, Updated, Writer
<1> HIDE DEF blobs, headed, metaHeaded, q
<1>4. /\ q \in Writer
      /\ q.sid = s /\ q.closed = r.closed
      /\ q.off = headed /\ q.moff = metaHeaded /\ q.buf = blobs
  <2>1. PICK o \in Nat, m \in Nat, b \in [Kinds -> Blob] :
          o = headed /\ m = metaHeaded /\ b = blobs
    BY <1>1, <1>2
  <2>2. q = Updated(r, s, o, m, 0, b)
    BY <1>3, <2>1
  <2>3. /\ q \in Writer /\ q.sid = s /\ q.closed = r.closed
        /\ q.off = o /\ q.moff = m /\ q.buf = b
    BY <2>2 DEF Updated, Writer
  <2> QED BY <2>1, <2>3
<1> QED BY <1>4 DEF blobs, headed, metaHeaded, q

(* A put extends the three buffers and moves the offsets on.               *)
LEMMA RecordedFields ==
  ASSUME NEW r \in Writer, NEW n \in Puts, NEW size \in Nat
  PROVE  /\ Recorded(r, n, size) \in Writer
         /\ Recorded(r, n, size).sid = r.sid /\ Recorded(r, n, size).closed = r.closed
         /\ Recorded(r, n, size).off = r.off + RecordSize(size)
         /\ Recorded(r, n, size).moff = r.moff + MetaLine
         /\ Recorded(r, n, size).buf =
              [k \in Kinds |-> Appended(r.buf[k], n, EntrySize(k, size))]
<1> DEFINE blobs == [k \in Kinds |-> Appended(r.buf[k], n, EntrySize(k, size))]
<1>1. blobs \in [Kinds -> Blob]
  <2>1. ASSUME NEW b \in Blob, NEW m \in Nat PROVE Appended(b, n, m) \in Blob
    <3>1. b.recs \cup {[at |-> b.len, put |-> n]} \in SUBSET Entry /\ b.len + m \in Nat
      BY DEF Blob, Entry
    <3> QED BY <3>1 DEF Appended, Blob
  <2>2. \A k \in Kinds : r.buf[k] \in Blob
    BY DEF Writer
  <2> QED BY <2>1, <2>2, SizesTyped
<1> DEFINE headed == r.off + RecordSize(size)
           metaHeaded == r.moff + MetaLine
           bytes == r.raw + size
           q == Recorded(r, n, size)
<1>2. r.sid \in Nat /\ headed \in Nat /\ metaHeaded \in Nat /\ bytes \in Nat
  BY SizesTyped, LineAssumption, IdxAssumption DEF Writer
<1>3. q = Updated(r, r.sid, headed, metaHeaded, bytes, blobs)
  <2>1. q = [r EXCEPT !.buf = blobs, !.off = headed, !.moff = metaHeaded, !.raw = bytes]
    BY DEF Recorded
  <2> HIDE DEF blobs, headed, metaHeaded, bytes, q
  <2> QED BY <2>1 DEF Writer, Updated
<1> HIDE DEF blobs, headed, metaHeaded, bytes, q
<1>4. /\ q \in Writer
      /\ q.sid = r.sid /\ q.closed = r.closed
      /\ q.off = headed /\ q.moff = metaHeaded /\ q.buf = blobs
  <2>1. PICK o \in Nat, m \in Nat, x \in Nat, b \in [Kinds -> Blob] :
          o = headed /\ m = metaHeaded /\ x = bytes /\ b = blobs
    BY <1>1, <1>2
  <2>2. q = Updated(r, r.sid, o, m, x, b)
    BY <1>3, <2>1
  <2>3. /\ q \in Writer /\ q.sid = r.sid /\ q.closed = r.closed
        /\ q.off = o /\ q.moff = m /\ q.buf = b
    BY <2>2 DEF Updated, Writer
  <2> QED BY <2>1, <2>3
<1> QED BY <1>4 DEF blobs, headed, metaHeaded, q

(* Recording a put in buffers that hold the puts ns makes them hold ns and *)
(* it, at the offsets the put computed (writer_s3.rs:246-287).             *)
LEMMA FilledGrows ==
  ASSUME NEW r \in Writer, NEW n \in Puts, NEW size \in Nat,
         NEW ns, NEW fields, NEW fields2, Filled(r, ns, fields), n \notin ns,
         \A m \in ns : fields2[m] = fields[m],
         fields2[n].off = r.off, fields2[n].moff = r.moff
  PROVE  Filled(Returned(Recorded(r, n, size)), ns \cup {n}, fields2)
<1> DEFINE q == Returned(Recorded(r, n, size))
<1>1. /\ q.buf = [k \in Kinds |-> Appended(r.buf[k], n, EntrySize(k, size))]
      /\ q.sid = r.sid /\ q.off = r.off + RecordSize(size)
      /\ q.moff = r.moff + MetaLine
  BY ReturnedFields, RecordedFields
<1> HIDE DEF q
<1>2. ASSUME NEW k \in Kinds
      PROVE  /\ q.buf[k].head = r.buf[k].head
             /\ q.buf[k].len = r.buf[k].len + EntrySize(k, size)
             /\ q.buf[k].recs = r.buf[k].recs \cup {[at |-> r.buf[k].len, put |-> n]}
  <2>1. r.buf[k] \in Blob /\ q.buf[k] = Appended(r.buf[k], n, EntrySize(k, size))
    BY <1>1 DEF Writer
  <2> QED BY <2>1 DEF Appended, Blob
<1>3. "data" \in Kinds /\ "meta" \in Kinds /\ "idx" \in Kinds
  BY DEF Kinds
<1>4. \A k \in Kinds : q.buf[k].head = q.sid
  BY <1>1, <1>2 DEF Filled
<1>5. q.buf["data"].recs = {[at |-> fields2[m].off, put |-> m] : m \in ns \cup {n}}
  BY <1>2, <1>3 DEF Filled
<1>6. q.buf["meta"].recs = {[at |-> fields2[m].moff, put |-> m] : m \in ns \cup {n}}
  BY <1>2, <1>3 DEF Filled
<1>7. {e.put : e \in q.buf["idx"].recs} = ns \cup {n}
  <2>1. q.buf["idx"].recs = r.buf["idx"].recs \cup {[at |-> r.buf["idx"].len, put |-> n]}
    BY <1>2, <1>3
  <2>2. {e.put : e \in r.buf["idx"].recs} = ns
    BY DEF Filled
  <2>3. [at |-> r.buf["idx"].len, put |-> n].put = n
    OBVIOUS
  <2> QED BY <2>1, <2>2, <2>3
<1>8. q.buf["data"].len = q.off /\ q.buf["meta"].len = q.moff
  BY <1>1, <1>2, <1>3 DEF Filled, EntrySize
<1> QED BY <1>4, <1>5, <1>6, <1>7, <1>8 DEF Filled, q
-----------------------------------------------------------------------------
(* What a step of w may do to the writers, to the puts and to the bucket.  *)

WriterStep(w) ==
  LET r == writer[w]
      q == writer'[w]
  IN  /\ \A v \in Writers : v # w => writer'[v] = writer[v]
      /\ r.pc # "dead"
      /\ q.sid # 0 /\ q.sid = r.sid => q.off >= r.off
      /\ q.sid # r.sid =>
           \/ q.pc = "dead" /\ q.sid = 0
           \/ r.pc = "resolve" /\ q.sid = nextId /\ nextId' = nextId + 1
      /\ q.call = "put" => \/ r.call = "put" /\ q.put = r.put
                           \/ q.put = puts + 1 /\ puts' = puts + 1
      /\ puts' \in {puts, puts + 1} /\ nextId' \in {nextId, nextId + 1}

BookStep(w) ==
  LET r == writer[w]
      q == writer'[w]
  IN  /\ acked \subseteq acked'
      /\ \A n \in acked : book'[n] = book[n]
      /\ \A n \in acked' : n \notin acked =>
           /\ q.call = "none" /\ q.sid # 0
           /\ book'[n].sid = q.sid /\ book'[n].by = w /\ book'[n].off < q.off
           /\ q.sid = r.sid => r.off <= book'[n].off
           /\ \/ n = r.put /\ r.call = "put"
              \/ n = puts + 1 /\ puts' = puts + 1
           /\ \A m \in acked' : m \notin acked => m = n
      /\ \A n \in promised' : n \notin promised =>
           n \in acked /\ book[n].by = w /\ q.closed /\ q.pc = "idle"

Shipped(r) == [object EXCEPT ![r.sid][r.kind] = r.buf[r.kind]]

ObjectStep(w) ==
  LET r == writer[w]
  IN  /\ \/ object' = object
         \/ r.pc = "upload" /\ object' = Shipped(r)
      /\ spoiled \subseteq spoiled'
      /\ \A p \in spoiled' : p \notin spoiled => p[1] = r.sid /\ r.sid # 0

Typed ==
  /\ object \in [Sids -> [Kinds -> Blob]]
  /\ writer \in [Writers -> Writer]
  /\ book \in [Puts -> Booked]
  /\ puts \in 0 .. MaxPuts
  /\ promised \subseteq acked /\ acked \subseteq 1 .. puts
  /\ spoiled \subseteq (Sids \X {"rotation", "close"})
  /\ nextId \in Nat
  /\ faults \in 0 .. MaxFaults

Step(w) ==
  /\ Typed' /\ CallOK(writer'[w], puts')
  /\ WriterStep(w) /\ BookStep(w) /\ ObjectStep(w)

(* One put_object replaces one object.                                     *)
LEMMA ShippedFields ==
  ASSUME TypeOK, NEW r \in Writer, r.sid \in Sids
  PROVE  /\ Shipped(r) \in [Sids -> [Kinds -> Blob]]
         /\ \A s \in Sids : s # r.sid => Shipped(r)[s] = object[s]
         /\ \A k \in Kinds : Shipped(r)[r.sid][k] =
              IF k = r.kind THEN r.buf[k] ELSE object[r.sid][k]
<1>1. r.kind \in Kinds /\ r.buf[r.kind] \in Blob
  BY DEF Writer
<1>2. object \in [Sids -> [Kinds -> Blob]]
  BY DEF TypeOK
<1> QED BY <1>1, <1>2 DEF Shipped

(* A step of one writer leaves the others alone.                           *)
LEMMA BecomesFields ==
  ASSUME TypeOK, NEW w \in Writers, NEW q \in Writer, Becomes(w, q)
  PROVE  /\ writer' \in [Writers -> Writer] /\ writer'[w] = q
         /\ \A v \in Writers : v # w => writer'[v] = writer[v]
BY DEF TypeOK, Becomes
(* Opening asks for a stack and nothing else.                              *)
LEMMA OpenStep ==
  ASSUME IInv, NEW w \in Writers, Open(w) PROVE Step(w)
<1> DEFINE r == writer[w]
           q == [r EXCEPT !.pc = "resolve", !.call = "open"]
<1>1. r \in Writer /\ r.pc = "new" /\ CallOK(r, puts)
  BY DEF IInv, TypeOK, Open, At
<1>2. /\ q \in Writer /\ q.pc = "resolve" /\ q.call = "open"
      /\ q.sid = r.sid /\ q.closed = r.closed /\ q.kind = r.kind
  BY <1>1 DEF Writer
<1>3. Becomes(w, q) /\ UNCHANGED <<object, book, puts, acked, promised, spoiled, nextId, faults>>
  BY DEF Open
<1> HIDE DEF q
<1>4. /\ writer' \in [Writers -> Writer] /\ writer'[w] = q
      /\ \A v \in Writers : v # w => writer'[v] = writer[v]
  BY <1>2, <1>3, BecomesFields DEF IInv
<1>5. CallOK(q, puts')
  BY <1>1, <1>2, <1>3 DEF CallOK
<1>6. Typed'
  BY <1>3, <1>4 DEF IInv, TypeOK, Typed
<1>7. WriterStep(w)
  BY <1>1, <1>2, <1>3, <1>4 DEF WriterStep, CallOK
<1>8. BookStep(w) /\ ObjectStep(w)
  BY <1>3 DEF BookStep, ObjectStep
<1> QED BY <1>4, <1>5, <1>6, <1>7, <1>8 DEF Step
(* Close marks the writer closed and starts its upload.                    *)
LEMMA CloseStep ==
  ASSUME IInv, NEW w \in Writers, Close(w) PROVE Step(w)
<1> DEFINE r == writer[w]
           q == [r EXCEPT !.pc = "upload", !.call = "close", !.closed = TRUE]
<1>1. r \in Writer /\ CallOK(r, puts) /\ r.pc = "idle" /\ ~r.closed
  BY DEF IInv, TypeOK, Close, At
<1>2. /\ q \in Writer /\ q.pc = "upload" /\ q.call = "close" /\ q.closed
      /\ q.sid = r.sid /\ q.off = r.off /\ r.off \in Nat
  BY <1>1 DEF Writer
<1>3. Becomes(w, q) /\ UNCHANGED <<object, book, puts, acked, promised, spoiled, nextId, faults>>
  BY DEF Close
<1> HIDE DEF q
<1>4. /\ writer' \in [Writers -> Writer] /\ writer'[w] = q
      /\ \A v \in Writers : v # w => writer'[v] = writer[v]
  BY <1>2, <1>3, BecomesFields DEF IInv
<1>5. CallOK(q, puts')
  BY <1>1, <1>2, <1>3 DEF CallOK
<1>6. Typed'
  BY <1>3, <1>4 DEF IInv, TypeOK, Typed
<1>7. WriterStep(w)
  BY <1>1, <1>2, <1>3, <1>4 DEF WriterStep, CallOK
<1>8. BookStep(w) /\ ObjectStep(w)
  BY <1>1, <1>2, <1>3, <1>4 DEF BookStep, ObjectStep
<1> QED BY <1>4, <1>5, <1>6, <1>7, <1>8 DEF Step

(* A process that dies takes only its writer with it.                      *)
LEMMA DieStep ==
  ASSUME IInv, NEW w \in Writers, Die(w) PROVE Step(w)
<1> DEFINE r == writer[w]
           q == [Fresh EXCEPT !.pc = "dead"]
<1>1. r \in Writer /\ CallOK(r, puts) /\ r.pc # "dead"
  BY DEF IInv, TypeOK, Die, At
<1>2. /\ q \in Writer /\ q.pc = "dead" /\ q.call = "none" /\ q.kind = "data"
      /\ q.sid = 0 /\ ~q.closed
  <2>1. [k \in Kinds |-> Cleared] \in [Kinds -> Blob]
    BY DEF Cleared, Blob
  <2> QED BY <2>1 DEF Fresh, Writer, Kinds
<1>3. Becomes(w, q) /\ UNCHANGED <<object, book, puts, acked, promised, spoiled, nextId>>
  BY DEF Die
<1>f. faults' \in 0 .. MaxFaults
  BY BoundsAssumption DEF Die, Fault, IInv, TypeOK
<1> HIDE DEF q
<1>4. /\ writer' \in [Writers -> Writer] /\ writer'[w] = q
      /\ \A v \in Writers : v # w => writer'[v] = writer[v]
  BY <1>2, <1>3, BecomesFields DEF IInv
<1>5. CallOK(q, puts')
  BY <1>1, <1>2, <1>3 DEF CallOK
<1>6. Typed'
  BY <1>3, <1>4, <1>f DEF IInv, TypeOK, Typed
<1>7. WriterStep(w)
  BY <1>1, <1>2, <1>3, <1>4 DEF WriterStep, CallOK
<1>8. BookStep(w) /\ ObjectStep(w)
  BY <1>1, <1>2, <1>3, <1>4 DEF BookStep, ObjectStep
<1> QED BY <1>4, <1>5, <1>6, <1>7, <1>8 DEF Step
(* A second close promises what the writer acknowledged.                   *)
LEMMA CloseAgainStep ==
  ASSUME IInv, NEW w \in Writers, CloseAgain(w) PROVE Step(w)
<1>1. /\ writer[w] \in Writer /\ writer[w].pc = "idle" /\ writer[w].closed
      /\ CallOK(writer[w], puts) /\ writer[w].off \in Nat
  BY DEF IInv, TypeOK, CloseAgain, At, Writer
<1>2. /\ promised' = promised \cup AckedBy(w)
      /\ UNCHANGED <<object, writer, book, puts, acked, spoiled, nextId, faults>>
  BY DEF CloseAgain
<1>3. Typed'
  BY <1>2 DEF IInv, TypeOK, Typed, AckedBy
<1>4. WriterStep(w)
  BY <1>1, <1>2 DEF WriterStep, CallOK
<1>5. BookStep(w) /\ ObjectStep(w)
  BY <1>1, <1>2 DEF BookStep, ObjectStep, AckedBy
<1> QED BY <1>1, <1>2, <1>3, <1>4, <1>5 DEF Step

(* A put that does not fit starts an upload, under a new number.           *)
LEMMA PutRotatesStep ==
  ASSUME IInv, NEW w \in Writers, NEW n \in Sizes,
         Put(w, n), NeedsRotation(w, n)
  PROVE  Step(w)
<1> DEFINE r == writer[w]
           q == [r EXCEPT !.pc = "upload", !.call = "put", !.size = n, !.put = puts + 1]
<1>1. r \in Writer /\ CallOK(r, puts) /\ r.pc = "idle" /\ ~r.closed /\ puts < MaxPuts
  BY DEF IInv, TypeOK, Put, At
<1>2. /\ q \in Writer /\ q.pc = "upload" /\ q.call = "put" /\ q.put = puts + 1
      /\ q.sid = r.sid /\ q.off = r.off /\ r.off \in Nat /\ q.size \in Nat
      /\ q.closed = r.closed /\ puts \in Nat /\ puts + 1 \in Puts
  <2>1. n \in Nat /\ puts \in Nat /\ puts + 1 \in Nat
    BY SizesAssumption DEF IInv, TypeOK
  <2>2. puts + 1 \in Puts
    BY <1>1, <2>1, BoundsAssumption DEF Puts
  <2> QED BY <1>1, <2>1, <2>2 DEF Writer
<1>3. /\ Becomes(w, q) /\ puts' = puts + 1
      /\ UNCHANGED <<object, book, acked, promised, spoiled, nextId, faults>>
  BY DEF Put
<1> HIDE DEF q
<1>4. /\ writer' \in [Writers -> Writer] /\ writer'[w] = q
      /\ \A v \in Writers : v # w => writer'[v] = writer[v]
  BY <1>2, <1>3, BecomesFields DEF IInv
<1>5. CallOK(q, puts')
  BY <1>1, <1>2, <1>3 DEF CallOK
<1>6. Typed'
  BY <1>1, <1>2, <1>3, <1>4 DEF IInv, TypeOK, Typed, Puts
<1>7. WriterStep(w)
  BY <1>1, <1>2, <1>3, <1>4 DEF WriterStep, CallOK
<1>8. BookStep(w) /\ ObjectStep(w)
  BY <1>1, <1>2, <1>3, <1>4 DEF BookStep, ObjectStep
<1> QED BY <1>4, <1>5, <1>6, <1>7, <1>8 DEF Step
(* Failures are bounded.                                                   *)
LEMMA FaultTyped == ASSUME IInv, Fault PROVE faults' \in 0 .. MaxFaults
BY BoundsAssumption DEF Fault, IInv, TypeOK

(* A failed request for a stack spoils at most the writer's own.           *)
LEMMA ResolveFailsStep ==
  ASSUME IInv, NEW w \in Writers, ResolveFails(w) PROVE Step(w)
<1> DEFINE r == writer[w]
<1>1. /\ r \in Writer /\ CallOK(r, puts) /\ r.pc = "resolve" /\ r.off \in Nat
      /\ puts \in Nat
  BY DEF IInv, TypeOK, ResolveFails, At, Writer
<1>2. /\ nextId' \in {nextId, nextId + 1} /\ faults' \in 0 .. MaxFaults
      /\ UNCHANGED <<object, book, puts, acked, promised>>
  BY FaultTyped DEF ResolveFails
<1>3. CASE r.call = "open"
  <2> DEFINE q == [Fresh EXCEPT !.pc = "dead"]
  <2>1. /\ q \in Writer /\ q.pc = "dead" /\ q.call = "none" /\ q.kind = "data"
        /\ q.sid = 0 /\ ~q.closed
    <3>1. [k \in Kinds |-> Cleared] \in [Kinds -> Blob]
      BY DEF Cleared, Blob
    <3> QED BY <3>1 DEF Fresh, Writer, Kinds
  <2>2. Becomes(w, q) /\ spoiled' = spoiled
    BY <1>3 DEF ResolveFails
  <2> HIDE DEF q
  <2>3. /\ writer' \in [Writers -> Writer] /\ writer'[w] = q
        /\ \A v \in Writers : v # w => writer'[v] = writer[v]
    BY <2>1, <2>2, BecomesFields DEF IInv
  <2>4. CallOK(q, puts')
    BY <1>1, <1>2, <2>1 DEF CallOK
  <2>5. Typed'
    BY <1>2, <2>2, <2>3 DEF IInv, TypeOK, Typed
  <2>6. WriterStep(w)
    BY <1>1, <1>2, <2>1, <2>3 DEF WriterStep
  <2>7. BookStep(w) /\ ObjectStep(w)
    BY <1>2, <2>2 DEF BookStep, ObjectStep
  <2> QED BY <2>3, <2>4, <2>5, <2>6, <2>7 DEF Step
<1>4. CASE r.call = "put"
  <2> DEFINE q == Returned(r)
  <2>1. /\ q \in Writer /\ q.pc = "idle" /\ q.call = "none" /\ q.kind = "data"
        /\ q.sid = r.sid /\ q.off = r.off /\ q.closed = r.closed
    BY <1>1, ReturnedFields
  <2>2. Becomes(w, q) /\ spoiled' = spoiled \cup {<<r.sid, "rotation">>}
    BY <1>4 DEF ResolveFails
  <2> HIDE DEF q
  <2>3. /\ writer' \in [Writers -> Writer] /\ writer'[w] = q
        /\ \A v \in Writers : v # w => writer'[v] = writer[v]
    BY <2>1, <2>2, BecomesFields DEF IInv
  <2>4. r.sid \in Sids /\ r.sid # 0
    BY <1>1, <1>4 DEF CallOK
  <2>5. CallOK(q, puts')
    BY <1>1, <1>2, <2>1, <2>4 DEF CallOK
  <2>6. Typed'
    BY <1>2, <2>2, <2>3, <2>4 DEF IInv, TypeOK, Typed
  <2>7. WriterStep(w)
    BY <1>1, <1>2, <2>1, <2>3 DEF WriterStep
  <2>8. BookStep(w) /\ ObjectStep(w)
    BY <1>2, <2>2, <2>4 DEF BookStep, ObjectStep
  <2> QED BY <2>3, <2>5, <2>6, <2>7, <2>8 DEF Step
<1> QED BY <1>3, <1>4 DEF ResolveFails

(* A new writer gets a stack nobody has.                                   *)
LEMMA ResolveOpenStep ==
  ASSUME IInv, NEW w \in Writers, Resolve(w), writer[w].call = "open"
  PROVE  Step(w)
<1> DEFINE r == writer[w]
           q == Returned(NextStack(r, nextId))
<1>1. /\ r \in Writer /\ CallOK(r, puts) /\ r.pc = "resolve" /\ r.off \in Nat
      /\ puts \in Nat /\ nextId \in Sids /\ nextId \in Nat /\ nextId # 0
  BY DEF IInv, TypeOK, StacksOK, Resolve, At, Writer
<1>2. /\ q \in Writer /\ q.pc = "idle" /\ q.call = "none" /\ q.kind = "data"
      /\ q.sid = nextId /\ q.closed = r.closed
  <2> DEFINE opened == NextStack(r, nextId)
  <2>1. opened \in Writer /\ opened.sid = nextId /\ opened.closed = r.closed
    BY <1>1, NextStackFields
  <2>2. q = Returned(opened)
    OBVIOUS
  <2> HIDE DEF opened, q
  <2> QED BY <2>1, <2>2, ReturnedFields
<1>3. /\ Becomes(w, q) /\ nextId' = nextId + 1
      /\ UNCHANGED <<object, book, puts, acked, promised, spoiled, faults>>
  BY DEF Resolve
<1> HIDE DEF q
<1>4. /\ writer' \in [Writers -> Writer] /\ writer'[w] = q
      /\ \A v \in Writers : v # w => writer'[v] = writer[v]
  BY <1>2, <1>3, BecomesFields DEF IInv
<1>5. CallOK(q, puts')
  BY <1>1, <1>2, <1>3 DEF CallOK
<1>6. Typed'
  BY <1>1, <1>3, <1>4 DEF IInv, TypeOK, Typed
<1>7. WriterStep(w)
  <2>1. r.sid = 0
    BY <1>1 DEF CallOK
  <2> QED BY <1>1, <1>2, <1>3, <1>4, <2>1 DEF WriterStep
<1>8. BookStep(w) /\ ObjectStep(w)
  BY <1>3 DEF BookStep, ObjectStep
<1> QED BY <1>4, <1>5, <1>6, <1>7, <1>8 DEF Step
(* The order of an upload: data, meta, idx.                                *)
LEMMA KindOrder ==
  ASSUME NEW k \in Kinds
  PROVE  /\ NextKind(k) \in Kinds
         /\ IsLast(k) <=> k = "idx"
         /\ k = "data" => NextKind(k) = "meta"
         /\ k = "meta" => NextKind(k) = "idx"
BY DEF Kinds, NextKind, IsLast

(* The three ends of an upload. *)
LEMMA UploadBecomes ==
  ASSUME IInv, NEW w \in Writers, Upload(w)
  PROVE  LET r == writer[w]
             q == writer'[w]
         IN  /\ r \in Writer /\ q \in Writer /\ CallOK(r, puts) /\ r.pc = "upload"
             /\ writer' \in [Writers -> Writer]
             /\ \A v \in Writers : v # w => writer'[v] = writer[v]
             /\ q.sid = r.sid /\ q.off = r.off /\ q.closed = r.closed
             /\ \/ /\ r.kind # "idx" /\ promised' = promised
                   /\ q.pc = "upload" /\ q.call = r.call /\ q.put = r.put
                   /\ q.size = r.size /\ q.kind = NextKind(r.kind)
                   /\ q.buf = r.buf /\ q.moff = r.moff
                \/ /\ r.kind = "idx" /\ r.call = "put" /\ promised' = promised
                   /\ q.pc = "resolve" /\ q.call = "put" /\ q.put = r.put
                   /\ q.size = r.size /\ q.kind = "data"
                \/ /\ r.kind = "idx" /\ r.call = "close"
                   /\ promised' = promised \cup AckedBy(w)
                   /\ q.pc = "idle" /\ q.call = "none" /\ q.kind = "data"
<1> DEFINE r == writer[w]
           empty == [r EXCEPT !.buf = [j \in Kinds |-> Cleared]]
           going == [r EXCEPT !.kind = NextKind(r.kind)]
           asking == [empty EXCEPT !.pc = "resolve", !.kind = "data"]
<1>1. r \in Writer /\ CallOK(r, puts) /\ r.pc = "upload" /\ r.kind \in Kinds
  BY DEF IInv, TypeOK, Upload, At, Writer
<1>2. /\ empty \in Writer /\ empty.sid = r.sid /\ empty.off = r.off
      /\ empty.closed = r.closed /\ empty.put = r.put /\ empty.size = r.size
      /\ empty.call = r.call
  <2>1. PICK b \in [Kinds -> Blob] : b = [j \in Kinds |-> Cleared]
    BY DEF Cleared, Blob
  <2>2. empty = [r EXCEPT !.buf = b]
    BY <2>1
  <2> HIDE DEF empty
  <2> QED BY <1>1, <2>2 DEF Writer
<1>3. /\ going \in Writer /\ going.sid = r.sid /\ going.off = r.off
      /\ going.closed = r.closed /\ going.put = r.put /\ going.size = r.size
      /\ going.pc = r.pc /\ going.call = r.call /\ going.buf = r.buf
      /\ going.moff = r.moff /\ going.kind = NextKind(r.kind)
  BY <1>1, KindOrder DEF Writer
<1> HIDE DEF empty
<1>4. /\ asking \in Writer /\ asking.sid = r.sid /\ asking.off = r.off
      /\ asking.closed = r.closed /\ asking.put = r.put /\ asking.size = r.size
      /\ asking.pc = "resolve" /\ asking.call = r.call /\ asking.kind = "data"
  BY <1>2 DEF Writer, Kinds
<1>5. /\ Returned(empty) \in Writer /\ Returned(empty).sid = r.sid
      /\ Returned(empty).off = r.off /\ Returned(empty).closed = r.closed
      /\ Returned(empty).pc = "idle" /\ Returned(empty).call = "none"
      /\ Returned(empty).kind = "data"
  BY <1>2, ReturnedFields
<1>6. \/ r.kind # "idx" /\ Becomes(w, going) /\ promised' = promised
      \/ /\ r.kind = "idx" /\ r.call = "put" /\ Becomes(w, asking)
         /\ promised' = promised
      \/ /\ r.kind = "idx" /\ r.call = "close" /\ Becomes(w, Returned(empty))
         /\ promised' = promised \cup AckedBy(w)
  BY <1>1, KindOrder DEF Upload, empty
<1> HIDE DEF going, asking
<1>7. CASE r.kind # "idx" /\ Becomes(w, going) /\ promised' = promised
  BY <1>1, <1>3, <1>7, BecomesFields DEF IInv
<1>8. CASE /\ r.kind = "idx" /\ r.call = "put" /\ Becomes(w, asking)
           /\ promised' = promised
  BY <1>1, <1>4, <1>8, BecomesFields DEF IInv
<1>9. CASE /\ r.kind = "idx" /\ r.call = "close" /\ Becomes(w, Returned(empty))
           /\ promised' = promised \cup AckedBy(w)
  BY <1>1, <1>5, <1>9, BecomesFields DEF IInv
<1> QED BY <1>6, <1>7, <1>8, <1>9
(* An upload changes one object, of the writer's own stack.                *)
LEMMA UploadStep ==
  ASSUME IInv, NEW w \in Writers, Upload(w) PROVE Step(w)
<1> DEFINE r == writer[w]
           q == writer'[w]
<1>1. /\ r \in Writer /\ CallOK(r, puts) /\ r.pc = "upload" /\ r.off \in Nat
      /\ r.sid \in Sids /\ r.sid # 0 /\ puts \in Nat
  BY UploadBecomes DEF CallOK, IInv, TypeOK, Writer
<1>2. /\ object' = Shipped(r) /\ object' \in [Sids -> [Kinds -> Blob]]
      /\ UNCHANGED <<book, puts, acked, spoiled, nextId, faults>>
  <2>1. object' = Shipped(r) /\ UNCHANGED <<book, puts, acked, spoiled, nextId, faults>>
    BY DEF Upload, Shipped
  <2> QED BY <1>1, <2>1, ShippedFields DEF IInv
<1>3. /\ q.sid = r.sid /\ q.off = r.off /\ q.closed = r.closed
      /\ writer' \in [Writers -> Writer]
      /\ \A v \in Writers : v # w => writer'[v] = writer[v]
      /\ promised' \in {promised, promised \cup AckedBy(w)}
      /\ q.call = "put" => r.call = "put" /\ q.put = r.put
  BY UploadBecomes
<1>4. CallOK(q, puts')
  <2>1. CASE q.pc = "upload" /\ q.call = r.call /\ q.put = r.put /\ q.size = r.size
    BY <1>1, <1>2, <1>3, <2>1 DEF CallOK
  <2>2. CASE /\ r.call = "put" /\ q.pc = "resolve" /\ q.call = "put"
             /\ q.put = r.put /\ q.size = r.size /\ q.kind = "data"
    BY <1>1, <1>2, <1>3, <2>2 DEF CallOK
  <2>3. CASE q.pc = "idle" /\ q.call = "none" /\ q.kind = "data"
    BY <1>1, <1>2, <1>3, <2>3 DEF CallOK
  <2> QED BY <2>1, <2>2, <2>3, UploadBecomes
<1>5. Typed'
  BY <1>2, <1>3 DEF IInv, TypeOK, Typed, AckedBy
<1>6. WriterStep(w)
  BY <1>1, <1>2, <1>3 DEF WriterStep
<1>7. promised' = promised \/ (q.pc = "idle" /\ q.closed /\ promised' = promised \cup AckedBy(w))
  BY <1>1, UploadBecomes DEF CallOK
<1>8. BookStep(w)
  BY <1>2, <1>7 DEF BookStep, AckedBy
<1>9. ObjectStep(w)
  BY <1>1, <1>2 DEF ObjectStep
<1> QED BY <1>4, <1>5, <1>6, <1>8, <1>9 DEF Step

(* A failed one changes at most that.                                      *)
LEMMA UploadFailsStep ==
  ASSUME IInv, NEW w \in Writers, UploadFails(w) PROVE Step(w)
<1> DEFINE r == writer[w]
           q == Returned(r)
<1>1. /\ r \in Writer /\ CallOK(r, puts) /\ r.pc = "upload" /\ r.off \in Nat
      /\ puts \in Nat
  BY DEF IInv, TypeOK, UploadFails, At, Writer
<1>2. /\ q \in Writer /\ q.pc = "idle" /\ q.call = "none" /\ q.kind = "data"
      /\ q.sid = r.sid /\ q.off = r.off /\ q.closed = r.closed
  BY <1>1, ReturnedFields
<1>3. r.sid \in Sids /\ r.sid # 0
  BY <1>1 DEF CallOK
<1>4. /\ Becomes(w, q) /\ object' \in {object, Shipped(r)}
      /\ spoiled' \in {spoiled, spoiled \cup {<<r.sid, "close">>}}
      /\ faults' \in 0 .. MaxFaults
      /\ UNCHANGED <<book, puts, acked, promised, nextId>>
  BY FaultTyped DEF UploadFails, AfterFailure, Shipped
<1> HIDE DEF q
<1>5. /\ writer' \in [Writers -> Writer] /\ writer'[w] = q
      /\ \A v \in Writers : v # w => writer'[v] = writer[v]
  BY <1>2, <1>4, BecomesFields DEF IInv
<1>6. CallOK(q, puts')
  BY <1>1, <1>2, <1>3, <1>4 DEF CallOK
<1>7. Typed'
  <2>1. object' \in [Sids -> [Kinds -> Blob]]
    BY <1>1, <1>3, <1>4, ShippedFields DEF IInv, TypeOK
  <2> QED BY <1>3, <1>4, <1>5, <2>1 DEF IInv, TypeOK, Typed
<1>8. WriterStep(w)
  BY <1>1, <1>2, <1>4, <1>5 DEF WriterStep
<1>9. BookStep(w) /\ ObjectStep(w)
  BY <1>1, <1>3, <1>4 DEF BookStep, ObjectStep
<1> QED BY <1>5, <1>6, <1>7, <1>8, <1>9 DEF Step

(* A put that ends in a writer b: recorded, and its index_id given out.    *)
LEMMA AcknowledgeFields ==
  ASSUME IInv, NEW w \in Writers, NEW b \in Writer, NEW n \in Puts, NEW size \in Nat,
         Acknowledge(w, b, n, size)
  PROVE  LET q == writer'[w]
         IN  /\ writer' \in [Writers -> Writer] /\ q = Returned(Recorded(b, n, size))
             /\ \A v \in Writers : v # w => writer'[v] = writer[v]
             /\ q.pc = "idle" /\ q.call = "none" /\ q.kind = "data"
             /\ q.sid = b.sid /\ q.closed = b.closed /\ b.off < q.off /\ q.off \in Nat
             /\ acked' = acked \cup {n} /\ book' \in [Puts -> Booked]
             /\ \A m \in Puts : m # n => book'[m] = book[m]
             /\ book'[n].sid = b.sid /\ book'[n].off = b.off
             /\ book'[n].moff = b.moff /\ book'[n].by = w
<1> DEFINE rec == Recorded(b, n, size)
           q == Returned(rec)
           entry == [sid |-> b.sid, off |-> b.off, moff |-> b.moff, size |-> size, by |-> w]
<1>1. /\ rec \in Writer /\ rec.sid = b.sid /\ rec.closed = b.closed
      /\ rec.off = b.off + RecordSize(size)
  BY RecordedFields
<1>2. /\ Becomes(w, q) /\ acked' = acked \cup {n} /\ book' = [book EXCEPT ![n] = entry]
      /\ q = Returned(rec)
  BY DEF Acknowledge
<1>3. entry \in Booked
  BY DEF Booked, Writer
<1>4. /\ entry.sid = b.sid /\ entry.off = b.off /\ entry.moff = b.moff
      /\ entry.by = w
  OBVIOUS
<1>5. b.off \in Nat
  BY DEF Writer
<1> HIDE DEF rec, q, entry
<1>6. /\ q \in Writer /\ q.pc = "idle" /\ q.call = "none" /\ q.kind = "data"
      /\ q.sid = b.sid /\ q.closed = b.closed /\ q.off = rec.off
  BY <1>1, <1>2, ReturnedFields
<1>7. b.off < q.off /\ q.off \in Nat
  BY <1>1, <1>5, <1>6, SizesTyped
<1>8. /\ book' \in [Puts -> Booked] /\ book'[n] = entry
      /\ \A m \in Puts : m # n => book'[m] = book[m]
  BY <1>2, <1>3 DEF IInv, TypeOK
<1>9. /\ writer' \in [Writers -> Writer] /\ writer'[w] = q
      /\ \A v \in Writers : v # w => writer'[v] = writer[v]
  BY <1>2, <1>6, BecomesFields DEF IInv
<1>10. writer'[w] = Returned(Recorded(b, n, size))
  BY <1>9 DEF q, rec
<1> QED BY <1>2, <1>4, <1>6, <1>7, <1>8, <1>9, <1>10
(* A put that fits ends in the stack the writer has.                       *)
LEMMA PutFitsStep ==
  ASSUME IInv, NEW w \in Writers, NEW size \in Sizes,
         Put(w, size), ~NeedsRotation(w, size)
  PROVE  Step(w) /\ Acknowledge(w, writer[w], puts + 1, size)
<1> DEFINE r == writer[w]
           q == writer'[w]
           n == puts + 1
<1>1. /\ r \in Writer /\ CallOK(r, puts) /\ r.pc = "idle" /\ r.off \in Nat
      /\ ~r.closed /\ puts \in Nat /\ r.sid \in Sids /\ r.sid # 0
  BY DEF IInv, TypeOK, Put, At, Writer, CallOK
<1>2. n \in Puts /\ n \notin acked /\ size \in Nat
  BY BoundsAssumption, SizesAssumption DEF Put, IInv, TypeOK, Puts
<1>3. /\ Acknowledge(w, r, n, size) /\ puts' = n
      /\ UNCHANGED <<object, promised, spoiled, nextId, faults>>
  BY DEF Put
<1> HIDE DEF n
<1>4. /\ writer' \in [Writers -> Writer]
      /\ \A v \in Writers : v # w => writer'[v] = writer[v]
      /\ q.pc = "idle" /\ q.call = "none" /\ q.kind = "data"
      /\ q.sid = r.sid /\ q.closed = r.closed /\ r.off < q.off /\ q.off \in Nat
      /\ acked' = acked \cup {n} /\ book' \in [Puts -> Booked]
      /\ \A m \in Puts : m # n => book'[m] = book[m]
      /\ book'[n].sid = r.sid /\ book'[n].off = r.off /\ book'[n].by = w
  BY <1>1, <1>2, <1>3, AcknowledgeFields
<1>5. CallOK(q, puts')
  BY <1>1, <1>4 DEF CallOK
<1>6. Typed'
  <2>1. acked' \subseteq 1 .. puts' /\ puts' \in 0 .. MaxPuts
    BY <1>1, <1>2, <1>3, <1>4 DEF IInv, TypeOK, Puts, n
  <2> QED BY <1>3, <1>4, <2>1 DEF IInv, TypeOK, Typed
<1>7. WriterStep(w)
  BY <1>1, <1>3, <1>4 DEF WriterStep, n
<1>8. BookStep(w)
  <2>1. acked \subseteq Puts
    BY BoundsAssumption DEF IInv, TypeOK, Puts
  <2> QED BY <1>1, <1>2, <1>3, <1>4, <2>1 DEF BookStep, n
<1>9. ObjectStep(w)
  BY <1>3 DEF ObjectStep
<1> QED BY <1>3, <1>5, <1>6, <1>7, <1>8, <1>9 DEF Step, n

(* A put that rotated ends in the stack the Controller gave.               *)
LEMMA ResolvePutStep ==
  ASSUME IInv, NEW w \in Writers, Resolve(w), writer[w].call = "put"
  PROVE  Step(w)
<1> DEFINE r == writer[w]
           q == writer'[w]
           n == r.put
           b == NextStack(r, nextId)
<1>1. /\ r \in Writer /\ CallOK(r, puts) /\ r.pc = "resolve" /\ r.off \in Nat
      /\ r.size \in Nat /\ puts \in Nat /\ nextId \in Sids /\ nextId \in Nat
      /\ nextId # 0
  BY DEF IInv, TypeOK, StacksOK, Resolve, At, Writer
<1>2. n \in Puts /\ n \in 1 .. puts /\ n \notin acked /\ ~r.closed
  BY <1>1 DEF IInv, TypeOK, CallOK, NumbersOK
<1>3. /\ Acknowledge(w, b, n, r.size) /\ nextId' = nextId + 1
      /\ UNCHANGED <<object, puts, promised, spoiled, faults>>
  BY DEF Resolve
<1>4. b \in Writer /\ b.sid = nextId /\ b.closed = r.closed
  BY <1>1, NextStackFields
<1> HIDE DEF b, n
<1>5. /\ writer' \in [Writers -> Writer]
      /\ \A v \in Writers : v # w => writer'[v] = writer[v]
      /\ q.pc = "idle" /\ q.call = "none" /\ q.kind = "data"
      /\ q.sid = b.sid /\ q.closed = b.closed /\ b.off < q.off /\ q.off \in Nat
      /\ acked' = acked \cup {n} /\ book' \in [Puts -> Booked]
      /\ \A m \in Puts : m # n => book'[m] = book[m]
      /\ book'[n].sid = b.sid /\ book'[n].off = b.off /\ book'[n].by = w
  BY <1>1, <1>2, <1>3, <1>4, AcknowledgeFields
<1>6. CallOK(q, puts')
  BY <1>1, <1>4, <1>5 DEF CallOK
<1>7. Typed'
  <2>1. acked' \subseteq 1 .. puts'
    BY <1>2, <1>3, <1>5 DEF IInv, TypeOK
  <2> QED BY <1>1, <1>3, <1>5, <2>1 DEF IInv, TypeOK, Typed
<1>8. r.sid < nextId
  BY DEF IInv, StacksOK
<1>9. r.sid # nextId
  BY <1>1, <1>8 DEF Writer
<1>10. WriterStep(w)
  BY <1>1, <1>3, <1>4, <1>5, <1>9 DEF WriterStep
<1>11. BookStep(w)
  <2>1. acked \subseteq Puts
    BY BoundsAssumption DEF IInv, TypeOK, Puts
  <2> QED BY <1>1, <1>2, <1>3, <1>4, <1>5, <1>9, <2>1 DEF BookStep, n
<1>12. ObjectStep(w)
  BY <1>3 DEF ObjectStep
<1> QED BY <1>6, <1>7, <1>10, <1>11, <1>12 DEF Step

(* So every step of w is such a step.                                      *)
LEMMA EveryStep ==
  ASSUME IInv, NEW w \in Writers,
         \/ Open(w) \/ Resolve(w) \/ ResolveFails(w)
         \/ \E n \in Sizes : Put(w, n)
         \/ Close(w) \/ CloseAgain(w) \/ Upload(w) \/ UploadFails(w) \/ Die(w)
  PROVE  Step(w)
<1>1. Resolve(w) => writer[w].call \in {"open", "put"}
  BY DEF Resolve
<1> QED BY <1>1, OpenStep, ResolveOpenStep, ResolvePutStep, ResolveFailsStep,
           PutFitsStep, PutRotatesStep, CloseStep, CloseAgainStep, UploadStep,
           UploadFailsStep, DieStep

-----------------------------------------------------------------------------
(* What holds after a step, whichever it is.                               *)

(* Full buffers hold each of their puts.                                   *)
LEMMA FilledHolds ==
  ASSUME NEW r, NEW ns, NEW fields, Filled(r, ns, fields), NEW n \in ns
  PROVE  /\ \A k \in Kinds : r.buf[k].head = r.sid
         /\ [at |-> fields[n].off, put |-> n] \in r.buf["data"].recs
         /\ [at |-> fields[n].moff, put |-> n] \in r.buf["meta"].recs
         /\ \E e \in r.buf["idx"].recs : e.put = n
BY DEF Filled

(* An upload begins from full buffers, unless the stack is spoiled.        *)
LEMMA UploadFilled ==
  ASSUME IInv, NEW w \in Writers, writer[w].pc = "upload",
         ~Spoiled(writer[w].sid, "rotation")
  PROVE  /\ Filled(writer[w], Of(writer[w].sid), book)
         /\ Covered(writer[w], object[writer[w].sid])
<1>1. CallOK(writer[w], puts) /\ BufferOK(w)
  BY DEF IInv
<1> QED BY <1>1 DEF BufferOK, CallOK

(* An upload replaces an object by one with the same puts in it.           *)
LEMMA PublishedKept ==
  ASSUME IInv, NEW w \in Writers, Step(w), NEW n \in acked, Published(n),
         ~Spoiled(book[n].sid, "rotation")
  PROVE  Published(n)'
<1> DEFINE r == writer[w]
           s == book[n].sid
<1>1. book'[n] = book[n] /\ s \in Sids /\ r \in Writer
  BY DEF Step, BookStep, IInv, BookOK, TypeOK
<1>2. CASE object'[s] = object[s]
  BY <1>1, <1>2 DEF Published
<1>3. CASE object'[s] # object[s]
  <2>1. /\ s = r.sid /\ r.pc = "upload"
        /\ \A k \in Kinds : object'[s][k] = IF k = r.kind THEN r.buf[k] ELSE object[s][k]
    <3>1. r.pc = "upload" /\ object' = Shipped(r)
      BY <1>3 DEF Step, ObjectStep
    <3>2. r.sid \in Sids
      BY <3>1 DEF IInv, CallOK
    <3> QED BY <1>1, <1>3, <3>1, <3>2, ShippedFields DEF IInv
  <2>2. n \in Of(s) /\ Filled(r, Of(s), book)
    BY <2>1, UploadFilled DEF Of
  <2>3. /\ \A k \in Kinds : r.buf[k].head = s
        /\ [at |-> book[n].off, put |-> n] \in r.buf["data"].recs
        /\ [at |-> book[n].moff, put |-> n] \in r.buf["meta"].recs
        /\ \E e \in r.buf["idx"].recs : e.put = n
    BY <2>1, <2>2, FilledHolds
  <2>4. "data" \in Kinds /\ "meta" \in Kinds /\ "idx" \in Kinds
    BY DEF Kinds
  <2> HIDE DEF r, s
  <2>5. \A k \in Kinds : object'[s][k].head = s
    BY <2>1, <2>3 DEF Published, s
  <2>6. /\ [at |-> book[n].off, put |-> n] \in object'[s]["data"].recs
        /\ [at |-> book[n].moff, put |-> n] \in object'[s]["meta"].recs
        /\ \E e \in object'[s]["idx"].recs : e.put = n
    BY <2>1, <2>3, <2>4 DEF Published, s
  <2> QED BY <1>1, <2>5, <2>6 DEF Published, s
<1> QED BY <1>2, <1>3

(* The types, and the calls in progress.                                   *)
LEMMA TypeOKNext ==
  ASSUME IInv, NEW w \in Writers, Step(w)
  PROVE  TypeOK' /\ \A v \in Writers : CallOK(writer'[v], puts')
<1>1. /\ Typed' /\ CallOK(writer'[w], puts') /\ WriterStep(w) /\ BookStep(w)
  BY DEF Step
<1>2. ASSUME NEW v \in Writers PROVE CallOK(writer'[v], puts')
  <2>1. CASE v = w
    BY <1>1, <2>1
  <2>2. CASE v # w
    <3>1. writer'[v] = writer[v] /\ puts' \in {puts, puts + 1} /\ puts \in Nat
      BY <1>1, <2>2 DEF WriterStep, IInv, TypeOK
    <3>2. CallOK(writer[v], puts)
      BY DEF IInv
    <3> QED BY <3>1, <3>2 DEF CallOK
  <2> QED BY <2>1, <2>2
<1>3. ASSUME NEW v \in Writers
      PROVE  /\ writer'[v].pc \in {"upload", "resolve"} => writer'[v].call # "none"
             /\ writer'[v].call = "put" => writer'[v].put \in Puts \ acked'
  <2>1. CallOK(writer'[v], puts')
    BY <1>2
  <2>2. writer'[v].pc \in {"upload", "resolve"} => writer'[v].call # "none"
    BY <2>1 DEF CallOK
  <2>3. ASSUME writer'[v].call = "put" PROVE writer'[v].put \in Puts
    BY <1>1, <2>1, <2>3, BoundsAssumption DEF CallOK, Typed, Puts
  <2>4. ASSUME writer'[v].call = "put" PROVE writer'[v].put \notin acked'
    <3>1. CASE v = w
      <4>1. acked' = acked
        BY <1>1, <2>4, <3>1 DEF BookStep
      <4>2. CASE writer[w].call = "put" /\ writer'[w].put = writer[w].put
        BY <3>1, <4>1, <4>2 DEF IInv, NumbersOK
      <4>3. CASE writer'[w].put = puts + 1
        BY <3>1, <4>1, <4>3 DEF IInv, TypeOK
      <4> QED BY <1>1, <2>4, <3>1, <4>2, <4>3 DEF WriterStep
    <3>2. CASE v # w
      <4>1. writer'[v] = writer[v]
        BY <1>1, <3>2 DEF WriterStep
      <4>2. writer[v].put \notin acked /\ writer[v].put \in 1 .. puts /\ puts \in Nat
        BY <2>4, <4>1 DEF IInv, NumbersOK, CallOK, TypeOK
      <4>3. ~(writer[w].call = "put" /\ writer[v].put = writer[w].put)
        BY <2>4, <3>2, <4>1 DEF IInv, NumbersOK
      <4> QED BY <1>1, <4>1, <4>2, <4>3 DEF BookStep
    <3> QED BY <3>1, <3>2
  <2> QED BY <2>2, <2>3, <2>4
<1>4. TypeOK'
  BY <1>1, <1>3 DEF TypeOK, Typed
<1> QED BY <1>2, <1>4

(* A new put gets a number nobody has.                                     *)
LEMMA NumbersOKNext ==
  ASSUME IInv, NEW w \in Writers, Step(w) PROVE NumbersOK'
<1>1. WriterStep(w) /\ TypeOK'
  BY TypeOKNext DEF Step
<1>2. \A v \in Writers : writer[v].call = "put" => writer[v].put # puts + 1
  BY DEF IInv, CallOK, TypeOK
<1>3. ASSUME NEW u \in Writers, NEW v \in Writers, u # v,
             writer'[u].call = "put", writer'[v].call = "put"
      PROVE  writer'[u].put # writer'[v].put
  <2>1. \A x \in Writers : x # w => writer'[x] = writer[x]
    BY <1>1 DEF WriterStep
  <2>2. /\ \A x, y \in Writers :
              x # y /\ writer[x].call = "put" /\ writer[y].call = "put"
              => writer[x].put # writer[y].put
        /\ writer'[w].call = "put" =>
             \/ writer[w].call = "put" /\ writer'[w].put = writer[w].put
             \/ writer'[w].put = puts + 1
    BY <1>1 DEF WriterStep, IInv, NumbersOK
  <2>3. CASE u = w \/ v = w
    BY <1>2, <1>3, <2>1, <2>2, <2>3
  <2>4. CASE u # w /\ v # w
    BY <1>3, <2>1, <2>4 DEF IInv, NumbersOK
  <2> QED BY <2>2, <2>3, <2>4
<1>4. \A v \in Writers : writer'[v].call = "put" => writer'[v].put \notin acked'
  BY <1>1 DEF TypeOK
<1> QED BY <1>3, <1>4 DEF NumbersOK
(* A new stack gets an id nobody has.                                      *)
LEMMA StacksOKNext ==
  ASSUME IInv, NEW w \in Writers, Step(w) PROVE StacksOK'
<1> DEFINE r == writer[w]
           q == writer'[w]
<1>1. /\ \A v \in Writers : v # w => writer'[v] = writer[v]
      /\ q.sid \in {0, r.sid} \/ (q.sid = nextId /\ nextId' = nextId + 1)
      /\ nextId' \in {nextId, nextId + 1} /\ nextId \in Nat /\ nextId # 0
      /\ \A v \in Writers : writer[v].sid \in Nat
  BY DEF Step, WriterStep, IInv, TypeOK, StacksOK, Writer
<1>2. /\ \A v \in Writers : writer[v].sid < nextId
      /\ \A u, v \in Writers : u # v /\ writer[u].sid # 0 => writer[u].sid # writer[v].sid
  BY DEF IInv, StacksOK
<1> HIDE DEF r, q
<1>3. nextId' # 0
  BY <1>1
<1>4. \A v \in Writers : writer'[v].sid < nextId'
  <2>1. r.sid < nextId /\ r.sid \in Nat
    BY <1>1, <1>2 DEF r
  <2>2. q.sid < nextId'
    BY <1>1, <2>1
  <2>3. ASSUME NEW v \in Writers, v # w PROVE writer'[v].sid < nextId'
    <3>1. writer[v].sid \in Nat /\ writer[v].sid < nextId
      BY <1>1, <1>2
    <3>2. writer'[v].sid = writer[v].sid
      BY <1>1, <2>3
    <3> QED BY <1>1, <3>1, <3>2
  <2> QED BY <2>2, <2>3 DEF q
<1>5. ASSUME NEW u \in Writers, NEW v \in Writers, u # v, writer'[u].sid # 0
      PROVE  writer'[u].sid # writer'[v].sid
  <2>1. ASSUME NEW x \in Writers, x # w, q.sid # 0 PROVE q.sid # writer'[x].sid
    <3>1. writer'[x].sid = writer[x].sid /\ writer[x].sid < nextId
          /\ writer[x].sid \in Nat
      BY <1>1, <1>2, <2>1
    <3>2. r.sid # 0 => r.sid # writer[x].sid
      BY <1>2, <2>1 DEF r
    <3> QED BY <1>1, <2>1, <3>1, <3>2
  <2>2. CASE u = w
    BY <1>5, <2>1, <2>2 DEF q
  <2>3. CASE v = w
    <3>1. CASE q.sid # 0
      BY <1>5, <2>1, <2>3, <3>1 DEF q
    <3>2. CASE q.sid = 0
      BY <1>5, <2>3, <3>2 DEF q
    <3> QED BY <3>1, <3>2
  <2>4. CASE u # w /\ v # w
    BY <1>1, <1>2, <1>5, <2>4
  <2> QED BY <2>2, <2>3, <2>4
<1>6. ASSUME NEW p \in spoiled' PROVE p[1] < nextId'
  <2>1. CASE p \in spoiled
    <3>1. p[1] < nextId /\ p[1] \in Nat
      BY <2>1 DEF IInv, StacksOK, TypeOK, Sids
    <3> QED BY <1>1, <3>1
  <2>2. CASE p \notin spoiled
    <3>1. p[1] = r.sid
      BY <2>2 DEF Step, ObjectStep, r
    <3>2. r.sid < nextId /\ r.sid \in Nat
      BY <1>1, <1>2 DEF r
    <3> QED BY <1>1, <3>1, <3>2
  <2> QED BY <2>1, <2>2
<1>7. ASSUME NEW s \in Sids, s >= nextId' PROVE \A k \in Kinds : object'[s][k] = NoObject
  <2>1. s >= nextId /\ s \in Nat
    BY <1>1, <1>7 DEF Sids
  <2>2. \A k \in Kinds : object[s][k] = NoObject
    BY <2>1 DEF IInv, StacksOK
  <2>3. s # r.sid
    BY <1>1, <1>2, <2>1 DEF r
  <2>4. CASE object' = object
    BY <2>2, <2>4
  <2>5. CASE object' # object
    <3>1. object' = Shipped(r) /\ r.pc = "upload"
      BY <2>5 DEF Step, ObjectStep, r
    <3>2. r.sid \in Sids /\ r \in Writer /\ TypeOK
      BY <3>1 DEF IInv, TypeOK, CallOK, r
    <3> QED BY <2>2, <2>3, <3>1, <3>2, ShippedFields
  <2> QED BY <2>4, <2>5
<1> QED BY <1>3, <1>4, <1>5, <1>6, <1>7 DEF StacksOK

(* Offsets of acknowledged puts lie below the writer's own.                *)
LEMMA BookOKNext ==
  ASSUME IInv, NEW w \in Writers, Step(w) PROVE BookOK'
<1> DEFINE r == writer[w]
           q == writer'[w]
<1>1. /\ WriterStep(w) /\ BookStep(w) /\ StacksOK' /\ TypeOK'
      /\ \A v \in Writers : CallOK(writer'[v], puts')
  BY StacksOKNext, TypeOKNext DEF Step
<1>2. \A v \in Writers : v # w => writer'[v] = writer[v]
  BY <1>1 DEF WriterStep
<1>3. ASSUME NEW n \in acked, NEW v \in Writers, writer'[v].sid = book[n].sid
      PROVE  v = book[n].by /\ book[n].off < writer'[v].off
  <2>1. /\ book[n].sid \in Sids /\ book[n].sid < nextId
        /\ writer[v].sid = book[n].sid => v = book[n].by /\ book[n].off < writer[v].off
    BY DEF IInv, BookOK
  <2>2. CASE v # w
    BY <1>2, <1>3, <2>1, <2>2
  <2>3. CASE v = w
    <3>1. q.sid # 0 /\ q.sid # nextId
      BY <1>3, <2>1, <2>3 DEF Sids, IInv, TypeOK
    <3>2. q.sid = r.sid /\ q.off >= r.off
      BY <1>1, <3>1 DEF WriterStep
    <3>3. book[n].off < r.off /\ v = book[n].by
      BY <1>3, <2>1, <2>3, <3>2
    <3>4. book[n].off \in Nat /\ r.off \in Nat /\ q.off \in Nat
      <4>1. n \in Puts
        BY BoundsAssumption DEF IInv, TypeOK, Puts
      <4> QED BY <1>1, <4>1 DEF IInv, TypeOK, Booked, Writer
    <3> QED BY <2>3, <3>2, <3>3, <3>4
  <2> QED BY <2>2, <2>3
<1>4. ASSUME NEW n \in acked' PROVE
        /\ book'[n].sid \in Sids /\ book'[n].sid < nextId' /\ book'[n].by \in Writers
        /\ \A v \in Writers : writer'[v].sid = book'[n].sid =>
             v = book'[n].by /\ book'[n].off < writer'[v].off
  <2>1. CASE n \in acked
    <3>1. book'[n] = book[n]
      BY <1>1, <2>1 DEF BookStep
    <3>2. book[n].sid \in Sids /\ book[n].sid < nextId /\ book[n].by \in Writers
      BY <2>1 DEF IInv, BookOK
    <3>3. book[n].sid < nextId'
      BY <1>1, <3>2 DEF WriterStep, IInv, TypeOK, Sids
    <3> QED BY <1>3, <2>1, <3>1, <3>2, <3>3
  <2>2. CASE n \notin acked
    <3>1. /\ q.sid # 0 /\ book'[n].sid = q.sid /\ book'[n].by = w
          /\ book'[n].off < q.off
      BY <1>1, <2>2 DEF BookStep
    <3>2. q.sid \in Sids /\ q.sid < nextId'
      BY <1>1, <3>1 DEF CallOK, StacksOK
    <3>3. \A v \in Writers : writer'[v].sid = q.sid => v = w
      BY <1>1, <3>1 DEF StacksOK
    <3> QED BY <3>1, <3>2, <3>3
  <2> QED BY <2>1, <2>2
<1> QED BY <1>4 DEF BookOK

(* So no offset of a stack is given out twice.                             *)
LEMMA AckedIdsUniqueNext ==
  ASSUME IInv, NEW w \in Writers, Step(w) PROVE AckedIdsUnique'
<1> DEFINE r == writer[w]
           q == writer'[w]
<1>1. WriterStep(w) /\ BookStep(w)
  BY DEF Step
<1>2. ASSUME NEW m \in acked, NEW n \in acked', n \notin acked,
             book'[m].sid = book'[n].sid
      PROVE  book'[m].off # book'[n].off
  <2>1. book'[m] = book[m] /\ book[m].sid \in Sids /\ book[m].sid < nextId
    BY <1>1 DEF BookStep, IInv, BookOK
  <2>2. q.sid # 0 /\ book'[n].sid = q.sid
    BY <1>1, <1>2 DEF BookStep
  <2>3. q.sid = r.sid
    BY <1>1, <1>2, <2>1, <2>2 DEF WriterStep, Sids, IInv, TypeOK
  <2>4. book[m].off < r.off /\ r.off <= book'[n].off
    <3>1. \A v \in Writers : writer[v].sid = book[m].sid => book[m].off < writer[v].off
      BY DEF IInv, BookOK
    <3>2. r.off <= book'[n].off
      BY <1>1, <1>2, <2>3 DEF BookStep
    <3> QED BY <1>2, <2>1, <2>2, <2>3, <3>1, <3>2
  <2>5. book[m].off \in Nat /\ r.off \in Nat /\ book'[n].off \in Nat
    <3>1. m \in Puts /\ n \in Puts /\ book' \in [Puts -> Booked]
      BY BoundsAssumption DEF IInv, TypeOK, Puts, Step, Typed
    <3> QED BY <3>1 DEF IInv, TypeOK, Booked, Writer
  <2> QED BY <2>1, <2>4, <2>5
<1>3. ASSUME NEW m \in acked', NEW n \in acked', m # n
      PROVE  <<book'[m].sid, book'[m].off>> # <<book'[n].sid, book'[n].off>>
  <2>1. CASE m \in acked /\ n \in acked
    BY <1>1, <1>3, <2>1 DEF BookStep, IInv, AckedIdsUnique
  <2>2. CASE m \in acked /\ n \notin acked
    BY <1>2, <2>2
  <2>3. CASE m \notin acked /\ n \in acked
    BY <1>2, <2>3
  <2>4. CASE m \notin acked /\ n \notin acked
    BY <1>1, <1>3, <2>4 DEF BookStep
  <2> QED BY <2>1, <2>2, <2>3, <2>4
<1> QED BY <1>3 DEF AckedIdsUnique
(* What is spoiled remains so.                                             *)
LEMMA SpoiledStays ==
  ASSUME NEW w \in Writers, Step(w), NEW s, NEW why, ~Spoiled(s, why)'
  PROVE  ~Spoiled(s, why)
BY DEF Step, ObjectStep, Spoiled

(* The objects of a stack change only by an upload of its writer.          *)
LEMMA ObjectChanges ==
  ASSUME IInv, NEW w \in Writers, Step(w), NEW s \in Sids, object'[s] # object[s]
  PROVE  /\ s = writer[w].sid /\ writer[w].pc = "upload"
         /\ \A k \in Kinds : object'[s][k] =
              IF k = writer[w].kind THEN writer[w].buf[k] ELSE object[s][k]
<1> DEFINE r == writer[w]
<1>1. r.pc = "upload" /\ object' = Shipped(r)
  BY DEF Step, ObjectStep
<1>2. r.sid \in Sids /\ r \in Writer /\ TypeOK
  BY <1>1 DEF IInv, CallOK, TypeOK
<1> QED BY <1>1, <1>2, ShippedFields

(* The index is uploaded last, from buffers that hold the same puts.       *)
LEMMA IndexAfterDataNext ==
  ASSUME IInv, NEW w \in Writers, Step(w) PROVE IndexAfterData'
<1> DEFINE r == writer[w]
<1>1. SUFFICES ASSUME NEW s \in Sids, ~Spoiled(s, "rotation")',
                      NEW e \in object'[s]["idx"].recs, NEW k \in {"data", "meta"}
               PROVE  /\ object'[s][k].head = s
                      /\ \E f \in object'[s][k].recs : f.put = e.put
  BY DEF IndexAfterData
<1>2. ~Spoiled(s, "rotation")
  BY <1>1, SpoiledStays
<1>3. ASSUME e \in object[s]["idx"].recs, object'[s][k] = object[s][k]
      PROVE  /\ object'[s][k].head = s
             /\ \E f \in object'[s][k].recs : f.put = e.put
  BY <1>1, <1>2, <1>3 DEF IInv, IndexAfterData
<1>4. CASE object'[s] = object[s]
  BY <1>1, <1>3, <1>4
<1>5. CASE object'[s] # object[s]
  <2>1. /\ s = r.sid /\ r.pc = "upload"
        /\ \A j \in Kinds : object'[s][j] = IF j = r.kind THEN r.buf[j] ELSE object[s][j]
    BY <1>5, ObjectChanges
  <2>2. Filled(r, Of(s), book) /\ Covered(r, object[s])
    BY <1>2, <2>1, UploadFilled
  <2>3. k \in Kinds /\ "idx" \in Kinds /\ "data" \in Kinds /\ "meta" \in Kinds
    BY DEF Kinds
  <2>4. e \in r.buf["idx"].recs
    BY <1>1, <2>1, <2>2, <2>3 DEF Covered
  <2>5. e.put \in Of(s)
    BY <2>2, <2>4 DEF Filled
  <2>6. r.buf[k].head = s /\ \E f \in r.buf[k].recs : f.put = e.put
    <3>1. /\ \A j \in Kinds : r.buf[j].head = r.sid
          /\ [at |-> book[e.put].off, put |-> e.put] \in r.buf["data"].recs
          /\ [at |-> book[e.put].moff, put |-> e.put] \in r.buf["meta"].recs
      BY <2>2, <2>5, FilledHolds
    <3> QED BY <2>1, <2>3, <3>1
  <2>7. CASE r.kind \in {k, "idx"}
    <3>1. object'[s][k] = r.buf[k]
      BY <2>1, <2>2, <2>3, <2>7 DEF Covered
    <3> QED BY <2>6, <3>1
  <2>8. CASE r.kind \notin {k, "idx"}
    BY <1>1, <1>3, <2>1, <2>3, <2>8
  <2> QED BY <2>7, <2>8
<1> QED BY <1>4, <1>5

(* The buffers and the stack of another writer.                            *)
LEMMA BufferOKOthers ==
  ASSUME IInv, NEW w \in Writers, Step(w), NEW v \in Writers, v # w
  PROVE  BufferOK(v)'
<1> DEFINE r == writer[v]
           s == r.sid
<1>1. WriterStep(w) /\ BookStep(w) /\ StacksOK' /\ BufferOK(v) /\ CallOK(r, puts)
  BY StacksOKNext DEF Step, IInv
<1>2. writer'[v] = r
  BY <1>1 DEF WriterStep
<1>3. SUFFICES ASSUME s # 0, ~Spoiled(s, "rotation")'
               PROVE  \/ /\ r.pc \in {"idle", "upload"}
                         /\ Filled(r, Of(s)', book')
                         /\ Covered(r, object'[s])
                         /\ r.closed /\ r.pc = "idle" => Spoiled(s, "close")'
                      \/ /\ r.pc = "resolve" \/ (r.pc = "idle" /\ r.closed)
                         /\ \A n \in acked' : book'[n].sid = s => Published(n)'
  BY <1>2 DEF BufferOK
<1>4. s \in Sids /\ s # writer[w].sid /\ s # writer'[w].sid
  BY <1>1, <1>2, <1>3 DEF StacksOK, CallOK, IInv
<1>5. object'[s] = object[s]
  BY <1>4, ObjectChanges
<1>6. \A n \in acked' : book'[n].sid = s => n \in acked
  BY <1>1, <1>4 DEF BookStep
<1>7. Of(s)' = Of(s) /\ \A n \in Of(s) : book'[n] = book[n]
  <2>1. acked \subseteq acked' /\ \A n \in acked : book'[n] = book[n]
    BY <1>1 DEF BookStep
  <2> HIDE DEF s
  <2>2. Of(s)' = {n \in acked' : book'[n].sid = s'} /\ s' = s
    BY <1>2 DEF Of, s
  <2> QED BY <1>6, <2>1, <2>2 DEF Of
<1>8. ~Spoiled(s, "rotation") /\ (Spoiled(s, "close") => Spoiled(s, "close")')
  <2>1. spoiled \subseteq spoiled'
    BY DEF Step, ObjectStep
  <2> QED BY <1>2, <1>3, <2>1 DEF Spoiled
<1>9. CASE /\ r.pc \in {"idle", "upload"}
           /\ Filled(r, Of(s), book)
           /\ Covered(r, object[s])
           /\ r.closed /\ r.pc = "idle" => Spoiled(s, "close")
  <2>1. Filled(r, Of(s)', book')
    BY <1>7, <1>9 DEF Filled
  <2> QED BY <1>5, <1>8, <1>9, <2>1
<1>10. CASE /\ r.pc = "resolve" \/ (r.pc = "idle" /\ r.closed)
            /\ \A n \in acked : book[n].sid = s => Published(n)
  <2>1. ASSUME NEW n \in acked', book'[n].sid = s PROVE Published(n)'
    <3>1. n \in acked /\ book'[n] = book[n]
      BY <1>1, <1>6, <2>1 DEF BookStep
    <3>2. Published(n)
      BY <1>10, <2>1, <3>1
    <3> QED BY <1>5, <2>1, <3>1, <3>2 DEF Published
  <2> QED BY <1>10, <2>1
<1> QED BY <1>1, <1>3, <1>8, <1>9, <1>10 DEF BufferOK
(* A step that leaves the buffers as they are.                             *)
LEMMA BuffersStand ==
  ASSUME IInv, NEW w \in Writers, UNCHANGED <<book, acked>>,
         writer'[w].sid = writer[w].sid, writer'[w].buf = writer[w].buf,
         writer'[w].off = writer[w].off, writer'[w].moff = writer[w].moff,
         writer'[w].pc \in {"idle", "upload"},
         <<writer[w].sid, "rotation">> \notin spoiled' =>
           /\ Filled(writer[w], Of(writer[w].sid), book)
           /\ Covered(writer'[w], object'[writer[w].sid])
           /\ writer'[w].closed /\ writer'[w].pc = "idle"
                => <<writer[w].sid, "close">> \in spoiled'
  PROVE  BufferOK(w)'
<1> DEFINE q == writer'[w]
           s == writer[w].sid
<1>1. CASE <<s, "rotation">> \in spoiled'
  BY <1>1 DEF BufferOK, Spoiled
<1>2. CASE <<s, "rotation">> \notin spoiled'
  <2>1. Filled(writer[w], Of(s), book)
    BY <1>2
  <2>2. {n \in acked' : book'[n].sid = q.sid} = Of(s)
    BY DEF Of
  <2>3. Filled(q, {n \in acked' : book'[n].sid = q.sid}, book')
    BY <2>1, <2>2 DEF Filled
  <2> QED BY <1>2, <2>3 DEF BufferOK, Spoiled, Of
<1> QED BY <1>1, <1>2

(* A writer being opened has no stack yet.                                 *)
LEMMA OpenBuffers ==
  ASSUME IInv, NEW w \in Writers, Open(w) PROVE BufferOK(w)'
<1>1. writer[w] \in Writer /\ writer[w].sid = 0
  BY DEF IInv, TypeOK, CallOK, Open, At
<1>2. writer'[w].sid = 0
  BY <1>1 DEF Open, Becomes, IInv, TypeOK, Writer
<1> QED BY <1>2 DEF BufferOK

(* Nor has a dead one.                                                     *)
LEMMA DieBuffers ==
  ASSUME IInv, NEW w \in Writers, Die(w) PROVE BufferOK(w)'
<1>1. writer'[w].sid = 0
  BY DEF Die, Becomes, Fresh, IInv, TypeOK
<1> QED BY <1>1 DEF BufferOK

(* A second close changes no buffer.                                       *)
LEMMA CloseAgainBuffers ==
  ASSUME IInv, NEW w \in Writers, CloseAgain(w) PROVE BufferOK(w)'
<1>1. UNCHANGED <<object, writer, book, puts, acked, spoiled, nextId, faults>>
  BY DEF CloseAgain
<1>2. BufferOK(w)
  BY DEF IInv
<1>3. BufferOK(w)' <=> BufferOK(w)
  BY <1>1 DEF BufferOK, Of, Filled, Covered, Published, Spoiled
<1> QED BY <1>2, <1>3

(* A rotation that fails after its upload spoils the stack.                *)
LEMMA ResolveFailsBuffers ==
  ASSUME IInv, NEW w \in Writers, ResolveFails(w) PROVE BufferOK(w)'
<1> DEFINE r == writer[w]
<1>1. r \in Writer /\ r.call \in {"open", "put"} /\ writer \in [Writers -> Writer]
  BY DEF IInv, TypeOK, ResolveFails
<1>2. CASE r.call = "open"
  <2>1. writer'[w].sid = 0
    BY <1>1, <1>2 DEF ResolveFails, Becomes, Fresh
  <2> QED BY <2>1 DEF BufferOK
<1>3. CASE r.call = "put"
  <2>1. writer'[w] = Returned(r) /\ spoiled' = spoiled \cup {<<r.sid, "rotation">>}
    BY <1>1, <1>3 DEF ResolveFails, Becomes
  <2>2. writer'[w].sid = r.sid
    BY <1>1, <2>1, ReturnedFields
  <2>3. <<writer'[w].sid, "rotation">> \in spoiled'
    BY <2>1, <2>2
  <2> QED BY <2>3 DEF BufferOK, Spoiled
<1> QED BY <1>1, <1>2, <1>3

(* A writer that is idle and not closed has everything in its buffers.     *)
LEMMA IdleFilled ==
  ASSUME IInv, NEW w \in Writers, writer[w].pc = "idle", ~writer[w].closed,
         ~Spoiled(writer[w].sid, "rotation")
  PROVE  /\ Filled(writer[w], Of(writer[w].sid), book)
         /\ Covered(writer[w], object[writer[w].sid])
<1>1. CallOK(writer[w], puts) /\ BufferOK(w)
  BY DEF IInv
<1> QED BY <1>1 DEF BufferOK, CallOK

(* A rotation starts from full buffers.                                    *)
LEMMA PutRotatesBuffers ==
  ASSUME IInv, NEW w \in Writers, NEW n \in Sizes, Put(w, n), NeedsRotation(w, n)
  PROVE  BufferOK(w)'
<1> DEFINE r == writer[w]
           q == [r EXCEPT !.pc = "upload", !.call = "put", !.size = n, !.put = puts + 1]
<1>1. r \in Writer /\ CallOK(r, puts) /\ r.pc = "idle" /\ ~r.closed
  BY DEF IInv, TypeOK, Put, At
<1>2. /\ q.sid = r.sid /\ q.off = r.off /\ q.moff = r.moff /\ q.buf = r.buf
      /\ q.kind = r.kind /\ q.pc = "upload"
  BY <1>1 DEF Writer
<1> HIDE DEF q
<1>3. writer'[w] = q /\ UNCHANGED <<object, book, acked, spoiled>>
  BY DEF Put, Becomes, IInv, TypeOK, q
<1>4. ASSUME <<r.sid, "rotation">> \notin spoiled'
      PROVE  Filled(r, Of(r.sid), book) /\ Covered(q, object'[r.sid])
  <2>1. ~Spoiled(r.sid, "rotation")
    BY <1>3, <1>4 DEF Spoiled
  <2>2. Filled(r, Of(r.sid), book) /\ Covered(r, object[r.sid])
    BY <1>1, <2>1, IdleFilled
  <2> QED BY <1>2, <1>3, <2>2 DEF Covered
<1> QED BY <1>2, <1>3, <1>4, BuffersStand

(* So does a close.                                                        *)
LEMMA CloseBuffers ==
  ASSUME IInv, NEW w \in Writers, Close(w) PROVE BufferOK(w)'
<1> DEFINE r == writer[w]
           q == [r EXCEPT !.pc = "upload", !.call = "close", !.closed = TRUE]
<1>1. r \in Writer /\ CallOK(r, puts) /\ r.pc = "idle" /\ ~r.closed
  BY DEF IInv, TypeOK, Close, At
<1>2. /\ q.sid = r.sid /\ q.off = r.off /\ q.moff = r.moff /\ q.buf = r.buf
      /\ q.kind = r.kind /\ q.pc = "upload"
  BY <1>1 DEF Writer
<1> HIDE DEF q
<1>3. writer'[w] = q /\ UNCHANGED <<object, book, acked, spoiled>>
  BY DEF Close, Becomes, IInv, TypeOK, q
<1>4. ASSUME <<r.sid, "rotation">> \notin spoiled'
      PROVE  Filled(r, Of(r.sid), book) /\ Covered(q, object'[r.sid])
  <2>1. ~Spoiled(r.sid, "rotation")
    BY <1>3, <1>4 DEF Spoiled
  <2>2. Filled(r, Of(r.sid), book) /\ Covered(r, object[r.sid])
    BY <1>1, <2>1, IdleFilled
  <2> QED BY <1>2, <1>3, <2>2 DEF Covered
<1> QED BY <1>2, <1>3, <1>4, BuffersStand
(* A failed upload keeps the buffers (writer_s3.rs:142-166).               *)
LEMMA UploadFailsBuffers ==
  ASSUME IInv, NEW w \in Writers, UploadFails(w) PROVE BufferOK(w)'
<1> DEFINE r == writer[w]
           q == Returned(r)
           s == r.sid
<1>1. /\ r \in Writer /\ CallOK(r, puts) /\ r.pc = "upload" /\ s \in Sids /\ TypeOK
      /\ writer \in [Writers -> Writer] /\ r.kind \in Kinds
  BY DEF IInv, TypeOK, UploadFails, At, CallOK, Writer
<1>2. /\ q.sid = s /\ q.off = r.off /\ q.moff = r.moff /\ q.buf = r.buf
      /\ q.kind = "data" /\ q.pc = "idle" /\ q.closed = r.closed
  BY <1>1, ReturnedFields
<1> HIDE DEF q
<1>3. /\ writer'[w] = q /\ UNCHANGED <<book, acked>>
      /\ object' \in {object, Shipped(r)}
      /\ r.call = "close" => <<s, "close">> \in spoiled'
      /\ spoiled \subseteq spoiled'
  BY <1>1 DEF UploadFails, AfterFailure, Becomes, Shipped, q
<1>4. q.closed => <<s, "close">> \in spoiled'
  BY <1>1, <1>2, <1>3 DEF CallOK
<1>5. ASSUME <<s, "rotation">> \notin spoiled'
      PROVE  Filled(r, Of(s), book) /\ Covered(q, object'[s])
  <2>1. Filled(r, Of(s), book) /\ Covered(r, object[s])
    BY <1>1, <1>3, <1>5, UploadFilled DEF Spoiled
  <2>2. \A k \in Kinds : object'[s][k] = object[s][k] \/ object'[s][k] = r.buf[k]
    BY <1>1, <1>3, ShippedFields
  <2>3. \A k \in Kinds : object'[s][k].recs \subseteq q.buf[k].recs
    BY <1>2, <2>1, <2>2 DEF Covered
  <2> QED BY <1>2, <2>1, <2>3 DEF Covered
<1> QED BY <1>2, <1>3, <1>4, <1>5, BuffersStand

(* An upload clears the buffers only when all three objects are there.     *)
LEMMA UploadBuffers ==
  ASSUME IInv, NEW w \in Writers, Upload(w) PROVE BufferOK(w)'
<1> DEFINE r == writer[w]
           q == writer'[w]
           s == r.sid
<1>1. /\ r \in Writer /\ CallOK(r, puts) /\ r.pc = "upload" /\ s \in Sids /\ TypeOK
      /\ r.kind \in Kinds /\ q.sid = s /\ q.off = r.off /\ q.closed = r.closed
  BY UploadBecomes DEF IInv, CallOK, Writer
<1>2. object' = Shipped(r) /\ UNCHANGED <<book, acked, spoiled>>
  BY DEF Upload, Shipped
<1>3. \A k \in Kinds : object'[s][k] = IF k = r.kind THEN r.buf[k] ELSE object[s][k]
  BY <1>1, <1>2, ShippedFields
<1>4. "data" \in Kinds /\ "meta" \in Kinds /\ "idx" \in Kinds
  BY DEF Kinds
<1>5. CASE <<s, "rotation">> \in spoiled
  BY <1>1, <1>2, <1>5 DEF BufferOK, Spoiled
<1>6. CASE <<s, "rotation">> \notin spoiled
  <2>1. Filled(r, Of(s), book) /\ Covered(r, object[s])
    BY <1>1, <1>6, UploadFilled DEF Spoiled
  <2>2. CASE /\ r.kind # "idx" /\ q.pc = "upload" /\ q.kind = NextKind(r.kind)
             /\ q.buf = r.buf /\ q.moff = r.moff
    <3>1. \A k \in Kinds : object'[s][k].recs \subseteq q.buf[k].recs
      BY <1>3, <2>1, <2>2 DEF Covered
    <3>2. q.kind \in {"meta", "idx"} => object'[s]["data"] = q.buf["data"]
      BY <1>1, <1>3, <1>4, <2>1, <2>2 DEF Covered, Kinds
    <3>3. q.kind = "idx" => object'[s]["meta"] = q.buf["meta"]
      BY <1>1, <1>3, <1>4, <2>1, <2>2, KindOrder DEF Covered, Kinds
    <3>4. Covered(q, object'[s])
      BY <3>1, <3>2, <3>3 DEF Covered
    <3> QED BY <1>1, <1>2, <2>1, <2>2, <3>4, BuffersStand
  <2>3. CASE r.kind = "idx" /\ (q.pc = "resolve" \/ (q.pc = "idle" /\ q.closed))
    <3>1. \A k \in Kinds : object'[s][k] = r.buf[k]
      BY <1>3, <1>4, <2>1, <2>3 DEF Covered, Kinds
    <3>2. ASSUME NEW n \in acked, book[n].sid = s PROVE Published(n)'
      <4>1. /\ \A k \in Kinds : r.buf[k].head = s
            /\ [at |-> book[n].off, put |-> n] \in r.buf["data"].recs
            /\ [at |-> book[n].moff, put |-> n] \in r.buf["meta"].recs
            /\ \E e \in r.buf["idx"].recs : e.put = n
        <5>1. n \in Of(s)
          BY <3>2 DEF Of
        <5> QED BY <2>1, <5>1, FilledHolds
      <4> QED BY <1>2, <1>4, <3>1, <3>2, <4>1 DEF Published
    <3> QED BY <1>1, <1>2, <2>3, <3>2 DEF BufferOK
  <2>4. r.call = "close" => r.closed
    BY <1>1 DEF CallOK
  <2> QED BY <1>1, <2>2, <2>3, <2>4, UploadBecomes
<1> QED BY <1>5, <1>6

(* A put that ends in a writer whose buffers hold what was acknowledged.   *)
LEMMA AcknowledgeBuffers ==
  ASSUME IInv, NEW w \in Writers, NEW b \in Writer, NEW n \in Puts, NEW size \in Nat,
         Acknowledge(w, b, n, size), n \notin acked, UNCHANGED object, ~b.closed,
         spoiled \subseteq spoiled',
         <<b.sid, "rotation">> \notin spoiled =>
           Filled(b, Of(b.sid), book) /\ \A k \in Kinds : object[b.sid][k].recs \subseteq b.buf[k].recs
  PROVE  BufferOK(w)'
<1> DEFINE q == writer'[w]
           s == b.sid
<1>1. /\ q = Returned(Recorded(b, n, size)) /\ q.pc = "idle" /\ q.kind = "data"
      /\ q.sid = s /\ q.closed = b.closed /\ acked' = acked \cup {n}
      /\ \A m \in Puts : m # n => book'[m] = book[m]
      /\ book'[n].sid = s /\ book'[n].off = b.off /\ book'[n].moff = b.moff
  BY AcknowledgeFields
<1>2. acked \subseteq Puts
  BY BoundsAssumption DEF IInv, TypeOK, Puts
<1>3. CASE <<s, "rotation">> \in spoiled'
  BY <1>1, <1>3 DEF BufferOK, Spoiled
<1>4. CASE <<s, "rotation">> \notin spoiled'
  <2>1. Filled(b, Of(s), book) /\ \A k \in Kinds : object[s][k].recs \subseteq b.buf[k].recs
    BY <1>4
  <2>2. n \notin Of(s) /\ \A m \in Of(s) : book'[m] = book[m]
    BY <1>1, <1>2 DEF Of
  <2>3. Filled(q, Of(s) \cup {n}, book')
    BY <1>1, <2>1, <2>2, FilledGrows
  <2>4. {m \in acked' : book'[m].sid = q.sid} = Of(s) \cup {n}
    BY <1>1, <1>2, <2>2 DEF Of
  <2>5. \A k \in Kinds : b.buf[k].recs \subseteq q.buf[k].recs
    <3>1. \A k \in Kinds : b.buf[k] \in Blob
      BY DEF Writer
    <3>2. q.buf = [k \in Kinds |-> Appended(b.buf[k], n, EntrySize(k, size))]
      BY <1>1, RecordedFields, ReturnedFields
    <3>3. ASSUME NEW k \in Kinds PROVE b.buf[k].recs \subseteq q.buf[k].recs
      <4>1. q.buf[k] = Appended(b.buf[k], n, EntrySize(k, size)) /\ b.buf[k] \in Blob
        BY <3>1, <3>2
      <4> QED BY <4>1 DEF Appended, Blob
    <3> QED BY <3>3
  <2>6. Covered(q, object'[s])
    BY <1>1, <2>1, <2>5 DEF Covered
  <2>7. Filled(q, {m \in acked' : book'[m].sid = q.sid}, book')
    BY <2>3, <2>4
  <2> QED BY <1>1, <2>6, <2>7 DEF BufferOK, Of
<1> QED BY <1>3, <1>4
(* A put that fits goes into the buffers of its stack.                     *)
LEMMA PutFitsBuffers ==
  ASSUME IInv, NEW w \in Writers, NEW size \in Sizes,
         Put(w, size), ~NeedsRotation(w, size)
  PROVE  BufferOK(w)'
<1>1. Acknowledge(w, writer[w], puts + 1, size)
  BY PutFitsStep
<1>2. /\ writer[w] \in Writer /\ writer[w].pc = "idle" /\ ~writer[w].closed
      /\ UNCHANGED <<object, spoiled>>
  BY DEF IInv, TypeOK, Put, At
<1>3. puts + 1 \in Puts /\ puts + 1 \notin acked /\ size \in Nat
  BY BoundsAssumption, SizesAssumption DEF Put, IInv, TypeOK, Puts
<1>4. <<writer[w].sid, "rotation">> \notin spoiled =>
        /\ Filled(writer[w], Of(writer[w].sid), book)
        /\ \A k \in Kinds : object[writer[w].sid][k].recs \subseteq writer[w].buf[k].recs
  BY <1>2, IdleFilled DEF Spoiled, Covered
<1> QED BY <1>1, <1>2, <1>3, <1>4, AcknowledgeBuffers

(* A new stack is empty: in the buffers, in the bucket and in the book.    *)
LEMMA NextStackFilled ==
  ASSUME IInv, NEW r \in Writer, nextId \in Sids
  PROVE  /\ Of(nextId) = {}
         /\ Filled(NextStack(r, nextId), {}, book)
         /\ \A k \in Kinds : object[nextId][k].recs = {}
<1> DEFINE b == NextStack(r, nextId)
<1>1. nextId \in Nat
  BY DEF Sids
<1>2. /\ b.sid = nextId /\ b.off = HeadSize("data") /\ b.moff = HeadSize("meta")
      /\ b.buf = [k \in Kinds |-> Headed(k, nextId)]
  BY <1>1, NextStackFields
<1> HIDE DEF b
<1>3. /\ Headed("data", nextId).len = HeadSize("data")
      /\ Headed("meta", nextId).len = HeadSize("meta")
      /\ \A k \in Kinds : Headed(k, nextId).head = nextId /\ Headed(k, nextId).recs = {}
  BY DEF Headed
<1>4. Filled(b, {}, book)
  BY <1>2, <1>3 DEF Filled, Kinds
<1>5. Of(nextId) = {}
  BY <1>1 DEF Of, IInv, BookOK, Sids
<1>6. \A k \in Kinds : object[nextId][k].recs = {}
  BY <1>1 DEF IInv, StacksOK, NoObject
<1> QED BY <1>4, <1>5, <1>6 DEF b

(* A new stack starts with buffers that hold nothing.                      *)
LEMMA ResolveOpenBuffers ==
  ASSUME IInv, NEW w \in Writers, Resolve(w), writer[w].call = "open"
  PROVE  BufferOK(w)'
<1> DEFINE r == writer[w]
           b == NextStack(r, nextId)
           q == writer'[w]
<1>1. /\ r \in Writer /\ ~r.closed /\ nextId \in Sids /\ nextId \in Nat
      /\ writer \in [Writers -> Writer]
  BY DEF IInv, TypeOK, CallOK, Resolve
<1>2. q = Returned(b) /\ UNCHANGED <<object, book, acked, spoiled>>
  BY <1>1 DEF Resolve, Becomes
<1>3. b \in Writer /\ b.sid = nextId /\ b.closed = r.closed
  BY <1>1, NextStackFields
<1>4. /\ Of(nextId) = {} /\ Filled(b, {}, book)
      /\ \A k \in Kinds : object[nextId][k].recs = {}
  BY <1>1, NextStackFilled
<1> HIDE DEF b
<1>5. /\ q.pc = "idle" /\ q.kind = "data" /\ q.closed = r.closed /\ q.sid = nextId
      /\ q.buf = b.buf /\ q.off = b.off /\ q.moff = b.moff
  BY <1>2, <1>3, ReturnedFields
<1> HIDE DEF q
<1>6. Filled(q, {}, book)
  BY <1>3, <1>4, <1>5 DEF Filled
<1>7. Covered(q, object[nextId])
  BY <1>4, <1>5 DEF Covered
<1>8. {n \in acked' : book'[n].sid = nextId} = {}
  BY <1>2, <1>4 DEF Of
<1>9. Filled(q, {n \in acked' : book'[n].sid = nextId}, book')
  BY <1>2, <1>6, <1>8
<1> QED BY <1>1, <1>2, <1>5, <1>7, <1>9 DEF BufferOK, Of, q

(* And a put that rotated is the first in them.                            *)
LEMMA ResolvePutBuffers ==
  ASSUME IInv, NEW w \in Writers, Resolve(w), writer[w].call = "put"
  PROVE  BufferOK(w)'
<1> DEFINE r == writer[w]
           b == NextStack(r, nextId)
<1>1. /\ r \in Writer /\ ~r.closed /\ nextId \in Sids /\ nextId \in Nat
      /\ r.put \in Puts /\ r.put \notin acked /\ r.size \in Nat
  BY DEF IInv, TypeOK, CallOK, Resolve
<1>2. Acknowledge(w, b, r.put, r.size) /\ UNCHANGED <<object, spoiled>>
  BY DEF Resolve
<1>3. b \in Writer /\ b.sid = nextId /\ b.closed = r.closed
  BY <1>1, NextStackFields
<1>4. /\ Of(nextId) = {} /\ Filled(b, {}, book)
      /\ \A k \in Kinds : object[nextId][k].recs = {}
  BY <1>1, NextStackFilled
<1> HIDE DEF b
<1> QED BY <1>1, <1>2, <1>3, <1>4, AcknowledgeBuffers

(* So the buffers are right after every step of w.                         *)
LEMMA BufferOKNext ==
  ASSUME IInv, NEW w \in Writers,
         \/ Open(w) \/ Resolve(w) \/ ResolveFails(w)
         \/ \E n \in Sizes : Put(w, n)
         \/ Close(w) \/ CloseAgain(w) \/ Upload(w) \/ UploadFails(w) \/ Die(w)
  PROVE  BufferOK(w)'
<1>1. Resolve(w) => writer[w].call \in {"open", "put"}
  BY DEF Resolve
<1> QED BY <1>1, OpenBuffers, ResolveOpenBuffers, ResolvePutBuffers, ResolveFailsBuffers,
           PutFitsBuffers, PutRotatesBuffers, CloseBuffers, CloseAgainBuffers,
           UploadBuffers, UploadFailsBuffers, DieBuffers

(* A writer leaves a stack only after its upload.                          *)
LEMMA RotatedOKNext ==
  ASSUME IInv, NEW w \in Writers, Step(w) PROVE RotatedOK'
<1> DEFINE r == writer[w]
           q == writer'[w]
<1>1. WriterStep(w) /\ BookStep(w)
  BY DEF Step
<1>2. SUFFICES ASSUME NEW n \in acked', writer'[book'[n].by].pc # "dead",
                      writer'[book'[n].by].sid # book'[n].sid,
                      <<book'[n].sid, "rotation">> \notin spoiled'
               PROVE  Published(n)'
  BY DEF RotatedOK, At, Spoiled
<1>3. n \in acked
  BY <1>1, <1>2 DEF BookStep
<1>4. book'[n] = book[n] /\ book[n].by \in Writers /\ book[n].sid \in Sids
  BY <1>1, <1>3 DEF BookStep, IInv, BookOK
<1>5. ~Spoiled(book[n].sid, "rotation")
  BY <1>2, <1>4 DEF Step, ObjectStep, Spoiled
<1>6. Published(n)
  <2>1. CASE book[n].by # w
    <3>1. writer'[book[n].by] = writer[book[n].by]
      BY <1>1, <1>4, <2>1 DEF WriterStep
    <3> QED BY <1>2, <1>3, <1>4, <1>5, <3>1 DEF IInv, RotatedOK, At
  <2>2. CASE book[n].by = w /\ r.sid # book[n].sid
    <3>1. r.pc # "dead"
      BY <1>1 DEF WriterStep
    <3> QED BY <1>3, <1>5, <2>2, <3>1 DEF IInv, RotatedOK, At
  <2>3. CASE book[n].by = w /\ r.sid = book[n].sid
    <3>1. r.pc = "resolve" /\ r.sid # 0
      BY <1>1, <1>2, <1>4, <2>3 DEF WriterStep, Sids
    <3>2. BufferOK(w)
      BY DEF IInv
    <3> QED BY <1>3, <1>5, <2>3, <3>1, <3>2 DEF BufferOK
  <2> QED BY <2>1, <2>2, <2>3
<1> QED BY <1>3, <1>5, <1>6, PublishedKept

(* Close promises what is published.                                       *)
LEMMA ClosedPublishedNext ==
  ASSUME IInv, NEW w \in Writers, Step(w), BufferOK(w)' PROVE ClosedPublished'
<1> DEFINE q == writer'[w]
<1>1. BookStep(w) /\ RotatedOK' /\ TypeOK'
  BY RotatedOKNext, TypeOKNext DEF Step
<1>2. SUFFICES ASSUME NEW n \in promised', <<book'[n].sid, "rotation">> \notin spoiled',
                      <<book'[n].sid, "close">> \notin spoiled'
               PROVE  Published(n)'
  BY DEF ClosedPublished, Spoiled
<1>3. CASE n \in promised
  <2>1. n \in acked /\ book'[n] = book[n]
    BY <1>1, <1>3 DEF BookStep, IInv, TypeOK
  <2>2. ~Spoiled(book[n].sid, "rotation") /\ ~Spoiled(book[n].sid, "close")
    BY <1>2, <2>1 DEF Step, ObjectStep, Spoiled
  <2>3. Published(n)
    BY <1>3, <2>2 DEF IInv, ClosedPublished
  <2> QED BY <2>1, <2>2, <2>3, PublishedKept
<1>4. CASE n \notin promised
  <2>1. /\ n \in acked' /\ book'[n] = book[n] /\ book[n].by = w
        /\ q.closed /\ q.pc = "idle" /\ n \in acked
    BY <1>1, <1>4 DEF BookStep
  <2>2. CASE q.sid # book'[n].sid
    BY <1>1, <1>2, <2>1, <2>2 DEF RotatedOK, At, Spoiled
  <2>3. CASE q.sid = book'[n].sid
    <3>1. q.sid # 0
      BY <2>1, <2>3 DEF IInv, BookOK, Sids
    <3> QED BY <1>2, <2>1, <2>3, <3>1 DEF BufferOK, Spoiled
  <2> QED BY <2>2, <2>3
<1> QED BY <1>3, <1>4
-----------------------------------------------------------------------------
(* The inductive invariant holds at the start.                             *)
LEMMA InitInv ==
  ASSUME Init PROVE IInv
<1>1. \A w \in Writers : writer[w] = Fresh
  BY DEF Init
<1>2. /\ Fresh \in Writer /\ Fresh.pc = "new" /\ Fresh.call = "none" /\ Fresh.sid = 0
      /\ Fresh.kind = "data" /\ ~Fresh.closed
  <2>1. [k \in Kinds |-> Cleared] \in [Kinds -> Blob]
    BY DEF Cleared, Blob
  <2> QED BY <2>1 DEF Fresh, Writer, Kinds
<1>3. TypeOK
  <2>1. NoObject \in Blob
    BY DEF NoObject, Blob
  <2>2. [sid |-> 0, off |-> 0, moff |-> 0, size |-> 0, by |-> "none"] \in Booked
    BY DEF Booked
  <2>3. object \in [Sids -> [Kinds -> Blob]] /\ book \in [Puts -> Booked]
    BY <2>1, <2>2 DEF Init
  <2> QED BY <1>1, <1>2, <2>3, BoundsAssumption DEF Init, TypeOK
<1>4. \A w \in Writers : CallOK(writer[w], puts)
  BY <1>1, <1>2 DEF CallOK
<1>5. NumbersOK /\ BookOK /\ RotatedOK /\ ClosedPublished /\ AckedIdsUnique
  BY <1>1, <1>2 DEF Init, NumbersOK, BookOK, RotatedOK, ClosedPublished, AckedIdsUnique
<1>6. StacksOK
  BY <1>1, <1>2 DEF Init, StacksOK
<1>7. \A w \in Writers : BufferOK(w)
  BY <1>1, <1>2 DEF BufferOK
<1>8. IndexAfterData
  BY DEF Init, IndexAfterData, NoObject, Kinds
<1> QED BY <1>3, <1>4, <1>5, <1>6, <1>7, <1>8 DEF IInv

(* Every step keeps the inductive invariant.                               *)
LEMMA NextInv ==
  ASSUME IInv, [Next]_vars PROVE IInv'
<1>1. CASE Next
  <2>1. PICK w \in Writers :
          \/ Open(w) \/ Resolve(w) \/ ResolveFails(w)
          \/ \E n \in Sizes : Put(w, n)
          \/ Close(w) \/ CloseAgain(w) \/ Upload(w) \/ UploadFails(w) \/ Die(w)
    BY <1>1 DEF Next
  <2>2. Step(w)
    BY <2>1, EveryStep
  <2>3. \A v \in Writers : BufferOK(v)'
    BY <2>1, <2>2, BufferOKNext, BufferOKOthers
  <2>4. TypeOK' /\ \A v \in Writers : CallOK(writer'[v], puts')
    BY <2>2, TypeOKNext
  <2>5. NumbersOK' /\ StacksOK' /\ BookOK' /\ RotatedOK'
    BY <2>2, NumbersOKNext, StacksOKNext, BookOKNext, RotatedOKNext
  <2>6. IndexAfterData' /\ ClosedPublished' /\ AckedIdsUnique'
    BY <2>2, <2>3, IndexAfterDataNext, ClosedPublishedNext, AckedIdsUniqueNext
  <2> QED BY <2>3, <2>4, <2>5, <2>6 DEF IInv
<1>2. CASE UNCHANGED vars
  <2>1. UNCHANGED <<object, writer, book, puts, acked, promised, spoiled, nextId, faults>>
    BY <1>2 DEF vars
  <2>2. TypeOK' /\ NumbersOK' /\ StacksOK' /\ BookOK' /\ AckedIdsUnique'
    BY <2>1 DEF IInv, TypeOK, NumbersOK, StacksOK, BookOK, AckedIdsUnique
  <2>3. \A w \in Writers : CallOK(writer'[w], puts')
    BY <2>1 DEF IInv
  <2>4. \A n : Published(n)' <=> Published(n)
    BY <2>1 DEF Published
  <2>5. \A s, why : <<s, why>> \in spoiled' <=> Spoiled(s, why)
    BY <2>1 DEF Spoiled
  <2>6. RotatedOK' /\ IndexAfterData' /\ ClosedPublished'
    BY <2>1, <2>4, <2>5 DEF IInv, RotatedOK, IndexAfterData, ClosedPublished, Spoiled, At
  <2>7. ASSUME NEW w \in Writers PROVE BufferOK(w)'
    <3>1. BufferOK(w)' <=> BufferOK(w)
      BY <2>1 DEF BufferOK, Of, Filled, Covered, Published, Spoiled
    <3> QED BY <3>1 DEF IInv
  <2> QED BY <2>2, <2>3, <2>6, <2>7 DEF IInv
<1> QED BY <1>1, <1>2

(* The inductive invariant holds throughout.                               *)
THEOREM Invariance == Spec => []IInv
BY InitInv, NextInv, PTL DEF Spec

(* Type correctness; a call in progress has something to return to.        *)
THEOREM SpecTypeOK == Spec => []TypeOK
<1>1. IInv => TypeOK
  BY DEF IInv
<1> QED BY <1>1, Invariance, PTL

(* Whatever fails, and wherever, an index in the bucket lists only records *)
(* whose payload and meta line are there (writer_s3.rs:142-166).           *)
THEOREM SpecIndexAfterData == Spec => []IndexAfterData
<1>1. IInv => IndexAfterData
  BY DEF IInv
<1> QED BY <1>1, Invariance, PTL

(* A put that a living writer acknowledged is in the bucket, or in buffers *)
(* that its next rotation or close uploads, unless a rotation of its stack *)
(* failed after the upload or a close of it failed (writer_s3.rs:136-178). *)
THEOREM SpecAckedKept == Spec => []AckedKept
<1>1. ASSUME IInv PROVE AckedKept
  <2>1. SUFFICES ASSUME NEW n \in acked, ~At(book[n].by, "dead"),
                        ~Spoiled(book[n].sid, "rotation"),
                        ~Spoiled(book[n].sid, "close"), ~Published(n)
                 PROVE  Buffered(n) /\ UploadComes(book[n].by)
    BY DEF AckedKept
  <2> DEFINE w == book[n].by
  <2>2. w \in Writers /\ book[n].sid \in Sids
    BY <1>1 DEF IInv, BookOK
  <2>3. writer[w].sid = book[n].sid /\ writer[w].sid # 0
    BY <1>1, <2>1, <2>2 DEF IInv, RotatedOK, Sids
  <2>4. Filled(writer[w], Of(book[n].sid), book) /\ n \in Of(book[n].sid)
    BY <1>1, <2>1, <2>2, <2>3 DEF IInv, BufferOK, Of
  <2>5. /\ \A k \in Kinds : writer[w].buf[k].head = writer[w].sid
        /\ [at |-> book[n].off, put |-> n] \in writer[w].buf["data"].recs
        /\ [at |-> book[n].moff, put |-> n] \in writer[w].buf["meta"].recs
        /\ \E e \in writer[w].buf["idx"].recs : e.put = n
    BY <2>4, FilledHolds
  <2>6. /\ writer[w].pc \in {"idle", "upload"}
        /\ writer[w].closed /\ writer[w].pc = "idle" => Spoiled(book[n].sid, "close")
    BY <1>1, <2>1, <2>2, <2>3 DEF IInv, BufferOK
  <2>7. UploadComes(w)
    BY <2>1, <2>6 DEF UploadComes, At
  <2> QED BY <2>3, <2>5, <2>7 DEF Buffered
<1> QED BY <1>1, Invariance, PTL

(* A close that returned Ok has published what its writer acknowledged,    *)
(* unless an earlier close of it failed (writer_s3.rs:290-303).            *)
THEOREM SpecClosedPublished == Spec => []ClosedPublished
<1>1. IInv => ClosedPublished
  BY DEF IInv
<1> QED BY <1>1, Invariance, PTL

(* No two acknowledged puts have the same index_id but for the cookie,     *)
(* failed rotations included (writer_s3.rs:107-134, 285).                  *)
THEOREM SpecAckedIdsUnique == Spec => []AckedIdsUnique
<1>1. IInv => AckedIdsUnique
  BY DEF IInv
<1> QED BY <1>1, Invariance, PTL

(* A put that can be read from the bucket can be read from then on: no     *)
(* retried upload replaces its objects by ones without it                  *)
(* (writer_s3.rs:136-178).                                                 *)
THEOREM SpecPublishedStays == Spec => PublishedStays
<1>1. ASSUME IInv, [Next]_vars
      PROVE  [\A n \in acked : Published(n) /\ ~Spoiled(book[n].sid, "rotation")
                => Published(n)']_vars
  <2>1. CASE Next
    <3>1. PICK w \in Writers : Step(w)
      BY <1>1, <2>1, EveryStep DEF Next
    <3> QED BY <1>1, <3>1, PublishedKept
  <2>2. CASE UNCHANGED vars
    BY <2>2
  <2> QED BY <1>1, <2>1, <2>2
<1> QED BY <1>1, Invariance, PTL DEF Spec, PublishedStays
=============================================================================
