--------------------------- MODULE OpendalWriter ---------------------------
(***************************************************************************)
(* The writer of the core crate (core/src/sdk/bs_opendal_writer.rs) on an  *)
(* object store: opendal writers collect what is written to them and make  *)
(* it an object when they are closed, and nothing of one that is dropped.  *)
(*                                                                         *)
(* A BytestackOpendalWriter keeps at most one InnerWriter, with the three  *)
(* opendal writers of a stack.  A put takes it out, closes it when the     *)
(* stack is full, asks the Controller for the next stack when there is     *)
(* none, writes the record and puts it back; when anything in between      *)
(* fails, or the caller drops the put, the InnerWriter is gone.            *)
(***************************************************************************)
EXTENDS StackFormat, IndexId, FiniteSets, FiniteSetsExt

CONSTANTS
  Writers,    \* the BytestackOpendalWriter objects
  Sizes,      \* payload sizes callers use
  Cookies,    \* the random cookies drawn; two puts may draw the same one
  MaxData,    \* _MAX_DATA_BYTES
  MaxSid,     \* bound on stack ids
  MaxPuts,    \* bound on puts
  MaxFaults   \* bound on failed requests, dropped calls and deaths

Sids == 1 .. MaxSid
Puts == 1 .. MaxPuts

ASSUME SizesAssumption == Sizes \subseteq Nat /\ MaxData \in Nat
ASSUME CookiesAssumption == Cookies \subseteq 0 .. (CookieSpan - 1)
ASSUME BoundsAssumption ==
  MaxSid \in Nat /\ MaxPuts \in Nat /\ MaxFaults \in Nat

VARIABLES
  object,     \* object[s][k]: the object of kind k of stack s
  writer,     \* writer[w]: the writer and the call it is in
  book,       \* book[n]: what put n wrote in its records, and its writer
  puts,       \* number of puts begun
  acked,      \* puts whose index_id was returned
  abandoned,  \* stacks whose InnerWriter was dropped before it was closed
  nextId,     \* the Controller's next_stack_id
  faults

wvars == <<object, writer, book, puts, acked, abandoned, nextId, faults>>

Entry == [at : Nat, put : Puts]

(* What an opendal writer has collected, or the object made from it: the   *)
(* stack id in its magic header, its length, its records.                  *)
Blob == [there : BOOLEAN, head : Nat, len : Nat, recs : SUBSET Entry]

NoObject == [there |-> FALSE, head |-> 0, len |-> 0, recs |-> {}]

Headed(k, s) == [there |-> TRUE, head |-> s, len |-> HeadSize(k), recs |-> {}]

(* inner: an InnerWriter exists, in the mutex or taken by the call; buf,   *)
(* sid, off and moff are its fields.  flushed: the last call was a close   *)
(* that returned Ok.  born: the puts there were when it was made.          *)
Writer ==
  [pc : {"idle", "next", "create", "write", "close"},
   call : {"none", "put", "close"},
   kind : Kinds,
   poisoned : BOOLEAN, flushed : BOOLEAN, inner : BOOLEAN,
   buf : [Kinds -> Blob],
   sid : Nat, off : Nat, moff : Nat, total : Nat,
   size : Nat, put : Nat, born : Nat]

NoBuffers == [k \in Kinds |-> NoObject]

New == [pc |-> "idle", call |-> "none", kind |-> "data",
        poisoned |-> FALSE, flushed |-> FALSE, inner |-> FALSE,
        buf |-> NoBuffers,
        sid |-> 0, off |-> 0, moff |-> 0, total |-> 0, size |-> 0, put |-> 0,
        born |-> 0]

Booked == [sid : Nat, off : Nat, moff : Nat, size : Nat, cookie : Nat,
           by : Writers \cup {"none"}]

Init ==
  /\ object = [s \in Sids |-> [k \in Kinds |-> NoObject]]
  /\ writer = [w \in Writers |-> New]
  /\ book = [n \in Puts |-> [sid |-> 0, off |-> 0, moff |-> 0, size |-> 0,
                             cookie |-> 0, by |-> "none"]]
  /\ puts = 0
  /\ acked = {}
  /\ abandoned = {}
  /\ nextId = 1
  /\ faults = 0

-----------------------------------------------------------------------------
At(w, pc) == writer[w].pc = pc

Becomes(w, r) == writer' = [writer EXCEPT ![w] = r]

Fault == faults < MaxFaults /\ faults' = faults + 1

Returned(r) == [r EXCEPT !.pc = "idle", !.call = "none", !.kind = "data",
                         !.size = 0, !.put = 0]

(* The InnerWriter is dropped, or closed. *)
WithoutInner(r) ==
  [r EXCEPT !.inner = FALSE, !.buf = NoBuffers, !.sid = 0, !.off = 0, !.moff = 0]

(* Mutant of AfterFailure: a failed put puts the InnerWriter back. *)
KeptInner(r) == Returned([r EXCEPT !.total = @ + r.size])

(* Mutant of AfterFailure: the call goes on without its InnerWriter. *)
GoesOn(r) == WithoutInner(r)

(* The `?` of every call: the InnerWriter was taken out of the mutex and   *)
(* is not put back.                                                        *)
AfterFailure(r) == Returned(WithoutInner(r))

Abandons(r) == IF r.inner THEN abandoned \cup {r.sid} ELSE abandoned

-----------------------------------------------------------------------------
(* put *)

Full(r, n) == r.total + n > MaxData

(* A poisoned mutex makes every put panic.  Without an InnerWriter, at the *)
(* first put or after a close or a failure, a new stack is begun.          *)
Put(w, n) ==
  /\ At(w, "idle")
  /\ ~writer[w].poisoned
  /\ puts < MaxPuts
  /\ puts' = puts + 1
  /\ Becomes(w,
       [writer[w] EXCEPT
          !.call = "put", !.size = n, !.put = puts + 1, !.flushed = FALSE,
          !.pc = IF ~writer[w].inner THEN "next"
                 ELSE IF Full(writer[w], n) THEN "close" ELSE "write"])
  /\ UNCHANGED <<object, book, acked, abandoned, nextId, faults>>

NextStackId(w) ==
  /\ At(w, "next")
  /\ nextId \in Sids
  /\ nextId' = nextId + 1
  /\ Becomes(w, [writer[w] EXCEPT !.pc = "create", !.sid = nextId])
  /\ UNCHANGED <<object, book, puts, acked, abandoned, faults>>

(* The Controller may have counted the id all the same. *)
NextStackIdFails(w) ==
  /\ At(w, "next")
  /\ Fault
  /\ nextId' \in {nextId, nextId + 1}
  /\ Becomes(w, AfterFailure(writer[w]))
  /\ abandoned' = Abandons(writer[w])
  /\ UNCHANGED <<object, book, puts, acked>>

(* create_new_writers, and total_size starts again. *)
CreateNewWriters(w) ==
  /\ At(w, "create")
  /\ Becomes(w,
       [writer[w] EXCEPT !.pc = "write", !.inner = TRUE,
          !.buf = [k \in Kinds |-> Headed(k, writer[w].sid)],
          !.off = HeadSize("data"), !.moff = HeadSize("meta"), !.total = 0])
  /\ UNCHANGED <<object, book, puts, acked, abandoned, nextId, faults>>

(* put unwraps the result while it holds the lock: an error is a panic     *)
(* that poisons the mutex, a dropped call is not.                          *)
CreateFails(w) ==
  /\ At(w, "create")
  /\ Fault
  /\ \E poison \in BOOLEAN :
       Becomes(w, [AfterFailure(writer[w]) EXCEPT !.poisoned = poison])
  /\ UNCHANGED <<object, book, puts, acked, abandoned, nextId>>

Appended(b, n, size) ==
  [b EXCEPT !.len = b.len + size,
            !.recs = b.recs \cup {[at |-> b.len, put |-> n]}]

(* Mutant of DataAdvance: the padding is left out. *)
AdvanceUnpadded(size) == HeaderSize + size

(* Mutant of DataAdvance: the offset stays. *)
NoAdvance(size) == 0

DataAdvance(size) == RecordSize(size)

(* InnerWriter::write: the index record, the meta line, the data record,   *)
(* all into writers nobody else can see; the offsets move on.              *)
Written(r) ==
  [r EXCEPT !.buf = [k \in Kinds |-> Appended(@[k], r.put, EntrySize(k, r.size))],
            !.off = @ + DataAdvance(r.size),
            !.moff = @ + MetaLine,
            !.total = @ + r.size]

Booking(w, cookie) ==
  [sid |-> writer[w].sid, off |-> writer[w].off, moff |-> writer[w].moff,
   size |-> writer[w].size, cookie |-> cookie, by |-> w]

(* The InnerWriter goes back into the mutex and the index_id to the caller. *)
Write(w) ==
  /\ At(w, "write")
  /\ \E cookie \in Cookies :
       book' = [book EXCEPT ![writer[w].put] = Booking(w, cookie)]
  /\ acked' = acked \cup {writer[w].put}
  /\ Becomes(w, Returned(Written(writer[w])))
  /\ UNCHANGED <<object, puts, abandoned, nextId, faults>>

WriteFails(w) ==
  /\ At(w, "write")
  /\ Fault
  /\ Becomes(w, AfterFailure(writer[w]))
  /\ abandoned' = Abandons(writer[w])
  /\ UNCHANGED <<object, book, puts, acked, nextId>>

-----------------------------------------------------------------------------
(* InnerWriter::close, of a put that found the stack full and of close.    *)

Close(w) ==
  /\ At(w, "idle")
  /\ writer[w].inner
  /\ ~writer[w].poisoned
  /\ Becomes(w, [writer[w] EXCEPT !.pc = "close", !.call = "close"])
  /\ UNCHANGED <<object, book, puts, acked, abandoned, nextId, faults>>

(* Without an InnerWriter, or with a poisoned mutex, there is nothing to   *)
(* do and close returns Ok.                                                *)
CloseNothing(w) ==
  /\ At(w, "idle")
  /\ ~writer[w].inner \/ writer[w].poisoned
  /\ Becomes(w, [writer[w] EXCEPT !.flushed = TRUE])
  /\ UNCHANGED <<object, book, puts, acked, abandoned, nextId, faults>>

(* Mutant of NextKind: the index is published before the meta. *)
IndexSecond(k) == IF k = "data" THEN "idx" ELSE "meta"

NextKind(k) == IF k = "data" THEN "meta" ELSE "idx"

(* Mutant of IsLast: close forgets the index. *)
StopsAtMeta(k) == k = "meta"

IsLast(k) == k = NextKind("meta")

Published(w) ==
  [object EXCEPT ![writer[w].sid][writer[w].kind] = writer[w].buf[writer[w].kind]]

(* Closing one opendal writer makes its object.  After the last, a put     *)
(* goes on to the next stack.                                              *)
CloseWriter(w) ==
  LET k == writer[w].kind
      r == writer[w]
  IN  /\ At(w, "close")
      /\ object' = Published(w)
      /\ \/ /\ ~IsLast(k)
            /\ Becomes(w, [r EXCEPT !.kind = NextKind(k)])
         \/ /\ IsLast(k)
            /\ r.call = "put"
            /\ Becomes(w, [WithoutInner(r) EXCEPT !.pc = "next", !.kind = "data"])
         \/ /\ IsLast(k)
            /\ r.call = "close"
            /\ Becomes(w, [Returned(WithoutInner(r)) EXCEPT !.flushed = TRUE])
      /\ UNCHANGED <<book, puts, acked, abandoned, nextId, faults>>

(* The object may be there although the reply was lost. *)
CloseWriterFails(w) ==
  /\ At(w, "close")
  /\ Fault
  /\ object' \in {object, Published(w)}
  /\ Becomes(w, AfterFailure(writer[w]))
  /\ abandoned' = Abandons(writer[w])
  /\ UNCHANGED <<book, puts, acked, nextId>>

(* The process dies; another one makes a new writer. *)
Die(w) ==
  /\ Fault
  /\ Becomes(w, [New EXCEPT !.born = puts])
  /\ abandoned' = Abandons(writer[w])
  /\ UNCHANGED <<object, book, puts, acked, nextId>>

-----------------------------------------------------------------------------
Step(w) ==
  \/ NextStackId(w)
  \/ CreateNewWriters(w)
  \/ Write(w)
  \/ CloseWriter(w)

Failure(w) ==
  \/ NextStackIdFails(w)
  \/ CreateFails(w)
  \/ WriteFails(w)
  \/ CloseWriterFails(w)
  \/ Die(w)

Call(w) ==
  \/ \E n \in Sizes : Put(w, n)
  \/ Close(w)
  \/ CloseNothing(w)

WriterNext == \E w \in Writers : Step(w) \/ Failure(w) \/ Call(w)

WriterSpec == Init /\ [][WriterNext]_wvars

-----------------------------------------------------------------------------
(* Properties. *)

(* Every variable has its type, and only a writer that has an InnerWriter  *)
(* writes or closes (the Option of bs_opendal_writer.rs:149).              *)
TypeOK ==
  /\ object \in [Sids -> [Kinds -> Blob]]
  /\ writer \in [Writers -> Writer]
  /\ book \in [Puts -> Booked]
  /\ puts \in 0 .. MaxPuts
  /\ acked \subseteq Puts
  /\ abandoned \subseteq Sids
  /\ nextId \in Nat \ {0}
  /\ faults \in 0 .. MaxFaults
  /\ \A w \in Writers : writer[w].pc \in {"write", "close"} => writer[w].inner

(* The acknowledged puts of stack s, at the offsets their ids and index    *)
(* records give.                                                           *)
AckedIn(s) == {n \in acked : book[n].sid = s}

Expected(s, k) ==
  IF k = "data" THEN {[at |-> book[n].off, put |-> n] : n \in AckedIn(s)}
  ELSE IF k = "meta" THEN {[at |-> book[n].moff, put |-> n] : n \in AckedIn(s)}
  ELSE object[s]["idx"].recs

(* A published index, the file by which readers find a stack, describes    *)
(* exactly the acknowledged puts of its stack: none more, none less, and   *)
(* their payloads and meta lines are published too, where the index says   *)
(* (InnerWriter::close and write, bs_opendal_writer.rs:37-140).            *)
PublishedWhole ==
  \A s \in Sids : object[s]["idx"].there =>
    /\ {e.put : e \in object[s]["idx"].recs} = AckedIn(s)
    /\ \A k \in Kinds :
         object[s][k].there /\ object[s][k].head = s
           /\ object[s][k].recs = Expected(s, k)

(* Two acknowledged puts never have one stack and offset, though their     *)
(* cookies may be the same (the index_id of bs_opendal_writer.rs:118,139). *)
AckedIdsUnique ==
  \A n, m \in acked :
    book[n].sid = book[m].sid /\ book[n].off = book[m].off => n = m

IsPublished(n) == object[book[n].sid]["idx"].there

Own(w) == {n \in acked : book[n].by = w /\ n > writer[w].born}

(* After a close that returned Ok, every put the writer acknowledged is    *)
(* published, unless its stack was abandoned by a failed call or a death   *)
(* (bs_opendal_writer.rs:268-275).                                         *)
ClosedPublished ==
  \A w \in Writers : writer[w].flushed =>
    \A n \in Own(w) : book[n].sid \notin abandoned => IsPublished(n)

(* Nothing that was published is replaced or changed: stacks have names of *)
(* their own (create_new_writers, bs_opendal_writer.rs:217-266).           *)
PublishedStays ==
  [][\A s \in Sids, k \in Kinds :
       object[s][k].there => object'[s][k] = object[s][k]]_wvars

(* close "flush and close all writer" (bs_opendal_writer.rs:267): after it *)
(* returned Ok, every put it acknowledged is published.                    *)
CloseFlushes ==
  \A w \in Writers : writer[w].flushed =>
    \A n \in Own(w) : IsPublished(n)
=============================================================================
