------------------------------ MODULE S3Writer ------------------------------
(***************************************************************************)
(* The S3 writer of the Rust SDK (sdk/rust/src/writer_s3.rs).  A put goes  *)
(* to three buffers in memory; a rotation or a close uploads each of them  *)
(* as a whole object, `.data`, then `.meta`, then `.idx`, and only a       *)
(* rotation then asks the Controller for the next stack.                   *)
(*                                                                         *)
(* A call runs up to its next `await` without interruption: a put that     *)
(* does not rotate is one step, an upload is one step for each object, and *)
(* so is the Controller's answer.  At each of them the call may fail, with *)
(* or without its effect at the other end, or the process may die.         *)
(***************************************************************************)
EXTENDS StackFormat, FiniteSets

CONSTANTS
  Writers,    \* the S3Writer objects
  Sizes,      \* payload sizes callers use
  MaxData,    \* max_data_bytes
  MaxSid,     \* bound on stack ids
  MaxPuts,    \* bound on puts that are not refused outright
  MaxFaults   \* bound on failed requests and deaths

Sids == 1 .. MaxSid
Puts == 1 .. MaxPuts

ASSUME SizesAssumption == Sizes \subseteq Nat /\ MaxData \in Nat
ASSUME BoundsAssumption ==
  MaxSid \in Nat /\ MaxPuts \in Nat /\ MaxFaults \in Nat

VARIABLES
  object,    \* object[s][k]: the object of kind k of stack s in the bucket
  writer,    \* writer[w]: the S3Writer struct and the call it is in
  book,      \* book[n]: the record fields computed by put n, and its writer
  puts,      \* number of puts begun
  acked,     \* puts whose index_id was returned
  promised,  \* acknowledged puts whose writer's close returned Ok
  spoiled,   \* <<s, why>>: the writer of stack s failed in a way that ...
  nextId,    \* the Controller's next_stack_id
  faults

vars == <<object, writer, book, puts, acked, promised, spoiled, nextId, faults>>

Entry == [at : Nat, put : Puts]

(* A buffer, or the object made from it: the stack id in its magic header  *)
(* (0 if it has none), its length and its records.                         *)
Blob == [there : BOOLEAN, head : Nat, len : Nat, recs : SUBSET Entry]

NoObject == [there |-> FALSE, head |-> 0, len |-> 0, recs |-> {}]

(* A cleared Vec, and one holding a magic header only. *)
Cleared == [there |-> TRUE, head |-> 0, len |-> 0, recs |-> {}]
Headed(k, s) == [there |-> TRUE, head |-> s, len |-> HeadSize(k), recs |-> {}]

Writer ==
  [pc : {"new", "idle", "upload", "resolve", "dead"},
   call : {"none", "open", "put", "close"},
   kind : Kinds,
   closed : BOOLEAN,
   buf : [Kinds -> Blob],
   sid : Nat, off : Nat, moff : Nat, raw : Nat,
   size : Nat, put : Nat]

Fresh == [pc |-> "new", call |-> "none", kind |-> "data", closed |-> FALSE,
          buf |-> [k \in Kinds |-> Cleared],
          sid |-> 0, off |-> 0, moff |-> 0, raw |-> 0, size |-> 0, put |-> 0]

Booked == [sid : Nat, off : Nat, moff : Nat, size : Nat, by : Writers \cup {"none"}]

Init ==
  /\ object = [s \in Sids |-> [k \in Kinds |-> NoObject]]
  /\ writer = [w \in Writers |-> Fresh]
  /\ book = [n \in Puts |->
               [sid |-> 0, off |-> 0, moff |-> 0, size |-> 0, by |-> "none"]]
  /\ puts = 0
  /\ acked = {}
  /\ promised = {}
  /\ spoiled = {}
  /\ nextId = 1
  /\ faults = 0

-----------------------------------------------------------------------------
At(w, pc) == writer[w].pc = pc

Becomes(w, r) == writer' = [writer EXCEPT ![w] = r]

Fault == faults < MaxFaults /\ faults' = faults + 1

Returned(r) == [r EXCEPT !.pc = "idle", !.call = "none", !.kind = "data",
                         !.size = 0, !.put = 0]

(* Mutant of NextStack: the files keep the name of the stack before. *)
StaleName(r, s) ==
  [r EXCEPT !.sid = IF @ = 0 THEN s ELSE @,
            !.off = HeadSize("data"), !.moff = HeadSize("meta"), !.raw = 0,
            !.buf = [k \in Kinds |-> Headed(k, s)]]

(* open_stack, once the Controller has answered: everything is reset. *)
NextStack(r, s) ==
  [r EXCEPT !.sid = s,
            !.off = HeadSize("data"), !.moff = HeadSize("meta"), !.raw = 0,
            !.buf = [k \in Kinds |-> Headed(k, s)]]

Appended(b, n, size) ==
  [b EXCEPT !.len = b.len + size,
            !.recs = b.recs \cup {[at |-> b.len, put |-> n]}]

(* The rest of a put once the stack has room: build the three records and  *)
(* extend the three buffers.                                               *)
Recorded(r, n, size) ==
  [r EXCEPT !.buf = [k \in Kinds |-> Appended(r.buf[k], n, EntrySize(k, size))],
            !.off = @ + RecordSize(size),
            !.moff = @ + MetaLine,
            !.raw = @ + size]

(* The put n of `size` bytes ends in a writer that was r before it was     *)
(* recorded; its index_id goes to the caller.                              *)
Acknowledge(w, r, n, size) ==
  /\ Becomes(w, Returned(Recorded(r, n, size)))
  /\ book' = [book EXCEPT ![n] = [sid |-> r.sid, off |-> r.off,
                                  moff |-> r.moff, size |-> size, by |-> w]]
  /\ acked' = acked \cup {n}

NeedsRotation(w, n) == writer[w].raw + n > MaxData

AckedBy(w) == {n \in acked : book[n].by = w}

-----------------------------------------------------------------------------
Open(w) ==
  /\ At(w, "new")
  /\ Becomes(w, [writer[w] EXCEPT !.pc = "resolve", !.call = "open"])
  /\ UNCHANGED <<object, book, puts, acked, promised, spoiled, nextId, faults>>

(* next_stack_id answers: the stack is open, and a put that rotated goes   *)
(* on at once.                                                             *)
Resolve(w) ==
  LET r == NextStack(writer[w], nextId)
  IN  /\ At(w, "resolve")
      /\ nextId \in Sids
      /\ nextId' = nextId + 1
      /\ \/ /\ writer[w].call = "open"
            /\ Becomes(w, Returned(r))
            /\ UNCHANGED <<book, acked>>
         \/ /\ writer[w].call = "put"
            /\ Acknowledge(w, r, writer[w].put, writer[w].size)
      /\ UNCHANGED <<object, puts, promised, spoiled, faults>>

(* The Controller cannot be reached, or its answer is lost.  A writer that *)
(* was being opened does not come to exist; one that was rotating keeps    *)
(* its cleared buffers, its old name and its old offsets.                  *)
ResolveFails(w) ==
  /\ At(w, "resolve")
  /\ Fault
  /\ nextId' \in {nextId, nextId + 1}
  /\ \/ /\ writer[w].call = "open"
        /\ Becomes(w, [Fresh EXCEPT !.pc = "dead"])
        /\ UNCHANGED spoiled
     \/ /\ writer[w].call = "put"
        /\ Becomes(w, Returned(writer[w]))
        /\ spoiled' = spoiled \cup {<<writer[w].sid, "rotation">>}
  /\ UNCHANGED <<object, book, puts, acked, promised>>

(* A payload longer than a stack is refused and changes nothing, like any  *)
(* put on a closed writer.  One that does not fit into this stack rotates. *)
Put(w, n) ==
  /\ At(w, "idle")
  /\ ~writer[w].closed
  /\ n <= MaxData
  /\ puts < MaxPuts
  /\ puts' = puts + 1
  /\ \/ /\ ~NeedsRotation(w, n)
        /\ Acknowledge(w, writer[w], puts + 1, n)
     \/ /\ NeedsRotation(w, n)
        /\ Becomes(w, [writer[w] EXCEPT !.pc = "upload", !.call = "put",
                                        !.size = n, !.put = puts + 1])
        /\ UNCHANGED <<book, acked>>
  /\ UNCHANGED <<object, promised, spoiled, nextId, faults>>

(* `closed` is set before anything is uploaded. *)
Close(w) ==
  /\ At(w, "idle")
  /\ ~writer[w].closed
  /\ Becomes(w, [writer[w] EXCEPT !.pc = "upload", !.call = "close",
                                  !.closed = TRUE])
  /\ UNCHANGED <<object, book, puts, acked, promised, spoiled, nextId, faults>>

(* A second close returns Ok at once. *)
CloseAgain(w) ==
  /\ At(w, "idle")
  /\ writer[w].closed
  /\ promised' = promised \cup AckedBy(w)
  /\ UNCHANGED <<object, writer, book, puts, acked, spoiled, nextId, faults>>

(* Mutant of NextKind: the index goes first. *)
IndexFirst(k) == IF k = "data" THEN "idx" ELSE "meta"

NextKind(k) == IF k = "data" THEN "meta" ELSE "idx"

(* Mutant of IsLast: the upload stops before the index. *)
StopsEarly(k) == k # "data"

IsLast(k) == k = NextKind("meta")

(* One put_object.  After the last one the buffers are cleared, and a      *)
(* close is over while a rotation asks for the next stack.                 *)
Upload(w) ==
  LET s == writer[w].sid
      k == writer[w].kind
      empty == [writer[w] EXCEPT !.buf = [j \in Kinds |-> Cleared]]
  IN  /\ At(w, "upload")
      /\ object' = [object EXCEPT ![s][k] = writer[w].buf[k]]
      /\ \/ /\ ~IsLast(k)
            /\ Becomes(w, [writer[w] EXCEPT !.kind = NextKind(k)])
            /\ UNCHANGED promised
         \/ /\ IsLast(k)
            /\ writer[w].call = "put"
            /\ Becomes(w, [empty EXCEPT !.pc = "resolve", !.kind = "data"])
            /\ UNCHANGED promised
         \/ /\ IsLast(k)
            /\ writer[w].call = "close"
            /\ Becomes(w, Returned(empty))
            /\ promised' = promised \cup AckedBy(w)
      /\ UNCHANGED <<book, puts, acked, spoiled, nextId, faults>>

(* Mutant of AfterFailure: the buffers are cleared all the same. *)
ClearedOnFailure(r) == [Returned(r) EXCEPT !.buf = [k \in Kinds |-> Cleared]]

(* Mutant of AfterFailure: the upload goes on after the call is over. *)
StillUploading(r) == [r EXCEPT !.call = "none"]

AfterFailure(r) == Returned(r)

(* put_object fails, or its reply is lost, or the caller drops the call:   *)
(* the object may be there.  The buffers stay as they are.                 *)
UploadFails(w) ==
  LET s == writer[w].sid
      k == writer[w].kind
  IN  /\ At(w, "upload")
      /\ Fault
      /\ object' \in {object, [object EXCEPT ![s][k] = writer[w].buf[k]]}
      /\ Becomes(w, AfterFailure(writer[w]))
      /\ spoiled' = IF writer[w].call = "close"
                      THEN spoiled \cup {<<s, "close">>} ELSE spoiled
      /\ UNCHANGED <<book, puts, acked, promised, nextId>>

(* The process dies, or drops the writer without closing it. *)
Die(w) ==
  /\ ~At(w, "new") /\ ~At(w, "dead")
  /\ Fault
  /\ Becomes(w, [Fresh EXCEPT !.pc = "dead"])
  /\ UNCHANGED <<object, book, puts, acked, promised, spoiled, nextId>>

Next ==
  \E w \in Writers :
    \/ Open(w)
    \/ Resolve(w)
    \/ ResolveFails(w)
    \/ \E n \in Sizes : Put(w, n)
    \/ Close(w)
    \/ CloseAgain(w)
    \/ Upload(w)
    \/ UploadFails(w)
    \/ Die(w)

Spec == Init /\ [][Next]_vars

-----------------------------------------------------------------------------
(* Type invariant; a writer in an upload or waiting for an id has a call   *)
(* to return to, and a put in progress a number (writer_s3.rs:51-67).      *)
TypeOK ==
  /\ object \in [Sids -> [Kinds -> Blob]]
  /\ writer \in [Writers -> Writer]
  /\ book \in [Puts -> Booked]
  /\ puts \in 0 .. MaxPuts
  /\ promised \subseteq acked /\ acked \subseteq 1 .. puts
  /\ spoiled \subseteq (Sids \X {"rotation", "close"})
  /\ nextId \in Nat
  /\ faults \in 0 .. MaxFaults
  /\ \A w \in Writers :
       /\ writer[w].pc \in {"upload", "resolve"} => writer[w].call # "none"
       /\ writer[w].call = "put" => writer[w].put \in Puts \ acked

(* Put n can be read back from the bucket: its stack has all three files,  *)
(* under the name the index_id gives, each with its magic header and the   *)
(* record at the offset the index_id, or the index record, names.          *)
Published(n) ==
  LET b == book[n]
      o == object[b.sid]
  IN  /\ \A k \in Kinds : o[k].head = b.sid
      /\ [at |-> b.off, put |-> n] \in o["data"].recs
      /\ [at |-> b.moff, put |-> n] \in o["meta"].recs
      /\ \E e \in o["idx"].recs : e.put = n

(* Put n waits, at its offsets, in the buffers of the writer it was made   *)
(* on.                                                                     *)
Buffered(n) ==
  LET b == book[n]
      r == writer[b.by]
  IN  /\ r.sid = b.sid
      /\ \A k \in Kinds : r.buf[k].head = b.sid
      /\ [at |-> b.off, put |-> n] \in r.buf["data"].recs
      /\ [at |-> b.moff, put |-> n] \in r.buf["meta"].recs
      /\ \E e \in r.buf["idx"].recs : e.put = n

Spoiled(s, why) == <<s, why>> \in spoiled

(* RFC 9: `.data` becomes visible before `.idx`.  Whichever requests fail  *)
(* or take effect unnoticed, an index in the bucket lists only records     *)
(* whose payload and meta line are in the bucket too.  Excepted are stacks *)
(* whose rotation failed after their upload (writer_s3.rs:142-166).        *)
IndexAfterData ==
  \A s \in Sids : ~Spoiled(s, "rotation") =>
    \A e \in object[s]["idx"].recs : \A k \in {"data", "meta"} :
      /\ object[s][k].head = s
      /\ \E f \in object[s][k].recs : f.put = e.put

(* Some upload of what writer w has in its buffers is still to come. *)
UploadComes(w) == ~writer[w].closed \/ At(w, "upload")

(* As long as its writer lives, an acknowledged put is in the bucket, or   *)
(* in the buffers of a writer whose next rotation or close uploads them:   *)
(* no failed upload of a rotation drops it and no rotation goes ahead of   *)
(* its upload (writer_s3.rs:136-178).  Two kinds of stacks are excepted,   *)
(* where the code does lose puts: one whose rotation failed after its      *)
(* upload, whose objects are replaced, and one whose close failed, which   *)
(* no later close uploads.                                                 *)
AckedKept ==
  \A n \in acked :
    /\ ~At(book[n].by, "dead")
    /\ ~Spoiled(book[n].sid, "rotation")
    /\ ~Spoiled(book[n].sid, "close")
    => Published(n) \/ (Buffered(n) /\ UploadComes(book[n].by))

(* A close that returned Ok has made every acknowledged put of its writer  *)
(* readable, those of the stacks rotated away included, unless an earlier  *)
(* close failed or a rotation failed after its upload                      *)
(* (writer_s3.rs:290-303).                                                 *)
ClosedPublished ==
  \A n \in promised :
    ~Spoiled(book[n].sid, "rotation") /\ ~Spoiled(book[n].sid, "close") =>
      Published(n)

(* The index_ids of two acknowledged puts differ before the cookie is      *)
(* looked at, even across failed rotations, whose stack goes on with the   *)
(* offsets it had (writer_s3.rs:107-134, 285).                             *)
AckedIdsUnique ==
  \A m, n \in acked :
    m # n => <<book[m].sid, book[m].off>> # <<book[n].sid, book[n].off>>

(* A put that is readable in the bucket stays readable: no retry, rotation *)
(* or other writer replaces an object of its stack by one without it,      *)
(* unless a rotation of that stack failed after its upload.                *)
PublishedStays ==
  [][\A n \in acked : Published(n) /\ ~Spoiled(book[n].sid, "rotation")
       => Published(n)']_vars

(* Stated by writer_s3.rs:290-293, "Upload the three stack files to S3",   *)
(* "Calling `close()` multiple times is safe": after a close that returned *)
(* Ok the acknowledged puts are in the bucket.                             *)
CloseUploads ==
  \A n \in promised : ~Spoiled(book[n].sid, "rotation") => Published(n)
=============================================================================
