------------------------------ MODULE PyWriter ------------------------------
(***************************************************************************)
(* The writers of the Python SDK: LocalWriter (writer.py), over buffered   *)
(* files opened with "xb", and S3Writer (writer_s3.py), over io.BytesIO.   *)
(*                                                                         *)
(* `buf` is what was written to the three file objects; it arrives on      *)
(* `disk` when a file is flushed or an object is put.  A BytesIO is put    *)
(* from its first byte on, and its position is moved for that: `pos` is    *)
(* where the data buffer is written next.                                  *)
(***************************************************************************)
EXTENDS SdkStack, FiniteSetsExt

Writer ==
  [pc : {"new", "idle", "resolve", "create", "write"},
   call : {"none", "open", "put", "close"},
   have : SUBSET Kinds,        \* the files or buffers that are not None
   shut : SUBSET Kinds,        \* those among them that are closed
   client : BOOLEAN,           \* _s3_client is not None
   buf : [Kinds -> Blob], pos : Nat,
   sid : Nat, off : Nat, moff : Nat, raw : Nat, size : Nat, put : Nat]

Fresh == [pc |-> "new", call |-> "none", have |-> {}, shut |-> {},
          client |-> TRUE, buf |-> [k \in Kinds |-> Empty], pos |-> 0,
          sid |-> 0, off |-> 0, moff |-> 0, raw |-> 0, size |-> 0, put |-> 0]

Init == InitWith(Fresh)

-----------------------------------------------------------------------------
(* _open_stack, for open or for a rotation: the id and the counters are    *)
(* set before any file is opened.                                          *)
Resolve(w) ==
  /\ At(w, "new") \/ At(w, "resolve")
  /\ \E s \in Sids :
       /\ IdFor(s)
       /\ Becomes(w, [Asking(w) EXCEPT !.pc = "create", !.sid = s,
                                     !.off = HeadSize("data"), !.raw = 0])
  /\ UNCHANGED <<backend, disk, book, puts, acked, hurt, faults>>

(* The magic headers stay in the buffers of the new files. *)
Create(w) ==
  LET r == [writer[w] EXCEPT !.have = Kinds, !.shut = {},
              !.buf = [k \in Kinds |-> Headed(k)], !.pos = HeadSize("data"),
              !.moff = HeadSize("meta")]
  IN  /\ At(w, "create")
      /\ ~Exists(r.sid)
      /\ disk' = Created(r.sid, Kinds)
      /\ Becomes(w, IF r.call = "open" THEN Returned(r)
                                       ELSE [r EXCEPT !.pc = "write"])
      /\ UNCHANGED <<backend, book, puts, acked, hurt, nextId, faults>>

(* The writer keeps the files that were opened before the one that exists  *)
(* or cannot be created.                                                   *)
CreateFails(w) ==
  LET r == writer[w]
  IN  /\ At(w, "create")
      /\ backend = "file"
      /\ \/ /\ Exists(r.sid)
            /\ Becomes(w, Failed(r))
            /\ UNCHANGED <<disk, faults>>
         \/ /\ ~Exists(r.sid)
            /\ Fault
            /\ \E k \in Kinds :
                 LET done == Before(OpenOrder, k)
                 IN  /\ disk' = Created(r.sid, done)
                     /\ Becomes(w, Failed([r EXCEPT !.have = done,
                                    !.buf = [j \in Kinds |-> Empty]]))
      /\ UNCHANGED <<backend, book, puts, acked, hurt, nextId>>

-----------------------------------------------------------------------------
(* The writes of a put. *)

EntryEnd(e) ==
  IF e.put = 0 THEN HeadSize("data") ELSE e.at + SdkRecordSize(book[e.put].size)

(* Writing at `pos` replaces the bytes there, and whole records with them. *)
WrittenAt(b, pos, n, size) ==
  [b EXCEPT !.len = Max({@, pos + size}),
            !.recs = {e \in @ : EntryEnd(e) <= pos \/ pos + size <= e.at}
                     \cup {[at |-> pos, put |-> n]}]

(* Appending, but for the data buffer of an S3Writer, whose position a     *)
(* failed put_object moves.                                                *)
Extended(r, k) ==
  IF backend = "s3" /\ k = "data"
    THEN WrittenAt(r.buf[k], r.pos, r.put, SdkRecordSize(r.size))
    ELSE Appended(r.buf[k], r.put, SdkEntrySize(k, r.size))

(* The three writes, flushed and synced one by one in a LocalWriter; the   *)
(* index_id goes to the caller.                                            *)
Write(w, r) ==
  LET buf == [k \in Kinds |-> Extended(r, k)]
  IN  /\ r.shut = {}
      /\ book' = [book EXCEPT ![r.put] = Recorded(r, w)]
      /\ acked' = acked \cup {r.put}
      /\ disk' = IF backend = "file" THEN [disk EXCEPT ![r.sid] = buf] ELSE disk
      /\ hurt' = IF backend = "s3" /\ r.pos < r.buf["data"].len
                   THEN hurt \cup {<<r.sid, "overwritten">>} ELSE hurt
      /\ Becomes(w, Returned([Advanced(r, Kinds) EXCEPT
                      !.buf = buf, !.raw = @ + r.size,
                      !.pos = @ + SdkRecordSize(r.size)]))
      /\ UNCHANGED faults

(* A write, flush or fsync of a LocalWriter fails: part of the record is   *)
(* in the file or still in its buffer, from where a later flush takes it   *)
(* along, and the offset has not moved.                                    *)
WriteFails(w, r) ==
  /\ r.shut = {} /\ backend = "file"
  /\ Fault
  /\ book' = [book EXCEPT ![r.put] = Recorded(r, w)]
  /\ \E k \in Kinds : \E part \in Parts(SdkEntrySize(k, r.size)) :
       LET done == Before(WriteOrder, k)
           buf == [j \in Kinds |->
                     IF j \in done THEN Extended(r, j)
                     ELSE IF j = k
                       THEN PartlyAppended(r.buf[j], r.put,
                                           SdkEntrySize(j, r.size), part)
                     ELSE r.buf[j]]
       IN  /\ \E flushed \in {done, done \cup {k}} :
                disk' = [disk EXCEPT ![r.sid] =
                  [j \in Kinds |-> IF j \in flushed THEN buf[j] ELSE @[j]]]
           /\ Becomes(w, Returned([Advanced(r, done) EXCEPT !.buf = buf]))
           /\ hurt' = IF part > 0 THEN hurt \cup {<<r.sid, "write">>} ELSE hurt
  /\ UNCHANGED acked

(* ValueError: the data file was closed by a rotation that failed. *)
WriteClosed(w, r) ==
  /\ r.shut # {}
  /\ Becomes(w, Returned(r))
  /\ UNCHANGED <<disk, book, acked, hurt, faults>>

Writes(w, r) == Write(w, r) \/ WriteFails(w, r) \/ WriteClosed(w, r)

-----------------------------------------------------------------------------
(* close, which a rotation of a LocalWriter calls too, and                 *)
(* _upload_current_stack.                                                  *)
ShutOrder == IF backend = "s3" THEN <<"data", "meta", "idx">>
                               ELSE <<"data", "idx", "meta">>

(* Flushed or put, unless it is None or the client is gone. *)
Stored(r, ks) ==
  IF r.have = {} \/ ~r.client THEN disk
  ELSE [disk EXCEPT ![r.sid] =
          [k \in Kinds |-> IF k \in ks \cap r.have THEN r.buf[k] ELSE @[k]]]

Shut(w, r) ==
  LET left == [r EXCEPT !.have = {}, !.shut = {},
                        !.client = backend = "file" \/ r.call = "put"]
  IN  /\ r.shut = {}
      /\ disk' = Stored(r, Kinds)
      /\ Becomes(w, IF r.call = "put" THEN [left EXCEPT !.pc = "resolve"]
                                      ELSE Returned(left))
      /\ UNCHANGED <<hurt, faults>>

(* A closed file or buffer cannot be flushed or rewound: ValueError, now   *)
(* and in every call to come.                                              *)
ShutClosed(w, r) ==
  /\ r.shut # {}
  /\ Becomes(w, Returned(r))
  /\ UNCHANGED <<disk, hurt, faults>>

(* The flush, the fsync or the put_object of one kind fails, perhaps after *)
(* taking effect: those before it are closed.  A put_object that fails     *)
(* leaves its buffer rewound, or read to the end.                          *)
ShutFails(w, r) ==
  /\ r.shut = {} /\ r.client
  /\ Fault
  /\ \E k \in r.have :
       LET done == Before(ShutOrder, k) \cap r.have
       IN  /\ disk' \in {Stored(r, done), Stored(r, done \cup {k})}
           /\ \E pos \in IF backend = "s3" /\ k = "data"
                            THEN {0, r.buf[k].len} ELSE {r.pos} :
                Becomes(w, Returned([r EXCEPT !.shut = done, !.pos = pos]))
           /\ hurt' = IF done = {} THEN hurt
                                   ELSE hurt \cup {<<r.sid, "shut">>}

Shuts(w, r) ==
  (Shut(w, r) \/ ShutClosed(w, r) \/ ShutFails(w, r)) /\ UNCHANGED <<book, acked>>

-----------------------------------------------------------------------------
(* put.  StackClosed and StackFull change nothing.                         *)
Put(w, n) ==
  LET r == [writer[w] EXCEPT !.call = "put", !.size = n, !.put = puts + 1]
  IN  /\ At(w, "idle")
      /\ r.have = Kinds
      /\ n <= MaxData
      /\ puts < MaxPuts
      /\ puts' = puts + 1
      /\ IF NeedsRotation(r, n) THEN Shuts(w, r) ELSE Writes(w, r)
      /\ UNCHANGED <<backend, nextId>>

(* A put that has rotated. *)
PutGoesOn(w) ==
  /\ At(w, "write")
  /\ Writes(w, writer[w])
  /\ UNCHANGED <<backend, puts, nextId>>

Close(w) ==
  /\ At(w, "idle")
  /\ Shuts(w, [writer[w] EXCEPT !.call = "close"])
  /\ UNCHANGED <<backend, puts, nextId>>

(* The process dies, or the writer is dropped without close: its files, if *)
(* it has any, are perhaps flushed on the way.                             *)
Die(w) ==
  /\ ~At(w, "new") /\ ~At(w, "dead")
  /\ Fault
  /\ Becomes(w, Dead)
  /\ disk' \in {disk} \cup
       (IF backend = "file" THEN {Stored(writer[w], Kinds)} ELSE {})
  /\ UNCHANGED <<backend, book, puts, acked, hurt, nextId>>

Next ==
  \E w \in Writers :
    \/ Resolve(w) \/ ResolveFails(w)
    \/ Create(w) \/ CreateFails(w)
    \/ \E n \in Sizes : Put(w, n)
    \/ PutGoesOn(w)
    \/ Close(w)
    \/ Die(w)

Spec == Init /\ [][Next]_vars

-----------------------------------------------------------------------------
(* Type invariant.  A closed file among a writer's files is the result of  *)
(* a failed rotation or close, an S3Writer has all its buffers or none,    *)
(* and no stack has more than max_data_bytes of payload                    *)
(* (writer_s3.py:81-93, 164-181, 252-260).                                 *)
TypeOK ==
  /\ TypesOK(Writer)
  /\ \A w \in {v \in Writers : ~At(v, "dead")} :
       /\ writer[w].shut # {} =>
            /\ writer[w].shut \subseteq writer[w].have
            /\ Hurt(writer[w].sid, "shut") \/ backend = "file"
       /\ backend = "s3" => writer[w].have \in {{}, Kinds}
       /\ writer[w].raw <= MaxData

(* Put n waits in the buffers of an S3Writer that may still put them. *)
Buffered(n) ==
  LET r == writer[book[n].by]
  IN  /\ r.client /\ r.have = Kinds /\ r.shut = {} /\ r.sid = book[n].sid
      /\ Holds(r.buf, n)

(* An index in the directory or bucket lists no record whose payload or    *)
(* meta line is missing, whatever fails, whenever a buffer left over by a  *)
(* failure is flushed, and whenever the process dies.  Excepted are stacks *)
(* whose data buffer was written to at a position a failed put_object had  *)
(* moved (writer.py:295-310, writer_s3.py:175-177, 301).                   *)
IndexAfterData == \A s \in Sids : ~Hurt(s, "overwritten") => IndexedDataThere(s)

(* An acknowledged put is at its offsets: on disk at once with a           *)
(* LocalWriter; with an S3Writer after close or a rotation, and until then *)
(* in buffers a retried close still uploads.  A close that returned has    *)
(* published everything.  Excepted are a process that dies, a stack whose  *)
(* offsets lag behind after a failed write, and one of which an S3Writer   *)
(* closed a buffer or overwrote one in a failed upload                     *)
(* (writer.py:295-317, writer_s3.py:164-181, 324-334).                     *)
AckedKept ==
  \A n \in acked :
    LET b == book[n]
    IN  /\ ~Hurt(b.sid, "write") /\ ~Hurt(b.sid, "overwritten")
        /\ (backend = "s3" => ~Hurt(b.sid, "shut"))
        => \/ Published(n)
           \/ backend = "s3" /\ (At(b.by, "dead") \/ Buffered(n))
=============================================================================
