------------------------------ MODULE GoWriter ------------------------------
(***************************************************************************)
(* The writer of the Go SDK (sdk/golang/bytestack/writer.go) over its two  *)
(* backends: files created with O_EXCL in a directory, and in-memory       *)
(* buffers that become S3 objects when they are closed (writer_s3.go).     *)
(*                                                                         *)
(* What is written through a stackFileWriter is in `buf`; it arrives on    *)
(* `disk` with each write (file) or when the file is closed (s3).  `shut`  *)
(* are the kinds whose stackFileWriter has been closed, with or without    *)
(* success, while the Writer still holds it.                               *)
(***************************************************************************)
EXTENDS SdkStack

Writer ==
  [pc : {"new", "idle", "resolve", "create", "write"},
   call : {"none", "open", "put", "close"},
   held : BOOLEAN,             \* dataFile, idxFile and metaFile are not nil
   closed : BOOLEAN,
   shut : SUBSET Kinds,
   buf : [Kinds -> Blob],
   sid : Nat, off : Nat, moff : Nat, raw : Nat,
   new : Nat, size : Nat, put : Nat]   \* the stack being opened, the put

Fresh == [pc |-> "new", call |-> "none", held |-> FALSE, closed |-> FALSE,
          shut |-> {}, buf |-> [k \in Kinds |-> Empty],
          sid |-> 0, off |-> 0, moff |-> 0, raw |-> 0,
          new |-> 0, size |-> 0, put |-> 0]

Init == InitWith(Fresh)

(* What a write that leaves `buf` behind leaves on disk. *)
Arrived(s, buf) ==
  IF backend = "file" THEN [disk EXCEPT ![s] = buf] ELSE disk

-----------------------------------------------------------------------------
(* openStack, for Open or for a rotation. *)
Resolve(w) ==
  /\ At(w, "new") \/ At(w, "resolve")
  /\ \E s \in Sids :
       /\ IdFor(s)
       /\ Becomes(w, [Asking(w) EXCEPT !.pc = "create", !.new = s])
  /\ UNCHANGED <<backend, disk, book, puts, acked, hurt, faults>>

(* The fields openStack sets before it writes the magic headers. *)
Opened(r) ==
  [r EXCEPT !.sid = r.new, !.held = TRUE, !.shut = {},
            !.off = HeadSize("data"), !.raw = 0]

(* The three files are created and get their magic headers; metaOffset is  *)
(* set last.                                                               *)
Create(w) ==
  LET s == writer[w].new
      r == [Opened(writer[w]) EXCEPT !.buf = [k \in Kinds |-> Headed(k)],
                                     !.moff = HeadSize("meta")]
  IN  /\ At(w, "create")
      /\ ~Exists(s)
      /\ disk' = Arrived(s, r.buf)
      /\ Becomes(w, IF r.call = "open" THEN Returned(r)
                                       ELSE [r EXCEPT !.pc = "write"])
      /\ UNCHANGED <<backend, book, puts, acked, hurt, nextId, faults>>

(* A file exists or cannot be created: the ones already created stay on    *)
(* disk, and the writer keeps the fields it had.                           *)
CreateFails(w) ==
  LET s == writer[w].new
  IN  /\ At(w, "create")
      /\ \/ Exists(s) /\ UNCHANGED <<disk, faults>>
         \/ /\ backend = "file" /\ ~Exists(s)
            /\ Fault
            /\ \E k \in Kinds : disk' = Created(s, Before(OpenOrder, k))
      /\ Becomes(w, Failed(writer[w]))
      /\ UNCHANGED <<backend, book, puts, acked, hurt, nextId>>

(* A magic header cannot be written: the writer has the files all the      *)
(* same, and metaOffset is still the one of the stack before.              *)
HeaderFails(w) ==
  LET s == writer[w].new
      r == Opened(writer[w])
  IN  /\ At(w, "create")
      /\ backend = "file" /\ ~Exists(s)
      /\ Fault
      /\ \E k \in Kinds : \E part \in {0, HeadSize(k) \div 2} :
           LET buf == [j \in Kinds |->
                         IF j \in Before(OpenOrder, k) THEN Headed(j)
                         ELSE IF j = k THEN [Empty EXCEPT !.len = part]
                         ELSE Empty]
           IN  /\ disk' = Arrived(s, buf)
               /\ Becomes(w, Failed([r EXCEPT !.buf = buf]))
      /\ hurt' = hurt \cup {<<s, "write">>}
      /\ UNCHANGED <<backend, book, puts, acked, nextId>>

-----------------------------------------------------------------------------
(* The writes of a put. *)

(* Data header, payload and padding, the meta line and the index record    *)
(* are written and synced; the index_id goes to the caller.                *)
Write(w, r) ==
  LET n == r.put
      buf == [k \in Kinds |-> Appended(r.buf[k], n, SdkEntrySize(k, r.size))]
  IN  /\ r.held /\ r.shut = {}
      /\ book' = [book EXCEPT ![n] = Recorded(r, w)]
      /\ acked' = acked \cup {n}
      /\ disk' = Arrived(r.sid, buf)
      /\ Becomes(w, Returned([Advanced(r, Kinds) EXCEPT !.buf = buf,
                                                        !.raw = @ + r.size]))
      /\ UNCHANGED <<hurt, faults>>

(* A write or sync fails: kinds before it are written, and the offset of   *)
(* this one has not moved, wherever its file now ends.                     *)
WriteFails(w, r) ==
  LET n == r.put
  IN  /\ r.held /\ r.shut = {} /\ backend = "file"
      /\ Fault
      /\ book' = [book EXCEPT ![n] = Recorded(r, w)]
      /\ \E k \in Kinds : \E part \in Parts(SdkEntrySize(k, r.size)) :
           LET done == Before(WriteOrder, k)
               buf == [j \in Kinds |->
                         IF j \in done \cup {k}
                           THEN PartlyAppended(r.buf[j], n, SdkEntrySize(j, r.size),
                                  IF j = k THEN part ELSE SdkEntrySize(j, r.size))
                           ELSE r.buf[j]]
           IN  /\ disk' = Arrived(r.sid, buf)
               /\ Becomes(w, Returned([Advanced(r, done) EXCEPT !.buf = buf]))
               /\ hurt' = IF part > 0 THEN hurt \cup {<<r.sid, "write">>} ELSE hurt
      /\ UNCHANGED acked

(* The data file was closed by a rotation that failed: the first write is  *)
(* refused.                                                                *)
WriteClosed(w, r) ==
  /\ r.held /\ r.shut # {}
  /\ Becomes(w, Returned(r))
  /\ UNCHANGED <<disk, book, acked, hurt, faults>>

(* The files are nil since a rotation that closed its stack and could not  *)
(* open the next: the method call panics, and the process dies.            *)
WritePanics(w, r) ==
  /\ ~r.held
  /\ Becomes(w, Dead)
  /\ UNCHANGED <<disk, book, acked, hurt, faults>>

Writes(w, r) ==
  Write(w, r) \/ WriteFails(w, r) \/ WriteClosed(w, r) \/ WritePanics(w, r)

-----------------------------------------------------------------------------
(* closeCurrentStack, for a rotation or for Close. *)
ShutOrder == <<"data", "meta", "idx">>

(* The object PutObject makes of each buffer in ks that is not yet closed. *)
Uploaded(r, ks) ==
  IF backend = "s3" /\ r.held
    THEN [disk EXCEPT ![r.sid] =
            [k \in Kinds |-> IF k \in ks \ r.shut THEN r.buf[k] ELSE @[k]]]
    ELSE disk

(* Nothing is left to close for a writer without files, a closed s3 file   *)
(* is passed over with no error, and a closed os.File is one.              *)
Shut(w, r) ==
  LET left == [r EXCEPT !.held = FALSE, !.shut = {}]
  IN  /\ backend = "file" => r.shut = {}
      /\ disk' = Uploaded(r, Kinds)
      /\ hurt' = IF r.shut # {} THEN hurt \cup {<<r.sid, "retried">>} ELSE hurt
      /\ Becomes(w, IF r.call = "put" THEN [left EXCEPT !.pc = "resolve"]
                                      ELSE Returned(left))
      /\ UNCHANGED faults

(* Closing one of the files fails; it counts as closed from then on, and a *)
(* PutObject that fails may have made its object.                          *)
ShutFails(w, r) ==
  /\ r.held
  /\ \/ /\ backend = "file" /\ r.shut # {}
        /\ Becomes(w, Returned(r))
        /\ UNCHANGED <<disk, hurt, faults>>
     \/ /\ backend = "file" => r.shut = {}
        /\ Fault
        /\ \E k \in Kinds \ r.shut :
             LET done == Before(ShutOrder, k)
             IN  /\ disk' \in {Uploaded(r, done), Uploaded(r, done \cup {k})}
                 /\ Becomes(w, Returned([r EXCEPT !.shut = @ \cup done \cup {k}]))
                 /\ hurt' = hurt \cup {<<r.sid, "shut">>}
                      \cup (IF r.shut # {} THEN {<<r.sid, "retried">>} ELSE {})

Shuts(w, r) == (Shut(w, r) \/ ShutFails(w, r)) /\ UNCHANGED <<book, acked>>

-----------------------------------------------------------------------------
(* Put.  ErrStackClosed and StackFullError change nothing.  A put that     *)
(* fits goes on to its writes, whatever became of the files since the last *)
(* call; any other rotates first.                                          *)
Put(w, n) ==
  LET r == [writer[w] EXCEPT !.call = "put", !.size = n, !.put = puts + 1]
  IN  /\ At(w, "idle")
      /\ ~r.closed
      /\ n <= MaxData
      /\ puts < MaxPuts
      /\ puts' = puts + 1
      /\ IF NeedsRotation(r, n) THEN Shuts(w, r) ELSE Writes(w, r)
      /\ UNCHANGED <<backend, nextId>>

(* A put that has rotated. *)
PutGoesOn(w) ==
  /\ At(w, "write")
  /\ Writes(w, writer[w])
  /\ UNCHANGED <<backend, puts, nextId>>

(* `closed` is set before anything is closed; another Close returns nil at *)
(* once.                                                                   *)
Close(w) ==
  LET r == [writer[w] EXCEPT !.call = "close", !.closed = TRUE]
  IN  /\ At(w, "idle")
      /\ ~writer[w].closed
      /\ Shuts(w, r)
      /\ UNCHANGED <<backend, puts, nextId>>

(* The process dies, or the writer is dropped without Close. *)
Die(w) ==
  /\ ~At(w, "new") /\ ~At(w, "dead")
  /\ Fault
  /\ Becomes(w, Dead)
  /\ UNCHANGED <<backend, disk, book, puts, acked, hurt, nextId>>

Next ==
  \E w \in Writers :
    \/ Resolve(w) \/ ResolveFails(w)
    \/ Create(w) \/ CreateFails(w) \/ HeaderFails(w)
    \/ \E n \in Sizes : Put(w, n)
    \/ PutGoesOn(w)
    \/ Close(w)
    \/ Die(w)

Spec == Init /\ [][Next]_vars

-----------------------------------------------------------------------------
(* Type invariant.  A closed file among a writer's files is the result of  *)
(* a failed rotation or Close, and no stack has more than max_data_bytes   *)
(* of payload (writer.go:163-177, 350-363, 396-402).                       *)
TypeOK ==
  /\ TypesOK(Writer)
  /\ \A w \in {v \in Writers : ~At(v, "dead")} :
       /\ writer[w].shut # {} => writer[w].held /\ Hurt(writer[w].sid, "shut")
       /\ writer[w].raw <= MaxData
       /\ writer[w].call = "none" <=> writer[w].pc \in {"new", "idle"}

(* Put n waits in the open buffers of a writer that may still close them.  *)
Buffered(n) ==
  LET r == writer[book[n].by]
  IN  /\ ~r.closed /\ r.held /\ r.shut = {} /\ r.sid = book[n].sid
      /\ Holds(r.buf, n)

(* An index in the directory or bucket lists no record whose payload or    *)
(* meta line is missing, whichever write, sync, close or PutObject fails   *)
(* and whenever the process dies.  Excepted are stacks a rotation was      *)
(* tried again on after its PutObject failed: the file that failed counts  *)
(* as closed, is passed over, and the index follows without it             *)
(* (writer.go:350-363, writer_s3.go:130-148).                              *)
IndexAfterData == \A s \in Sids : ~Hurt(s, "retried") => IndexedDataThere(s)

(* An acknowledged put is at its offsets, on disk at once with files and   *)
(* after Close or a rotation on S3; until then it is in buffers the writer *)
(* will close.  A Close that returned nil has published everything.        *)
(* Excepted are a process that dies, a stack a write or header failed on   *)
(* (its offsets lag behind the file) and one a PutObject failed on         *)
(* (writer.go:458-491, 498-504).                                           *)
AckedKept ==
  \A n \in acked :
    LET b == book[n]
    IN  ~Hurt(b.sid, "write") /\ (backend = "s3" => ~Hurt(b.sid, "shut")) =>
          \/ Published(n)
          \/ backend = "s3" /\ (At(b.by, "dead") \/ Buffered(n))
=============================================================================
