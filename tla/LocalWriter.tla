---------------------------- MODULE LocalWriter ----------------------------
(***************************************************************************)
(* The local directory writer of the Rust SDK (sdk/rust/src/writer.rs):    *)
(* several LocalWriters, each used by one caller at a time, writing stacks *)
(* into one directory.                                                     *)
(*                                                                         *)
(* A call (open, put, close) is a run of steps, one per `await` whose      *)
(* outcome matters, so that a failure, a dropped future or a crash can     *)
(* fall between any two of them.  `call` says which call a writer is in    *)
(* and `pc` its next step.  A put is written first to `.data`, then to     *)
(* `.meta`, then to `.idx`, each write followed by a sync; only then does  *)
(* the caller get the index_id.                                            *)
(*                                                                         *)
(* A file is abstracted to its length, the prefix of it known to be on     *)
(* disk, and the whole records it holds with their true positions.  What a *)
(* record says is in `book`: the fields the put computed before it wrote.  *)
(* The random cookie of a record is represented by the put's number.       *)
(***************************************************************************)
EXTENDS StackFormat, FiniteSets, FiniteSetsExt

CONSTANTS
  Writers,        \* the LocalWriter objects sharing the directory
  Sizes,          \* payload sizes callers use
  MaxData,        \* max_data_bytes
  Remote,         \* those that were given a Controller for their stack ids
  Clock,          \* seconds the local clock may show
  MaxSid,         \* bound on stack ids
  MaxPuts,        \* bound on puts that are not refused outright
  MaxOpens,       \* bound on calls of open
  MaxFaults       \* bound on I/O errors, lost replies and crashes

Sids == 1 .. MaxSid
Puts == 1 .. MaxPuts

ASSUME SizesAssumption == Sizes \subseteq Nat /\ MaxData \in Nat
ASSUME BoundsAssumption ==
  /\ MaxSid \in Nat
  /\ MaxPuts \in Nat
  /\ MaxOpens \in Nat
  /\ MaxFaults \in Nat
ASSUME ModeAssumption == Remote \subseteq Writers /\ Clock \subseteq Sids

VARIABLES
  file,     \* file[s][k]: the file of kind k of stack s
  writer,   \* writer[w]: the LocalWriter struct and the call it is in
  book,     \* book[n]: the record fields computed by put n
  puts,     \* number of puts begun
  acked,    \* puts whose index_id was returned to the caller
  skew,     \* <<n, k>>: failed put n left bytes in file k nobody counts
  nextId,   \* the Controller's next_stack_id
  opens, faults

vars == <<file, writer, book, puts, acked, skew, nextId, opens, faults>>

Entry == [at : Nat, put : Puts]

File == [there : BOOLEAN, len : Nat, synced : Nat, recs : SUBSET Entry]

NoFile == [there |-> FALSE, len |-> 0, synced |-> 0, recs |-> {}]

(* The fields of LocalWriter (have: which Option<File> are Some), and the  *)
(* locals of the call in progress: the stack being opened, the file the    *)
(* next step is about, the payload size and the put's number.              *)
Writer ==
  [pc : {"gone", "idle", "resolve", "probe", "create", "header",
         "flush", "build", "write", "sync"},
   call : {"none", "open", "put", "close"},
   kind : Kinds,
   have : SUBSET Kinds,
   sid : Nat, off : Nat, moff : Nat, raw : Nat,
   new : Nat, size : Nat, put : Nat]

Gone == [pc |-> "gone", call |-> "none", kind |-> "data", have |-> {},
         sid |-> 0, off |-> 0, moff |-> 0, raw |-> 0,
         new |-> 0, size |-> 0, put |-> 0]

Booked == [sid : Nat, off : Nat, moff : Nat, size : Nat]

Init ==
  /\ file = [s \in Sids |-> [k \in Kinds |-> NoFile]]
  /\ writer = [w \in Writers |-> Gone]
  /\ book = [n \in Puts |-> [sid |-> 0, off |-> 0, moff |-> 0, size |-> 0]]
  /\ puts = 0
  /\ acked = {}
  /\ skew = {}
  /\ nextId = 1
  /\ opens = 0
  /\ faults = 0

-----------------------------------------------------------------------------
(* Files. *)

(* A file after a complete record of put n, of `size` bytes, is written. *)
Appended(f, n, size) ==
  [f EXCEPT !.len = f.len + size,
            !.recs = f.recs \cup {[at |-> f.len, put |-> n]}]

(* A file after only the first `part` of `size` bytes got there. *)
PartlyAppended(f, n, size, part) ==
  IF part = size THEN Appended(f, n, size) ELSE [f EXCEPT !.len = f.len + part]

(* Mutant of Synced: sync_all is left out. *)
NotSynced(f) == f

Synced(f) == [f EXCEPT !.synced = f.len]

EntryEnd(k, e) == e.at + EntrySize(k, book[e.put].size)

(* The records of a file that a crash cannot take away. *)
Durable(s, k) ==
  {e \in file[s][k].recs : EntryEnd(k, e) <= file[s][k].synced}

(* Mutant of NextKind: the index record follows the data at once. *)
IdxBeforeMeta(k) == "idx"

(* The order in which a put, a rotation and a close go through the files,  *)
(* and the order in which open_stack does; each one starts with `.data`.   *)
NextKind(k) == IF k = "data" THEN "meta" ELSE "idx"
NextOpened(k) == IF k = "data" THEN "idx" ELSE "meta"

-----------------------------------------------------------------------------
(* The end of a call.  A LocalWriter whose open fails does not exist; one  *)
(* whose put or close fails keeps its fields as the failure left them.     *)

Returned(r) == [r EXCEPT !.pc = "idle", !.call = "none", !.kind = "data",
                         !.new = 0, !.size = 0, !.put = 0]

Failed(w) == IF writer[w].call = "open" THEN Gone ELSE Returned(writer[w])

Fault == faults < MaxFaults /\ faults' = faults + 1

At(w, pc) == writer[w].pc = pc

Becomes(w, r) == writer' = [writer EXCEPT ![w] = r]

-----------------------------------------------------------------------------
(* Opening a stack: resolve_stack_ids, then open_stack. *)

(* open: a caller makes a new LocalWriter; one it no longer has any file   *)
(* of is dropped.                                                          *)
Open(w) ==
  /\ At(w, "gone") \/ (At(w, "idle") /\ writer[w].have = {})
  /\ opens < MaxOpens
  /\ opens' = opens + 1
  /\ Becomes(w, [Gone EXCEPT !.pc = "resolve", !.call = "open"])
  /\ UNCHANGED <<file, book, puts, acked, skew, nextId, faults>>

(* Controller mode: next_stack_id answers with the next id. *)
ResolveRemote(w) ==
  /\ At(w, "resolve")
  /\ w \in Remote
  /\ nextId \in Sids
  /\ nextId' = nextId + 1
  /\ Becomes(w,
       [writer[w] EXCEPT !.pc = "create", !.kind = "data", !.new = nextId])
  /\ UNCHANGED <<file, book, puts, acked, skew, opens, faults>>

(* The call fails; the Controller may have counted it all the same. *)
ResolveRemoteFails(w) ==
  /\ At(w, "resolve")
  /\ w \in Remote
  /\ Fault
  /\ nextId' \in {nextId, nextId + 1}
  /\ Becomes(w, Failed(w))
  /\ UNCHANGED <<file, book, puts, acked, skew, opens>>

(* Local mode: start from the clock, which may stand still or go back. *)
ResolveLocal(w) ==
  /\ At(w, "resolve")
  /\ w \notin Remote
  /\ \E now \in Clock :
       Becomes(w, [writer[w] EXCEPT !.pc = "probe", !.new = now])
  /\ UNCHANGED <<file, book, puts, acked, skew, nextId, opens, faults>>

(* Mutant of NextCandidate: the loop forgets to move on. *)
SameCandidate(ts) == ts

NextCandidate(ts) == ts + 1

(* One turn of the loop: a taken id is skipped, a free one is used. *)
ProbeTaken(w) ==
  /\ At(w, "probe")
  /\ file[writer[w].new]["data"].there
  /\ writer[w].new < MaxSid
  /\ Becomes(w, [writer[w] EXCEPT !.new = NextCandidate(writer[w].new)])
  /\ UNCHANGED <<file, book, puts, acked, skew, nextId, opens, faults>>

ProbeFree(w) ==
  /\ At(w, "probe")
  /\ ~file[writer[w].new]["data"].there
  /\ Becomes(w, [writer[w] EXCEPT !.pc = "create", !.kind = "data"])
  /\ UNCHANGED <<file, book, puts, acked, skew, nextId, opens, faults>>

ProbeFails(w) ==
  /\ At(w, "probe")
  /\ Fault
  /\ Becomes(w, Failed(w))
  /\ UNCHANGED <<file, book, puts, acked, skew, nextId, opens>>

(* Mutant of Taken: create without create_new, which truncates. *)
NeverTaken(s, k) == FALSE

Taken(s, k) == file[s][k].there

(* create_new: the file must not exist yet. *)
Create(w) ==
  LET s == writer[w].new
      k == writer[w].kind
  IN  /\ At(w, "create")
      /\ ~Taken(s, k)
      /\ file' = [file EXCEPT ![s][k] = [NoFile EXCEPT !.there = TRUE]]
      /\ Becomes(w,
           [writer[w] EXCEPT
                             !.pc = IF k = "meta" THEN "header" ELSE "create",
                             !.kind = IF k = "meta" THEN "data" ELSE NextOpened(k)])
      /\ UNCHANGED <<book, puts, acked, skew, nextId, opens, faults>>

CreateExists(w) ==
  /\ At(w, "create")
  /\ Taken(writer[w].new, writer[w].kind)
  /\ Becomes(w, Failed(w))
  /\ UNCHANGED <<file, book, puts, acked, skew, nextId, opens, faults>>

CreateFails(w) ==
  /\ At(w, "create")
  /\ Fault
  /\ Becomes(w, Failed(w))
  /\ UNCHANGED <<file, book, puts, acked, skew, nextId, opens>>

(* The fields open_stack sets once the new stack's files are ready. *)
Opened(r) ==
  [r EXCEPT !.kind = "data", !.have = Kinds, !.sid = r.new,
            !.off = HeadSize("data"), !.moff = HeadSize("meta"), !.raw = 0,
            !.new = 0]

(* The magic headers are written, not synced; after the last one the       *)
(* writer's fields are set and the stack is open.                          *)
Header(w) ==
  LET s == writer[w].new
      k == writer[w].kind
  IN  /\ At(w, "header")
      /\ file' = [file EXCEPT ![s][k].len = HeadSize(k)]
      /\ \/ /\ k # "meta"
            /\ Becomes(w, [writer[w] EXCEPT !.kind = NextOpened(k)])
         \/ /\ k = "meta"
            /\ writer[w].call = "open"
            /\ Becomes(w, Returned(Opened(writer[w])))
         \/ /\ k = "meta"
            /\ writer[w].call = "put"
            /\ Becomes(w, [Opened(writer[w]) EXCEPT !.pc = "build"])
      /\ UNCHANGED <<book, puts, acked, skew, nextId, opens, faults>>

HeaderFails(w) ==
  LET s == writer[w].new
      k == writer[w].kind
  IN  /\ At(w, "header")
      /\ Fault
      /\ \E part \in 0 .. HeadSize(k) : file' = [file EXCEPT ![s][k].len = part]
      /\ Becomes(w, Failed(w))
      /\ UNCHANGED <<book, puts, acked, skew, nextId, opens>>

-----------------------------------------------------------------------------
(* put *)

(* Mutant of StackClosed: only a writer without any file is closed. *)
ClosedIfEmpty(w) == writer[w].have = {}

(* Mutant of StackClosed: the check is left out. *)
NeverClosed(w) == FALSE

StackClosed(w) == writer[w].have # Kinds

NeedsRotation(w, n) == writer[w].raw + n > MaxData

(* Any file missing: StackClosed; payload too long: StackFull; neither     *)
(* changes anything.  A payload the stack has no room for rotates first.   *)
Put(w, n) ==
  /\ At(w, "idle")
  /\ ~StackClosed(w)
  /\ n <= MaxData
  /\ puts < MaxPuts
  /\ puts' = puts + 1
  /\ Becomes(w,
       [writer[w] EXCEPT !.call = "put", !.size = n, !.put = puts + 1,
                         !.pc = IF NeedsRotation(w, n) THEN "flush" ELSE "build",
                         !.kind = "data"])
  /\ UNCHANGED <<file, book, acked, skew, nextId, opens, faults>>

(* MetaRecord, IndexRecord, DataRecord and the index_id are computed. *)
Build(w) ==
  /\ At(w, "build")
  /\ book' = [book EXCEPT ![writer[w].put] =
                [sid |-> writer[w].sid, off |-> writer[w].off,
                 moff |-> writer[w].moff, size |-> writer[w].size]]
  /\ Becomes(w, [writer[w] EXCEPT !.pc = "write", !.kind = "data"])
  /\ UNCHANGED <<file, puts, acked, skew, nextId, opens, faults>>

(* write_all of one record to the file `kind`. *)
Write(w) ==
  LET s == writer[w].sid
      k == writer[w].kind
  IN  /\ At(w, "write")
      /\ file' = [file EXCEPT ![s][k] =
                    Appended(file[s][k], writer[w].put,
                             EntrySize(k, writer[w].size))]
      /\ Becomes(w, [writer[w] EXCEPT !.pc = "sync"])
      /\ UNCHANGED <<book, puts, acked, skew, nextId, opens, faults>>

(* Bytes left in file k that data_offset, meta_offset or the fixed index   *)
(* record size do not account for.                                         *)
Skews(k, part, size) == part > 0 /\ ~(k = "idx" /\ part = size)

(* An I/O error, or the caller dropping the future: part of the record may *)
(* be in the file, and no offset has moved.                                *)
WriteFails(w) ==
  LET s == writer[w].sid
      k == writer[w].kind
      n == writer[w].put
      size == EntrySize(k, writer[w].size)
  IN  /\ At(w, "write")
      /\ Fault
      /\ \E part \in 0 .. size :
           /\ file' = [file EXCEPT ![s][k] =
                         PartlyAppended(file[s][k], n, size, part)]
           /\ skew' = IF Skews(k, part, size) THEN skew \cup {<<n, k>>} ELSE skew
      /\ Becomes(w, Failed(w))
      /\ UNCHANGED <<book, puts, acked, nextId, opens>>

(* Mutant of DataAdvance: the padding is left out. *)
AdvanceUnpadded(size) == HeaderSize + size

(* What data_offset moves by: DataRecord::size. *)
DataAdvance(size) == RecordSize(size)

(* flush and sync_all; the offset moves, and after the index record the    *)
(* payload is counted and the index_id returned.                           *)
Sync(w) ==
  LET s == writer[w].sid
      k == writer[w].kind
      size == writer[w].size
  IN  /\ At(w, "sync")
      /\ file' = [file EXCEPT ![s][k] = Synced(file[s][k])]
      /\ \/ /\ k = "data"
            /\ Becomes(w,
                 [writer[w] EXCEPT !.pc = "write", !.kind = NextKind(k),
                                   !.off = writer[w].off + DataAdvance(size)])
            /\ UNCHANGED acked
         \/ /\ k = "meta"
            /\ Becomes(w,
                 [writer[w] EXCEPT !.pc = "write", !.kind = NextKind(k),
                                   !.moff = writer[w].moff + MetaLine])
            /\ UNCHANGED acked
         \/ /\ k = "idx"
            /\ Becomes(w, Returned([writer[w] EXCEPT !.raw = @ + size]))
            /\ acked' = acked \cup {writer[w].put}
      /\ UNCHANGED <<book, puts, skew, nextId, opens, faults>>

SyncFails(w) ==
  LET k == writer[w].kind
  IN  /\ At(w, "sync")
      /\ Fault
      /\ skew' = IF k = "idx" THEN skew ELSE skew \cup {<<writer[w].put, k>>}
      /\ Becomes(w, Failed(w))
      /\ UNCHANGED <<file, book, puts, acked, nextId, opens>>

-----------------------------------------------------------------------------
(* close, and the first half of rotate_stack: flush_and_close the data,    *)
(* the meta and the index file.                                            *)

Close(w) ==
  /\ At(w, "idle")
  /\ Becomes(w,
       [writer[w] EXCEPT !.pc = "flush", !.call = "close", !.kind = "data"])
  /\ UNCHANGED <<file, book, puts, acked, skew, nextId, opens, faults>>

(* A file the writer no longer has is skipped; after the last one a close  *)
(* is over and a rotation goes on to open the next stack.                  *)
Flush(w) ==
  LET s == writer[w].sid
      k == writer[w].kind
      taken == [writer[w] EXCEPT !.have = @ \ {k}]
  IN  /\ At(w, "flush")
      /\ file' = IF k \in writer[w].have
                   THEN [file EXCEPT ![s][k] = Synced(file[s][k])]
                   ELSE file
      /\ \/ /\ k # "idx"
            /\ Becomes(w, [taken EXCEPT !.kind = NextKind(k)])
         \/ /\ k = "idx"
            /\ writer[w].call = "put"
            /\ Becomes(w, [taken EXCEPT !.kind = "data", !.pc = "resolve"])
         \/ /\ k = "idx"
            /\ writer[w].call = "close"
            /\ Becomes(w, Returned(taken))
      /\ UNCHANGED <<book, puts, acked, skew, nextId, opens, faults>>

FlushFails(w) ==
  /\ At(w, "flush")
  /\ writer[w].kind \in writer[w].have
  /\ Fault
  /\ Becomes(w, Failed(w))
  /\ UNCHANGED <<file, book, puts, acked, skew, nextId, opens>>

-----------------------------------------------------------------------------
(* The machine goes down.  Every writer is gone; of what was written but   *)
(* not synced, any records may survive.                                    *)

Unsynced ==
  UNION {UNION {{<<s, k, e>> : e \in file[s][k].recs \ Durable(s, k)}
                 : k \in Kinds} : s \in Sids}

Survived(s, k, kept) ==
  LET f    == file[s][k]
      recs == Durable(s, k) \cup {e \in f.recs : <<s, k, e>> \in kept}
      len  == IF recs = Durable(s, k) THEN f.synced ELSE f.len
  IN  [f EXCEPT !.len = len, !.synced = len, !.recs = recs]

Crash ==
  /\ Fault
  /\ \E kept \in SUBSET Unsynced :
       file' = [s \in Sids |-> [k \in Kinds |-> Survived(s, k, kept)]]
  /\ writer' = [w \in Writers |-> Gone]
  /\ UNCHANGED <<book, puts, acked, skew, nextId, opens>>

-----------------------------------------------------------------------------
(* The steps a call in progress takes when nothing goes wrong. *)
Step(w) ==
  \/ ResolveRemote(w)
  \/ ResolveLocal(w)
  \/ ProbeTaken(w)
  \/ ProbeFree(w)
  \/ Create(w)
  \/ CreateExists(w)
  \/ Header(w)
  \/ Build(w)
  \/ Write(w)
  \/ Sync(w)
  \/ Flush(w)

Failure(w) ==
  \/ ResolveRemoteFails(w)
  \/ ProbeFails(w)
  \/ CreateFails(w)
  \/ HeaderFails(w)
  \/ WriteFails(w)
  \/ SyncFails(w)
  \/ FlushFails(w)

Call(w) ==
  \/ Open(w)
  \/ \E n \in Sizes : Put(w, n)
  \/ Close(w)

Next ==
  \/ \E w \in Writers : Call(w) \/ Step(w) \/ Failure(w)
  \/ Crash

Spec == Init /\ [][Next]_vars

(* A caller that awaits a call keeps polling it, and every file operation  *)
(* and remote call returns: each step of a call in progress is taken       *)
(* unless a failure takes its place.  Calls themselves are the callers'    *)
(* choice, and failures are never required.                                *)
FairSpec == Spec /\ \A w \in Writers : WF_vars(Step(w))

-----------------------------------------------------------------------------
(* Type invariant: every variable has its type, a file's synced prefix is  *)
(* a prefix, and a put past its checks has all three files in hand         *)
(* (writer.rs:228, and the ok_or(StackClosed) of lines 245-247).           *)
TypeOK ==
  /\ file \in [Sids -> [Kinds -> File]]
  /\ writer \in [Writers -> Writer]
  /\ book \in [Puts -> Booked]
  /\ puts \in 0 .. MaxPuts
  /\ acked \subseteq Puts
  /\ skew \subseteq (Puts \X Kinds)
  /\ nextId \in Nat
  /\ opens \in 0 .. MaxOpens
  /\ faults \in 0 .. MaxFaults
  /\ \A s \in Sids, k \in Kinds : file[s][k].synced <= file[s][k].len
  /\ \A w \in Writers :
       writer[w].pc \in {"build", "write", "sync"} => writer[w].have = Kinds

(* Put n has a whole, synced record in the file of kind k of its stack. *)
Stored(n, k) == \E e \in Durable(book[n].sid, k) : e.put = n

(* RFC 6.3 for every crash and every failure: a record is in `.idx` only   *)
(* when its payload and its meta line are whole and on disk, so an index   *)
(* scan never leads to data that is not there (writer.rs:283-302).         *)
IndexAfterData ==
  \A s \in Sids : \A e \in file[s]["idx"].recs :
    /\ book[e.put].sid = s
    /\ Stored(e.put, "data")
    /\ Stored(e.put, "meta")

(* An index_id is returned only for a put that no crash can undo: all      *)
(* three of its records are on disk (writer.rs:285-306).                   *)
AckedDurable == \A n \in acked : \A k \in Kinds : Stored(n, k)

(* No earlier put to n's stack left uncounted bytes in its file k. *)
Straight(n, k) ==
  \A m \in Puts : m < n /\ book[m].sid = book[n].sid => <<m, k>> \notin skew

(* The offsets an acknowledged put handed out are where its records are,   *)
(* as long as no earlier put to that stack failed half way: data_offset    *)
(* and meta_offset, kept by hand, agree with the files (writer.rs:285-296).*)
(* The index record is where the readers' records of that size are, behind *)
(* the header (index.rs:28-30, 91-93).                                     *)
AckedLocated ==
  \A n \in acked :
    LET f == file[book[n].sid]
    IN  /\ Straight(n, "data") =>
             [at |-> book[n].off, put |-> n] \in f["data"].recs
        /\ Straight(n, "meta") =>
             [at |-> book[n].moff, put |-> n] \in f["meta"].recs
        /\ Straight(n, "idx") =>
             \E e \in f["idx"].recs : e.put = n /\ IdxPlace(e.at)

(* Put n left something in the files of its stack. *)
LeftTraces(n) ==
  \E k \in Kinds :
    \/ <<n, k>> \in skew
    \/ \E e \in file[book[n].sid][k].recs : e.put = n

(* The number of records before put n's in a file. *)
Rank(f, n) ==
  Cardinality({e \in f.recs : \A o \in f.recs : o.put = n => e.at < o.at})

(* The sequential readers (core bs_opendal_reader.rs:34-56, 69-117) pair   *)
(* the i-th index record with the i-th meta line and the i-th data record. *)
(* The pairing is right for every acknowledged put that no failed put to   *)
(* the same stack precedes.                                                *)
FilesInStep ==
  \A n \in acked :
    (\A m \in Puts :
       m < n /\ book[m].sid = book[n].sid => m \in acked \/ ~LeftTraces(m))
    => LET f == file[book[n].sid]
       IN  /\ Rank(f["idx"], n) = Rank(f["data"], n)
           /\ Rank(f["idx"], n) = Rank(f["meta"], n)

(* No two acknowledged puts share stack and offset: the index_id is unique *)
(* before its cookie is even looked at (writer.rs:219), whatever failed    *)
(* and whichever writers raced for a timestamp.                            *)
AckedIdsUnique ==
  \A m, n \in acked :
    m # n => <<book[m].sid, book[m].off>> # <<book[n].sid, book[n].off>>

(* The stacks a writer has files of, or is creating the files of. *)
Owns(w) ==
  {s \in Sids :
     \/ writer[w].have # {} /\ writer[w].sid = s
     \/ /\ writer[w].new = s
        /\ \/ At(w, "header")
           \/ At(w, "create") /\ writer[w].kind # "data"}

(* Two writers never write to one stack: of those that probed the same     *)
(* timestamp, create_new lets one through (writer.rs:110, 127-141).        *)
ExclusiveStack ==
  \A v, w \in Writers : v # w => Owns(v) \cap Owns(w) = {}

(* What is on disk stays there, where it is: no later put, open, rotation, *)
(* close or crash removes or moves a synced record (RFC 4, "append-only"). *)
NeverRewritten ==
  [][\A s \in Sids, k \in Kinds : Durable(s, k) \subseteq Durable(s, k)']_vars

(* A stack no writer owns any more, closed, rotated away or given up, is   *)
(* never written again; a crash can only take unsynced records from it     *)
(* (RFC 8.4, "the writer MUST reject further writes").                     *)
SealedFrozen ==
  [][\A s \in Sids :
       (file[s]["data"].there /\ \A w \in Writers : s \notin Owns(w))
       => \A k \in Kinds : /\ file'[s][k].recs \subseteq file[s][k].recs
                           /\ file'[s][k].len <= file[s][k].len]_vars

(* Every open, put and close comes back to its caller: the timestamp loop  *)
(* ends, and a put that has to rotate gets its new stack or an error       *)
(* (writer.rs:110-117, 170-175).                                           *)
CallReturns ==
  \A w \in Writers :
    writer[w].call # "none" ~> writer[w].call = "none"

(* Stated by writer.rs:219-221: the index_id returned by put "can be used  *)
(* later to retrieve the data": the record is at the offset it names.      *)
IdRetrieves ==
  \A n \in acked :
    [at |-> book[n].off, put |-> n] \in file[book[n].sid]["data"].recs
=============================================================================
