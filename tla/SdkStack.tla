------------------------------ MODULE SdkStack ------------------------------
(***************************************************************************)
(* What the writers of the Go and of the Python SDK have in common: the    *)
(* directory or bucket they write to, the records a put computes, and what *)
(* a caller relies on.                                                     *)
(*                                                                         *)
(* In both SDKs nobody but its writer touches the files of an open stack.  *)
(* A stretch of a call between two points where another writer matters is  *)
(* therefore one step, and a failure within it leaves any prefix of its    *)
(* effects behind.                                                         *)
(***************************************************************************)
EXTENDS StackFormat, FiniteSets

CONSTANTS
  Writers,    \* the writer objects sharing the directory or bucket
  Sizes,      \* payload sizes callers use
  MaxData,    \* max_data_bytes
  MaxSid,     \* bound on stack ids
  MaxPuts,    \* bound on puts that get as far as building their records
  MaxFaults   \* bound on I/O errors, failed requests and deaths

Sids == 1 .. MaxSid
Puts == 1 .. MaxPuts

ASSUME SizesAssumption == Sizes \subseteq Nat /\ MaxData \in Nat
ASSUME BoundsAssumption ==
  MaxSid \in Nat /\ MaxPuts \in Nat /\ MaxFaults \in Nat

VARIABLES
  backend,  \* "file": a directory, ids from the clock; "s3": a bucket,
            \* ids from the Controller
  disk,     \* disk[s][k]: the file or object of kind k of stack s
  writer,   \* writer[w]: the writer's fields and the call it is in
  book,     \* book[n]: the fields put n computed, and its writer
  puts,     \* number of puts begun
  acked,    \* puts whose index_id was returned
  hurt,     \* <<s, why>>: stack s was left in a state a later call misreads
  nextId,   \* the Controller's next_stack_id
  faults

vars == <<backend, disk, writer, book, puts, acked, hurt, nextId, faults>>

(* A whole record and its position; a file's magic header is put 0. *)
Entry == [at : Nat, put : 0 .. MaxPuts]

Blob == [there : BOOLEAN, len : Nat, recs : SUBSET Entry]

Nothing == [there |-> FALSE, len |-> 0, recs |-> {}]
Empty   == [there |-> TRUE, len |-> 0, recs |-> {}]

MagicHeader == [at |-> 0, put |-> 0]
Headed(k) == [there |-> TRUE, len |-> HeadSize(k), recs |-> {MagicHeader}]

Booked == [sid : Nat, off : Nat, moff : Nat, size : Nat,
           by : Writers \cup {"none"}]

InitWith(fresh) ==
  /\ backend \in {"file", "s3"}
  /\ disk = [s \in Sids |-> [k \in Kinds |-> Nothing]]
  /\ writer = [w \in Writers |-> fresh]
  /\ book = [n \in Puts |->
               [sid |-> 0, off |-> 0, moff |-> 0, size |-> 0, by |-> "none"]]
  /\ puts = 0
  /\ acked = {}
  /\ hurt = {}
  /\ nextId = 1
  /\ faults = 0

-----------------------------------------------------------------------------
At(w, pc) == writer[w].pc = pc
Becomes(w, r) == writer' = [writer EXCEPT ![w] = r]
Fault == faults < MaxFaults /\ faults' = faults + 1

(* The end of a call; a writer that cannot be opened is given up. *)
Dead == [pc |-> "dead"]
Returned(r) == [r EXCEPT !.pc = "idle", !.call = "none", !.size = 0, !.put = 0]
Failed(r) == IF r.call = "open" THEN Dead ELSE Returned(r)

(* The kinds a loop over `order` is done with when it fails at kind k. *)
Before(order, k) ==
  {order[i] : i \in {j \in DOMAIN order : \A h \in 1 .. j : order[h] # k}}

(* Of the bytes a failed write was to append, none, some or all arrive. *)
Parts(size) == {0, size \div 2, size}

Appended(b, n, size) ==
  [b EXCEPT !.len = @ + size, !.recs = @ \cup {[at |-> b.len, put |-> n]}]

PartlyAppended(b, n, size, part) ==
  IF part = size THEN Appended(b, n, size) ELSE [b EXCEPT !.len = @ + part]

(* What a put writes to a file of kind k, as the SDKs compute it. *)
SdkEntrySize(k, n) == IF k = "data" THEN SdkRecordSize(n) ELSE EntrySize(k, n)

-----------------------------------------------------------------------------
(* The stack id, asked for by open or by a rotation.  The clock may show   *)
(* anything, and the loop that follows ends at an id without a `.data`     *)
(* file.                                                                   *)
Asking(w) ==
  IF At(w, "new") THEN [writer[w] EXCEPT !.call = "open"] ELSE writer[w]

IdFor(s) ==
  \/ /\ backend = "s3"
     /\ s = nextId
     /\ nextId' = nextId + 1
  \/ /\ backend = "file"
     /\ ~disk[s]["data"].there
     /\ UNCHANGED nextId

(* The Controller is not reached, or its reply is lost. *)
ResolveFails(w) ==
  /\ At(w, "new") \/ At(w, "resolve")
  /\ Fault
  /\ nextId' \in {nextId, nextId + 1}
  /\ Becomes(w, Failed(Asking(w)))
  /\ UNCHANGED <<backend, disk, book, puts, acked, hurt>>

OpenOrder == <<"data", "idx", "meta">>

(* Mutant of Exists: a file is opened that may exist, and truncated. *)
NeverExists(s) == FALSE

(* Another writer created the stack after this one saw that it is free. *)
Exists(s) == backend = "file" /\ disk[s]["data"].there

(* Empty files have been created for the kinds in ks. *)
Created(s, ks) ==
  IF backend = "file"
    THEN [disk EXCEPT ![s] = [k \in Kinds |-> IF k \in ks THEN Empty ELSE @[k]]]
    ELSE disk

-----------------------------------------------------------------------------
(* What a put computes. *)

(* Mutant of NeedsRotation: the payload about to be written is forgotten. *)
RotatesLate(r, n) == r.raw > MaxData

NeedsRotation(r, n) == r.raw + n > MaxData

(* Mutant of WriteOrder: the index goes before the meta line. *)
IndexBeforeMeta == <<"data", "idx", "meta">>

WriteOrder == <<"data", "meta", "idx">>

Recorded(r, w) ==
  [sid |-> r.sid, off |-> r.off, moff |-> r.moff, size |-> r.size, by |-> w]

(* Mutant of Advanced: the data offset leaves the padding out. *)
Unpadded(r, ks) ==
  [r EXCEPT !.off = @ + IF "data" \in ks THEN HeaderSize + r.size ELSE 0,
            !.moff = @ + IF "meta" \in ks THEN MetaLine ELSE 0]

(* The offsets once the records of the kinds in ks are written. *)
Advanced(r, ks) ==
  [r EXCEPT !.off = @ + IF "data" \in ks THEN SdkRecordSize(r.size) ELSE 0,
            !.moff = @ + IF "meta" \in ks THEN MetaLine ELSE 0]

-----------------------------------------------------------------------------
(* The fields of a put whose records are in the directory or bucket: the   *)
(* three files with their magic headers, and its records at the offsets    *)
(* the index_id and the index record give.                                 *)
Holds(f, n) ==
  /\ \A k \in Kinds : MagicHeader \in f[k].recs
  /\ [at |-> book[n].off, put |-> n] \in f["data"].recs
  /\ [at |-> book[n].moff, put |-> n] \in f["meta"].recs
  /\ \E e \in f["idx"].recs : e.put = n

Published(n) == Holds(disk[book[n].sid], n)

(* The types of the state, for writers of type W. *)
TypesOK(W) ==
  /\ backend \in {"file", "s3"}
  /\ disk \in [Sids -> [Kinds -> Blob]]
  /\ writer \in [Writers -> W \cup {Dead}]
  /\ book \in [Puts -> Booked]
  /\ puts \in 0 .. MaxPuts /\ acked \subseteq 1 .. puts
  /\ hurt \subseteq Sids \X {"write", "shut", "retried", "overwritten"}
  /\ nextId \in Nat /\ faults \in 0 .. MaxFaults

Hurt(s, why) == <<s, why>> \in hurt

(* RFC 9: the payload is there before the index lists it.                  *)
IndexedDataThere(s) ==
  \A e \in disk[s]["idx"].recs \ {MagicHeader} : \A k \in {"data", "meta"} :
    \E f \in disk[s][k].recs : f.put = e.put

=============================================================================
