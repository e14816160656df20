--------------------------- MODULE OpendalReader ---------------------------
(***************************************************************************)
(* The reader of the core crate (core/src/sdk/bs_opendal_reader.rs) over   *)
(* the bucket that the writers of OpendalWriter fill at the same time.     *)
(*                                                                         *)
(* One reader lists the stacks, goes through one of them, by list_stack or *)
(* by an iterator without or with the payloads, and fetches the record of  *)
(* an index_id.  The iterators follow the index records and read meta      *)
(* lines and data records one after the other, from the sizes the index    *)
(* gives; nothing in them looks at offsets.  A step is one request to the  *)
(* store, one call of next, or one record taken into list_stack's result.  *)
(***************************************************************************)
EXTENDS OpendalWriter, Sequences

VARIABLE reader

vars == <<object, writer, book, puts, acked, abandoned, nextId, faults, reader>>

(* The put a file has at a position, or 0 for anything else there. *)
PutAt(o, at) ==
  IF \E e \in o.recs : e.at = at THEN (CHOOSE e \in o.recs : e.at = at).put ELSE 0

(* wanted: the files read beside the index; irs, meta, data: the index     *)
(* records left, each with its place in the index, and the positions of    *)
(* the two readers; seen: what was returned, each time the put of the      *)
(* index record and those of the meta line and payload that came with it;  *)
(* cut: a request of next failed, which only this model keeps;             *)
(* fetched: the put whose id the last fetch asked for, the one whose       *)
(* payload it got (0: an error), and whether it was due: its stack was     *)
(* published.  An error that was not due to be a payload is not kept.      *)
Reader ==
  [pc : {"idle", "header", "records", "meta", "data", "next", "end", "panic"},
   listed : SUBSET Sids,
   sid : Nat, wanted : SUBSET {"meta", "data"},
   irs : SUBSET Entry, meta : Nat, data : Nat,
   seen : Seq([ir : Puts, with : SUBSET (0 .. MaxPuts)]), cut : BOOLEAN,
   fetched : [ask : 0 .. MaxPuts, got : 0 .. MaxPuts, due : BOOLEAN]]

IdleReader ==
  [pc |-> "idle", listed |-> {}, sid |-> 0, wanted |-> {},
   irs |-> {}, meta |-> 0, data |-> 0, seen |-> <<>>, cut |-> FALSE,
   fetched |-> [ask |-> 0, got |-> 0, due |-> FALSE]]

Idle == reader.pc \in {"idle", "end"}

-----------------------------------------------------------------------------
(* list: the stacks whose index is there. *)
List ==
  /\ Idle
  /\ reader' = [IdleReader EXCEPT
                  !.listed = {s \in Sids : object[s]["idx"].there}]
  /\ UNCHANGED wvars

(* list_stack, list_stack_al_iter or list_stack_al_with_data_iter of a     *)
(* stack that was listed.                                                  *)
Iterate(s, wanted) ==
  /\ Idle
  /\ s \in reader.listed
  /\ reader' = [IdleReader EXCEPT !.pc = "header", !.sid = s, !.wanted = wanted]
  /\ UNCHANGED wvars

(* The index header is read; a wrong stack id is a panic, a missing object *)
(* an error.                                                               *)
ReadHeader ==
  LET o == object[reader.sid]["idx"]
  IN  /\ reader.pc = "header"
      /\ reader' = IF ~o.there THEN IdleReader
                   ELSE [reader EXCEPT
                          !.pc = IF o.head = reader.sid THEN "records" ELSE "panic"]
      /\ UNCHANGED wvars

(* All index records are read; the iterators go on to the meta file.       *)
ReadRecords ==
  /\ reader.pc = "records"
  /\ reader' = [reader EXCEPT
                  !.irs = object[reader.sid]["idx"].recs,
                  !.pc = IF "meta" \in reader.wanted THEN "meta" ELSE "next"]
  /\ UNCHANGED wvars

(* A reader behind the header of the meta or the data file.                *)
OpenReader(k) ==
  /\ reader.pc = k
  /\ reader' =
       IF object[reader.sid][k].there
         THEN [reader EXCEPT
                 ![k] = HeadSize(k),
                 !.pc = IF k = "meta" /\ "data" \in reader.wanted
                          THEN "data" ELSE "next"]
         ELSE IdleReader
  /\ UNCHANGED wvars

(* Mutant of DataStep: next reads the payload without its padding. *)
UnpaddedStep(size) == HeaderSize + size

(* What next reads of the data file for a payload of that size. *)
DataStep(size) == HeaderSize + PaddedDataSize(size)

(* No record begins where the reader of the file is. *)
Bad(k) == k \in reader.wanted /\ PutAt(object[reader.sid][k], reader[k]) = 0

(* next, and the loop of list_stack: the first index record is taken off   *)
(* and what follows in the files is read.                                  *)
IterateNext ==
  \E ir \in reader.irs :
    /\ reader.pc = "next"
    /\ \A e \in reader.irs : ir.at <= e.at
    /\ ~Bad("meta") /\ ~Bad("data")
    /\ reader' =
         [reader EXCEPT
            !.irs = @ \ {ir},
            !.meta = @ + MetaLine,
            !.data = IF "data" \in reader.wanted
                       THEN @ + DataStep(book[ir.put].size) ELSE @,
            !.seen = Append(@,
               [ir |-> ir.put, with |-> {PutAt(object[reader.sid][k], reader[k]) :
                                           k \in reader.wanted}])]
    /\ UNCHANGED wvars

(* None after the last index record, and for a meta line that does not     *)
(* parse or the end of a file as well; bytes without the magic number of a *)
(* data record are a panic.                                                *)
IterateEnds ==
  LET panics == ~Bad("meta") /\ Bad("data")
                  /\ reader.data < object[reader.sid]["data"].len
  IN  /\ reader.pc = "next"
      /\ reader.irs = {} \/ Bad("meta") \/ Bad("data")
      /\ reader' = [reader EXCEPT
                      !.pc = IF reader.irs # {} /\ panics THEN "panic" ELSE "end"]
      /\ UNCHANGED wvars

(* A request fails before there is an iterator, or the result of           *)
(* list_stack: the caller gets an error.                                   *)
IterateFails ==
  /\ reader.pc \in {"header", "records", "meta", "data"}
  /\ Fault
  /\ reader' = IdleReader
  /\ UNCHANGED <<object, writer, book, puts, acked, abandoned, nextId>>

(* A request of next fails: the index record is off, and the answer is     *)
(* None, which callers stop at.  list_stack has no requests left to make.  *)
NextFails ==
  \E ir \in reader.irs :
    /\ reader.pc = "next" /\ reader.wanted # {}
    /\ \A e \in reader.irs : ir.at <= e.at
    /\ Fault
    /\ reader' = [reader EXCEPT !.irs = @ \ {ir}, !.pc = "end", !.cut = TRUE]
    /\ UNCHANGED <<object, writer, book, puts, acked, abandoned, nextId>>

(* fetch of the index_id that put n returned: the record at the offset the *)
(* id gives, if its magic number and its cookie are right.                 *)
Fetch(n) ==
  LET id == ParseIndexId(FormatIndexId(book[n].off, book[n].cookie))
      m == PutAt(object[book[n].sid]["data"], id.off)
      ok == m # 0 /\ book[m].cookie = id.cookie
  IN  /\ Idle
      /\ n \in acked
      /\ reader' =
           IF ~ok /\ ~IsPublished(n) THEN IdleReader
           ELSE [IdleReader EXCEPT
                  !.fetched = [ask |-> n, got |-> IF ok THEN m ELSE 0,
                               due |-> IsPublished(n)]]
      /\ UNCHANGED wvars

FetchFails ==
  /\ Idle
  /\ acked # {}
  /\ Fault
  /\ reader' = IdleReader
  /\ UNCHANGED <<object, writer, book, puts, acked, abandoned, nextId>>

-----------------------------------------------------------------------------
ReaderNext ==
  \/ List
  \/ \E s \in Sids, wanted \in {{}, {"meta"}, {"meta", "data"}} : Iterate(s, wanted)
  \/ ReadHeader
  \/ ReadRecords
  \/ OpenReader("meta")
  \/ OpenReader("data")
  \/ IterateNext
  \/ IterateEnds
  \/ IterateFails
  \/ NextFails
  \/ \E n \in Puts : Fetch(n)
  \/ FetchFails

InitBoth == Init /\ reader = IdleReader

Next == (WriterNext /\ UNCHANGED reader) \/ ReaderNext

Spec == InitBoth /\ [][Next]_vars

-----------------------------------------------------------------------------
(* Properties. *)

(* The types of the writers' state and of the reader's                     *)
(* (bs_opendal_reader.rs:60-64).                                           *)
ReaderTypeOK == TypeOK /\ reader \in Reader

(* The puts whose index records were returned. *)
Seen == {reader.seen[i].ir : i \in DOMAIN reader.seen}

(* What an iterator returns belongs together: index record, meta line and  *)
(* payload are of one put, and it never meets bytes that are no record,    *)
(* whatever the writers do meanwhile.  It returns the stack from its       *)
(* beginning, in the order of the offsets and without a gap, and all of it *)
(* before its None, with one exception: a request of next that failed is   *)
(* answered by None as well, and the caller has a beginning of the stack   *)
(* for all of it (bs_opendal_reader.rs:32-57, 67-117, 210-434).            *)
IterateRight ==
  /\ reader.pc # "panic"
  /\ \A i \in DOMAIN reader.seen :
       /\ reader.seen[i].with \subseteq {reader.seen[i].ir}
       /\ i > 1 => book[reader.seen[i - 1].ir].off < book[reader.seen[i].ir].off
  /\ \A m \in Seen, n \in AckedIn(reader.sid) :
       book[n].off < book[m].off => n \in Seen
  /\ reader.pc = "end" /\ ~reader.cut => Seen = AckedIn(reader.sid)

(* A fetch never returns another put's payload, even of one with the same  *)
(* cookie, and it finds every acknowledged put whose stack is published    *)
(* (bs_opendal_reader.rs:435-499).                                         *)
FetchRight ==
  /\ reader.fetched.got # 0 => reader.fetched.got = reader.fetched.ask
  /\ reader.fetched.due => reader.fetched.got # 0
=============================================================================
