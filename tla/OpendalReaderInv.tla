-------------------------- MODULE OpendalReaderInv --------------------------
(***************************************************************************)
(* The inductive invariant behind IterateRight and FetchRight.             *)
(*                                                                         *)
(* The iterators add up sizes and never look at an offset.  That they end  *)
(* up where the writer put the records needs that the three files of a     *)
(* stack are laid out in step: records in one order, each beginning where  *)
(* the one before ends.                                                    *)
(***************************************************************************)
EXTENDS OpendalReader, OpendalWriterInv

(* The record of index entry f comes right behind that of e in all files, *)
(* where bk is the book.                                                   *)
Follows(bk, e, f) ==
  /\ f.at = e.at + IdxSize
  /\ bk[f.put].moff = bk[e.put].moff + MetaLine
  /\ bk[f.put].off = bk[e.put].off + DataAdvance(bk[e.put].size)

(* The record of index entry e is the first one in all files. *)
Leads(bk, e) ==
  /\ e.at = HeadSize("idx")
  /\ bk[e.put].moff = HeadSize("meta")
  /\ bk[e.put].off = HeadSize("data")

(* The record of index entry e is the last one in files b. *)
Ends(bk, b, e) ==
  /\ b["idx"].len = e.at + IdxSize
  /\ b["meta"].len = bk[e.put].moff + MetaLine
  /\ b["data"].len = bk[e.put].off + DataAdvance(bk[e.put].size)

(* The record of index entry e comes before that of f in all files. *)
Precedes(bk, e, f) ==
  /\ e.at + IdxSize <= f.at
  /\ bk[e.put].moff < bk[f.put].moff
  /\ bk[e.put].off < bk[f.put].off

(* Three files, buffers or objects, are laid out in step. *)
Laid(bk, b) ==
  LET recs == b["idx"].recs
  IN  /\ recs = {} => \A k \in Kinds : b[k].len = HeadSize(k)
      /\ recs # {} => \E e \in recs : Leads(bk, e)
      /\ \A e \in recs :
           /\ HeadSize("idx") <= e.at /\ e.at + IdxSize <= b["idx"].len
           /\ bk[e.put].moff < b["meta"].len
           /\ Ends(bk, b, e) \/ \E f \in recs : Follows(bk, e, f)
      /\ \A e, f \in recs : e = f \/ Precedes(bk, e, f) \/ Precedes(bk, f, e)

(* Buffers and published stacks are laid out in step. *)
LaidOut ==
  /\ \A w \in Writers : writer[w].inner => Laid(book, writer[w].buf)
  /\ \A s \in Sids : object[s]["idx"].there => Laid(book, object[s])

(* A data object, published or not, holds acknowledged puts only, where    *)
(* their ids say; and the cookies are those drawn.                         *)
DataObjects ==
  /\ \A s \in Sids : \A e \in object[s]["data"].recs :
       e.put \in AckedIn(s) /\ book[e.put].off = e.at
  /\ \A n \in acked : book[n].cookie \in Cookies

(* The index records of the stack that is read. *)
IndexOf == object[reader.sid]["idx"].recs

(* The record of index entry e is where the readers are. *)
Here(e) ==
  /\ "meta" \in reader.wanted => reader.meta = book[e.put].moff
  /\ "data" \in reader.wanted => reader.data = book[e.put].off

(* A reader works on a stack that is published; what it has returned and   *)
(* what is left are the whole index, and it is at the first that is left.  *)
(* At the end it has returned the whole index, unless a request failed.    *)
ReaderOK ==
  /\ \A s \in reader.listed : object[s]["idx"].there
  /\ reader.wanted \in {{}, {"meta"}, {"meta", "data"}}
  /\ reader.pc \in {"meta", "data"} => reader.pc \in reader.wanted
  /\ reader.pc # "idle" => reader.sid \in Sids /\ object[reader.sid]["idx"].there
  /\ reader.pc \in {"idle", "header", "records"} => reader.seen = <<>>
  /\ reader.pc \in {"meta", "data"} => reader.seen = <<>> /\ reader.irs = IndexOf
  /\ reader.pc = "data" => reader.meta = HeadSize("meta")
  /\ reader.pc = "next" =>
       /\ Seen = {e.put : e \in IndexOf \ reader.irs}
       /\ reader.irs \subseteq IndexOf
       /\ reader.irs # {} =>
            \E e \in reader.irs :
              Here(e) /\ reader.irs = {f \in IndexOf : e.at <= f.at}
       /\ \A i \in DOMAIN reader.seen : \A e \in reader.irs :
            book[reader.seen[i].ir].off < book[e.put].off
  /\ reader.pc = "end" =>
       /\ Seen \subseteq {e.put : e \in IndexOf}
       /\ reader.cut \/ Seen = {e.put : e \in IndexOf}

(* The writers' part of the inductive invariant, and the reader's. *)
StoreIInv == IInv /\ LaidOut /\ DataObjects

ReaderIInv == reader \in Reader /\ ReaderOK /\ IterateRight /\ FetchRight

ReadIInv == StoreIInv /\ ReaderIInv
=============================================================================
