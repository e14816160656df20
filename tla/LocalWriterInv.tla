--------------------------- MODULE LocalWriterInv ---------------------------
(***************************************************************************)
(* The inductive invariants behind the safety properties of LocalWriter:   *)
(* IInv, and FilesIInv on top of it for where the records are.             *)
(*                                                                         *)
(* None of the properties is inductive by itself: that a synced record is  *)
(* never lost needs that open_stack writes its headers into empty files    *)
(* only, which needs that no other writer owns the stack being opened,     *)
(* which needs create_new and the order in which the files are created.    *)
(***************************************************************************)
EXTENDS LocalWriter

(* The locals of a call hold what the call has computed so far. *)
CallOK(w) ==
  LET r == writer[w]
  IN  /\ r.pc \in {"gone", "idle"} <=> r.call = "none"
      /\ r.pc = "gone" => r = Gone
      /\ r.pc \in {"build", "write", "sync"} => r.call = "put" /\ r.have = Kinds
      /\ r.pc \in {"resolve", "probe", "create", "header"} =>
           r.have = {} /\ r.call \in {"open", "put"}
      /\ r.pc = "flush" => r.call \in {"put", "close"}
      /\ r.pc = "flush" /\ r.kind # "data" => "data" \notin r.have
      /\ r.pc = "flush" /\ r.kind = "idx" => r.have \subseteq {"idx"}
      /\ r.pc \in {"probe", "create", "header"} => r.new \in Sids
      /\ r.pc \in {"resolve", "probe"} => r.kind = "data"
      /\ r.have # {} => r.sid \in Sids
      /\ r.call = "put" => r.put \in Puts /\ r.put <= puts /\ r.size \in Nat

(* Puts in progress have numbers of their own, not yet acknowledged. *)
NumbersOK ==
  /\ \A n \in acked : n <= puts /\ book[n].sid \in Sids
  /\ \A w \in Writers : writer[w].call = "put" => writer[w].put \notin acked
  /\ \A v, w \in Writers :
       v # w /\ writer[v].call = "put" /\ writer[w].call = "put"
       => writer[v].put # writer[w].put

(* `.data` is created first; records end within their file and lie in the *)
(* stack their put was booked for.                                         *)
FilesOK ==
  /\ \A s \in Sids, k \in Kinds :
       ~file[s]["data"].there => file[s][k] = NoFile
  /\ \A s \in Sids, k \in Kinds : \A e \in file[s][k].recs :
       /\ book[e.put].sid = s
       /\ EntryEnd(k, e) <= file[s][k].len
       /\ e.put <= puts

(* A put that has not built its records left no record anywhere. *)
UnbuiltOK ==
  \A w \in Writers :
    writer[w].call = "put" /\ writer[w].pc \notin {"write", "sync"} =>
      \A s \in Sids, k \in Kinds : \A e \in file[s][k].recs :
        e.put # writer[w].put

(* Owned stacks exist, have one owner, and are empty while being created. *)
OwnersOK ==
  /\ \A w \in Writers : \A s \in Owns(w) : file[s]["data"].there
  /\ ExclusiveStack
  /\ \A w \in Writers : \A s \in Owns(w) :
       writer[w].pc \in {"create", "header"} =>
         \A k \in Kinds : file[s][k].recs = {} /\ file[s][k].synced = 0

(* How far the put in progress has come. *)
PutOK(w) ==
  LET r == writer[w]
      b == book[r.put]
  IN  r.pc \in {"write", "sync"} =>
        /\ b.sid = r.sid /\ b.size = r.size
        /\ r.kind # "data" => Stored(r.put, "data")
        /\ r.kind = "idx" => Stored(r.put, "meta")
        /\ r.pc = "sync" =>
             \E e \in file[r.sid][r.kind].recs : e.put = r.put

(* data_offset is beyond every offset acknowledged in the writer's stack,  *)
(* and the put in progress has an offset of its own.                       *)
OffsetOK(w) ==
  LET r == writer[w]
  IN  r.have = Kinds =>
        /\ \A n \in acked : book[n].sid = r.sid => book[n].off < r.off
        /\ r.pc \in {"write", "sync"} =>
             /\ r.kind = "data" => book[r.put].off = r.off
             /\ r.kind # "data" => book[r.put].off < r.off
             /\ \A n \in acked :
                  book[n].sid = r.sid => book[n].off < book[r.put].off

IInv ==
  /\ TypeOK
  /\ \A w \in Writers : CallOK(w)
  /\ NumbersOK
  /\ FilesOK
  /\ UnbuiltOK
  /\ OwnersOK
  /\ \A w \in Writers : PutOK(w) /\ OffsetOK(w)
  /\ IndexAfterData
  /\ AckedDurable
  /\ AckedIdsUnique

-----------------------------------------------------------------------------
(* The inductive invariant behind AckedLocated and FilesInStep, on top of  *)
(* IInv: where the bytes of a stack's files are.  The offsets a writer     *)
(* keeps are where its files end until a put to the stack fails half way,  *)
(* and records lie in the order of their puts whatever fails; for which    *)
(* nobody else may have booked a put for the stack, nor book one after it  *)
(* is given up.                                                            *)

(* Puts are booked for stacks that are there; none for one that is being   *)
(* created, and none after the put that is being written.                  *)
BookOK ==
  /\ \A m \in Puts :
       book[m].sid \in Sids => m <= puts /\ file[book[m].sid]["data"].there
  /\ \A w \in Writers : \A s \in Owns(w) :
       writer[w].pc \in {"create", "header"} => \A m \in Puts : book[m].sid # s
  /\ \A w \in Writers : writer[w].call = "put" /\ writer[w].have = Kinds =>
       \A m \in Puts : book[m].sid = writer[w].sid => m <= writer[w].put

(* Only puts that are over have left bytes nobody counts. *)
SkewOK ==
  \A m \in Puts, k \in Kinds : <<m, k>> \in skew =>
    /\ m <= puts
    /\ \A w \in Writers : writer[w].call = "put" => writer[w].put # m

(* No put to stack s left uncounted bytes in its file k. *)
Clean(s, k) == \A m \in Puts : book[m].sid = s => <<m, k>> \notin skew

(* A record that was written and not yet counted. *)
Ahead(r, k) == IF r.pc = "sync" /\ r.kind = k THEN EntrySize(k, r.size) ELSE 0

(* The files of an open stack end where its writer believes, and those of  *)
(* one that is being opened after their headers.                           *)
LenOK(w) ==
  LET r == writer[w]
  IN  /\ r.have = Kinds =>
           /\ Clean(r.sid, "data") =>
                file[r.sid]["data"].len = r.off + Ahead(r, "data")
           /\ Clean(r.sid, "meta") =>
                file[r.sid]["meta"].len = r.moff + Ahead(r, "meta")
           /\ Clean(r.sid, "idx") => IdxPlace(file[r.sid]["idx"].len)
      /\ r.pc = "header" =>
           /\ r.kind # "data" => file[r.new]["data"].len = HeadSize("data")
           /\ r.kind = "meta" => file[r.new]["idx"].len = HeadSize("idx")

(* The files a put has gone through before it comes to k. *)
Before(k) == IF k = "data" THEN {} ELSE IF k = "meta" THEN {"data"} ELSE {"data", "meta"}

(* Record e is the one of put n, and where the index_id or the readers of  *)
(* its kind expect it.                                                     *)
Placed(n, k, e) ==
  /\ e.put = n
  /\ k = "data" => e.at = book[n].off
  /\ k = "meta" => e.at = book[n].moff
  /\ k = "idx" => IdxPlace(e.at)

PlacedIn(n, k, recs) == Straight(n, k) => \E e \in recs : Placed(n, k, e)

(* What was written of the put in progress is where it was booked for, and *)
(* the rest is not there yet.                                              *)
PlaceOK(w) ==
  LET r == writer[w]
      n == r.put
  IN  r.pc \in {"write", "sync"} =>
        /\ r.kind \in {"data", "meta"} => book[n].moff = r.moff
        /\ \A k \in Before(r.kind) : PlacedIn(n, k, Durable(r.sid, k))
        /\ r.pc = "sync" => PlacedIn(n, r.kind, file[r.sid][r.kind].recs)
        /\ \A k \in Kinds \ Before(r.kind) : r.pc = "write" \/ k # r.kind =>
             \A e \in file[r.sid][k].recs : e.put # n

AckedPlaced ==
  \A n \in acked : \A k \in Kinds : PlacedIn(n, k, Durable(book[n].sid, k))

(* The records of a file lie in the order of their puts, one for each. *)
OrderOK ==
  \A s \in Sids, k \in Kinds : \A e, f \in file[s][k].recs :
    /\ e.put = f.put => e = f
    /\ e.put < f.put => e.at < f.at

FilesIInv ==
  /\ IInv
  /\ BookOK /\ SkewOK
  /\ \A w \in Writers : LenOK(w) /\ PlaceOK(w)
  /\ AckedPlaced /\ OrderOK
=============================================================================
