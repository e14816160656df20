-------------------------- MODULE OpendalWriterInv --------------------------
(***************************************************************************)
(* The inductive invariant behind the safety properties of OpendalWriter.  *)
(*                                                                         *)
(* That what is published is whole needs that the buffers of an            *)
(* InnerWriter hold exactly the acknowledged puts of its stack, which      *)
(* needs that no other writer ever works on that stack, which needs that   *)
(* stacks the Controller has not given out yet are untouched.              *)
(***************************************************************************)
EXTENDS OpendalWriter

(* The stack a writer works on. *)
Holds(w) == writer[w].inner \/ writer[w].pc = "create"

(* The locals of a call hold what the call has computed so far. *)
CallOK(w) ==
  LET r == writer[w]
  IN  /\ r.pc = "idle" <=> r.call = "none"
      /\ r.pc \in {"next", "create", "write"} => r.call = "put"
      /\ r.pc \in {"next", "create"} => ~r.inner
      /\ r.pc # "close" => r.kind = "data"
      /\ r.call = "put" => r.put \in 1 .. puts /\ r.put \notin acked
      /\ r.flushed \/ r.poisoned => ~r.inner /\ r.pc = "idle"
      /\ Holds(w) => r.sid \in Sids /\ r.sid < nextId

(* Calls in progress are about different puts and different stacks. *)
Apart ==
  \A v, w \in Writers : v # w =>
    /\ writer[v].call = "put" /\ writer[w].call = "put" =>
         writer[v].put # writer[w].put
    /\ Holds(v) /\ Holds(w) => writer[v].sid # writer[w].sid

Untouched(s) == AckedIn(s) = {} /\ \A k \in Kinds : object[s][k] = NoObject

(* A stack not given out yet, or just given out, is untouched. *)
FreshOK ==
  /\ \A s \in Sids : s >= nextId => Untouched(s)
  /\ \A w \in Writers : At(w, "create") => Untouched(writer[w].sid)

(* The kinds InnerWriter::close has published before it comes to k. *)
Before(k) == IF k = "data" THEN {} ELSE IF k = "meta" THEN {"data"} ELSE {"data", "meta"}

(* An InnerWriter's buffers hold the acknowledged puts of its stack, its   *)
(* offsets are where the buffers end, and of its objects those closed so   *)
(* far are there.                                                          *)
InnerOK(w) ==
  LET r == writer[w]
  IN  r.inner =>
        /\ \A k \in Kinds : r.buf[k].there /\ r.buf[k].head = r.sid
        /\ r.buf["data"].len = r.off /\ r.buf["meta"].len = r.moff
        /\ r.buf["data"].recs = {[at |-> book[n].off, put |-> n] : n \in AckedIn(r.sid)}
        /\ r.buf["meta"].recs = {[at |-> book[n].moff, put |-> n] : n \in AckedIn(r.sid)}
        /\ {e.put : e \in r.buf["idx"].recs} = AckedIn(r.sid)
        /\ \A n \in AckedIn(r.sid) : book[n].off < r.off
        /\ \A k \in Kinds :
             object[r.sid][k] = IF k \in Before(r.kind) THEN r.buf[k] ELSE NoObject

(* Every acknowledged put is published, in its writer's buffers, or in an  *)
(* abandoned stack.                                                        *)
Accounted ==
  \A n \in acked :
    /\ n <= puts
    /\ book[n].sid \in Sids /\ book[n].sid < nextId
    /\ book[n].by \in Writers
    /\ \/ IsPublished(n)
       \/ book[n].sid \in abandoned
       \/ writer[book[n].by].inner /\ writer[book[n].by].sid = book[n].sid

IInv ==
  /\ TypeOK
  /\ \A w \in Writers : CallOK(w) /\ InnerOK(w)
  /\ Apart
  /\ FreshOK
  /\ Accounted
  /\ PublishedWhole
  /\ AckedIdsUnique
=============================================================================
