--------------------------- MODULE PyWriterProofs ---------------------------
(***************************************************************************)
(* The safety properties of PyWriter, for any writers, payloads, stacks    *)
(* and failures, over both backends.                                       *)
(***************************************************************************)
EXTENDS PyWriter, SdkStackProofs

(* The offsets of r are where its files end, behind their magic headers.   *)
InStep(r) ==
  /\ r.off = r.buf["data"].len /\ r.moff = r.buf["meta"].len
  /\ \A k \in Kinds : MagicHeader \in r.buf[k].recs

(* How far the call of r is. *)
CallOK(r) ==
  /\ r.call # "close" /\ (r.call = "none" <=> r.pc \in {"new", "idle"})
  /\ r.call = "open" => r.pc = "create"
  /\ r.pc \in {"new", "resolve", "create"} => r.have = {} /\ r.shut = {}
  /\ r.pc # "idle" \/ r.have # {} => r.client
  /\ r.pc = "create" =>
       /\ r.sid \in Sids /\ r.off = HeadSize("data") /\ r.raw = 0
       /\ backend = "s3" =>
            r.sid < nextId /\ \A k \in Kinds : disk[r.sid][k] = Nothing
  /\ r.pc = "write" => r.have = Kinds /\ r.shut = {} /\ r.raw = 0
  /\ r.call = "put" =>
       r.put \in 1 .. puts /\ r.put \notin acked /\ r.size <= MaxData

(* The files of a LocalWriter hold what was flushed of its buffers, and    *)
(* the payload and meta line of whatever its index buffer lists.           *)
FilesOK(r) ==
  LET f == disk[r.sid]
  IN  /\ "data" \in r.have
      /\ \A k \in r.have : r.buf[k].there /\ f[k].there
      /\ \A k \in Kinds : f[k].recs \subseteq r.buf[k].recs
      /\ \A e \in r.buf["idx"].recs \ {MagicHeader} : \A k \in {"data", "meta"} :
           \E g \in f[k].recs : g.put = e.put

(* An S3Writer has put at most its data object until one of its buffers is *)
(* closed.  Its data buffer holds whole records of puts that returned, and *)
(* its position is not behind them.                                        *)
ObjectsOK(r) ==
  /\ r.have = Kinds /\ r.sid < nextId
  /\ r.pos <= r.buf["data"].len
  /\ \A e \in r.buf["data"].recs :
       (e.put = 0 \/ e.put \in acked) /\ EntryEnd(e) <= r.buf["data"].len
  /\ r.shut = {} => \A k \in {"meta", "idx"} : disk[r.sid][k] = Nothing
  /\ ~Hurt(r.sid, "overwritten") =>
       /\ Indexed(r.buf)
       /\ r.shut = {} => disk[r.sid]["data"].recs \subseteq r.buf["data"].recs

(* What r knows of its stack. *)
StackOK(r) ==
  /\ r.raw <= MaxData
  /\ r.shut \subseteq r.have
  /\ r.shut # {} /\ backend = "s3" => Hurt(r.sid, "shut")
  /\ r.have # {} =>
       /\ r.sid \in Sids
       /\ backend = "file" => FilesOK(r)
       /\ backend = "s3" => ObjectsOK(r)
  /\ r.have = Kinds /\ ~Hurt(r.sid, "write") /\ ~Hurt(r.sid, "overwritten") => InStep(r)

(* The stacks of w: the open one, and one a Controller has given it.       *)
Uses(w) ==
  {s \in Sids :
     /\ writer[w].sid = s
     /\ writer[w].have # {} \/ (backend = "s3" /\ At(w, "create"))}

Living == {w \in Writers : ~At(w, "dead")}

(* Living writers have stacks and put numbers of their own. *)
Apart ==
  \A v, w \in Living : v # w =>
    /\ Uses(v) \cap Uses(w) = {}
    /\ writer[v].call = "put" /\ writer[w].call = "put"
         => writer[v].put # writer[w].put

(* `.data` is created first, and ids not yet given out name nothing.       *)
DiskOK ==
  /\ backend = "file" =>
       \A s \in Sids, k \in Kinds : ~disk[s]["data"].there => disk[s][k] = Nothing
  /\ backend = "s3" =>
       \A s \in Sids, k \in Kinds : s >= nextId => disk[s][k] = Nothing

BookOK == \A n \in acked : book[n].sid \in Sids /\ book[n].by \in Writers

IInv ==
  /\ TypesOK(Writer)
  /\ \A w \in Living : CallOK(writer[w]) /\ StackOK(writer[w])
  /\ Apart /\ DiskOK /\ BookOK
  /\ IndexAfterData /\ AckedKept
-----------------------------------------------------------------------------
(* A writer that has returned from a call.                                 *)
LEMMA ReturnedFields ==
  ASSUME NEW r \in Writer
  PROVE  /\ Returned(r) \in Writer
         /\ Returned(r).pc = "idle" /\ Returned(r).call = "none"
         /\ Returned(r).have = r.have /\ Returned(r).client = r.client
         /\ Returned(r).shut = r.shut /\ Returned(r).buf = r.buf
         /\ Returned(r).pos = r.pos
         /\ Returned(r).sid = r.sid /\ Returned(r).off = r.off
         /\ Returned(r).moff = r.moff /\ Returned(r).raw = r.raw
BY DEF Returned, Writer

(* Only the dead are dead.                                                 *)
LEMMA DeadOrAlive ==
  /\ Dead.pc = "dead" /\ \A r \in Writer : r.pc # "dead"
  /\ TypesOK(Writer) =>
       \A w \in Writers : ~At(w, "dead") => writer[w] \in Writer
BY DEF Dead, Writer, TypesOK, At
-----------------------------------------------------------------------------
(* What a step of w may do to the writers, the disk and the puts.          *)

WriterStep(w) ==
  LET r == writer[w]
      q == writer'[w]
  IN  /\ TypesOK(Writer)'
      /\ \A v \in Writers : v # w => writer'[v] = writer[v]
      /\ r.pc # "dead"
      /\ backend' = backend /\ hurt \subseteq hurt'
      /\ puts' \in {puts, puts + 1} /\ nextId <= nextId'
      /\ q.pc # "dead" =>
           /\ (CallOK(writer[w]) /\ StackOK(writer[w]))'
           /\ q.call = "put" => \/ r.call = "put" /\ q.put = r.put
                                \/ q.put = puts + 1 /\ puts' = puts + 1
           /\ \A s \in Uses(w)' :
                \/ s \in Uses(w)
                \/ backend = "s3" /\ s >= nextId
                \/ backend = "file" /\ ~disk[s]["data"].there

(* Only the stacks of w change, and their files and objects grow, but for  *)
(* a data object made of an overwritten buffer.                            *)
DiskStep(w) ==
  \A s \in Sids : disk'[s] # disk[s] =>
    /\ s \in Uses(w) \/ (backend = "file" /\ ~disk[s]["data"].there)
    /\ backend = "file" => disk'[s]["data"].there
    /\ ~Hurt(s, "overwritten")' =>
         /\ \A k \in Kinds : disk[s][k].recs \subseteq disk'[s][k].recs
         /\ Indexed(disk'[s])

(* A put is acknowledged by the writer that has it in its buffers. *)
BookStep(w) ==
  LET r == writer[w]
      q == writer'[w]
  IN  /\ \A n \in acked : n \in acked' /\ book'[n] = book[n]
      /\ \A n \in acked' : n \notin acked =>
           /\ q.pc = "idle" /\ q.have = Kinds /\ q.shut = {} /\ q.client
           /\ book'[n].sid = q.sid /\ book'[n].by = w
           /\ <<q.sid, "write">> \notin hurt' /\ <<q.sid, "overwritten">> \notin hurt'
                => HoldsAs(q.buf, book'[n], n)
           /\ backend = "file" => disk'[q.sid] = q.buf
           /\ \/ r.call = "put" /\ n = r.put
              \/ n = puts + 1

(* What becomes of buffers nobody has tried to close yet. *)
BufferStep(w) ==
  LET r == writer[w]
      q == writer'[w]
  IN  backend = "s3" /\ r.have = Kinds /\ r.shut = {} /\ r.client =>
        \/ q.pc = "dead"
        \/ <<r.sid, "shut">> \in hurt' \/ <<r.sid, "overwritten">> \in hurt'
        \/ disk'[r.sid] = r.buf
        \/ /\ q.have = Kinds /\ q.shut = {} /\ q.client /\ q.sid = r.sid
           /\ \A k \in Kinds : r.buf[k].recs \subseteq q.buf[k].recs

Step(w) == WriterStep(w) /\ DiskStep(w) /\ BookStep(w) /\ BufferStep(w)

(* The stacks a living writer uses exist, or are promised to it.           *)
LEMMA UsedStacks ==
  ASSUME IInv, NEW w \in Living, NEW s \in Uses(w)
  PROVE  /\ s \in Sids
         /\ backend = "s3" => s < nextId
         /\ backend = "file" => disk[s]["data"].there
BY DEF IInv, Uses, CallOK, StackOK, FilesOK, ObjectsOK, At

(* A step of w does not touch what the others use.                         *)
LEMMA OthersStacks ==
  ASSUME IInv, NEW w \in Writers, Step(w), NEW v \in Living, v # w,
         NEW s \in Uses(v)
  PROVE  disk'[s] = disk[s]
<1>1. w \in Living /\ s \in Sids /\ s \notin Uses(w)
  BY UsedStacks DEF Step, WriterStep, Living, At, IInv, Apart
<1>2. backend = "file" => disk[s]["data"].there
  BY UsedStacks
<1> QED BY <1>1, <1>2 DEF Step, DiskStep

(* The numbers of puts in progress are not those being acknowledged.       *)
LEMMA OthersNumbers ==
  ASSUME IInv, NEW w \in Writers, Step(w), NEW v \in Living, v # w,
         writer[v].call = "put"
  PROVE  writer[v].put \in 1 .. puts' /\ writer[v].put \notin acked'
<1>1. w \in Living
  BY DEF Step, WriterStep, Living, At
<1>2. writer[v].put \in 1 .. puts /\ writer[v].put \notin acked /\ puts \in Nat
  BY DEF IInv, CallOK, TypesOK, Living
<1>3. writer[w].call = "put" => writer[w].put # writer[v].put
  BY <1>1 DEF IInv, Apart
<1>4. writer[v].put # puts + 1 /\ writer[v].put \in 1 .. puts'
  BY <1>2 DEF Step, WriterStep
<1> QED BY <1>2, <1>3, <1>4 DEF Step, BookStep

(* What every writer knows of itself stays true.                           *)
LEMMA NextWriters ==
  ASSUME IInv, NEW w \in Writers, Step(w)
  PROVE  (\A v \in Living : CallOK(writer[v]) /\ StackOK(writer[v]))'
<1> SUFFICES ASSUME NEW v \in Living' PROVE (CallOK(writer[v]) /\ StackOK(writer[v]))'
  OBVIOUS
<1>1. CASE v = w
  BY <1>1 DEF Step, WriterStep, Living, At
<1>2. CASE v # w
  <2>1. v \in Living /\ writer'[v] = writer[v] /\ v \in Writers
    BY <1>2 DEF Step, WriterStep, Living, At
  <2>2. /\ backend' = backend /\ hurt \subseteq hurt'
        /\ nextId <= nextId' /\ nextId \in Nat /\ nextId' \in Nat
    BY DEF Step, WriterStep, IInv, TypesOK
  <2>3. writer[v] \in Writer
    BY <2>1, DeadOrAlive DEF Living, IInv
  <2> DEFINE r == writer[v]
  <2>4. CallOK(r) /\ StackOK(r)
    BY <2>1 DEF IInv
  <2>5. \A s \in Sids : s \in Uses(v) => disk'[s] = disk[s]
    BY <1>2, <2>1, OthersStacks
  <2>6. r.have # {} => r.sid \in Sids /\ disk'[r.sid] = disk[r.sid]
    BY <2>4, <2>5 DEF StackOK, Uses
  <2>7. r.pc = "create" /\ backend = "s3" => disk'[r.sid] = disk[r.sid]
    BY <2>4, <2>5 DEF CallOK, Uses, At
  <2>8. r.call = "put" => r.put \in 1 .. puts' /\ r.put \notin acked'
    BY <1>2, <2>1, OthersNumbers
  <2>9. r.sid \in Nat
    BY <2>3 DEF Writer
  <2>a. r' = r
    BY <2>1
  <2>b. \A n \in acked : n \in acked' /\ book'[n] = book[n]
    BY DEF Step, BookStep
  <2> HIDE DEF r
  <2>10. CallOK(writer[v])'
    BY <2>1, <2>2, <2>4, <2>7, <2>8, <2>9 DEF CallOK, r
  <2>11. \A why : Hurt(writer[v].sid, why) => Hurt(writer[v].sid, why)'
    BY <2>1, <2>2 DEF Hurt
  <2>12. InStep(writer[v])' = InStep(writer[v]) /\ Indexed(writer[v].buf)' = Indexed(writer[v].buf)
    BY <2>1 DEF InStep, Indexed
  <2>13. r.have # {} /\ backend = "file" => FilesOK(writer[v])'
    BY <2>1, <2>2, <2>4, <2>6 DEF StackOK, FilesOK, r
  <2>14. ASSUME r.have # {}, backend = "s3" PROVE ObjectsOK(writer[v])'
    <3>1. /\ ObjectsOK(writer[v]) /\ disk'[writer[v].sid] = disk[writer[v].sid]
          /\ writer[v].sid \in Nat
      BY <2>4, <2>6, <2>9, <2>14 DEF StackOK, r
    <3>2. ASSUME NEW e \in writer[v].buf["data"].recs
          PROVE  /\ e.put = 0 \/ e.put \in acked'
                 /\ EntryEnd(e)' <= writer[v].buf["data"].len
      <4>1. (e.put = 0 \/ e.put \in acked) /\ EntryEnd(e) <= writer[v].buf["data"].len
        BY <3>1 DEF ObjectsOK
      <4>2. EntryEnd(e)' = EntryEnd(e)
        BY <2>b, <4>1 DEF EntryEnd
      <4> QED BY <2>b, <4>1, <4>2
    <3> QED BY <2>1, <2>2, <2>11, <2>12, <3>1, <3>2 DEF ObjectsOK
  <2>15. StackOK(writer[v])'
    BY <2>1, <2>2, <2>4, <2>6, <2>11, <2>12, <2>13, <2>14 DEF StackOK, r
  <2> QED BY <2>10, <2>15
<1> QED BY <1>1, <1>2

(* Living writers still share nothing.                                     *)
LEMMA NextApart ==
  ASSUME IInv, NEW w \in Writers, Step(w)
  PROVE  Apart'
<1>1. ASSUME NEW v \in Living', v # w
      PROVE  /\ v \in Living /\ writer'[v] = writer[v] /\ Uses(v)' = Uses(v)
             /\ writer[v].call = "put" => writer[v].put \in 1 .. puts
  <2>1. v \in Living /\ writer'[v] = writer[v] /\ backend' = backend
    BY <1>1 DEF Step, WriterStep, Living, At
  <2> QED BY <2>1 DEF Uses, At, IInv, CallOK
<1>2. ASSUME NEW v \in Living', v # w, w \in Living'
      PROVE  /\ Uses(v)' \cap Uses(w)' = {}
             /\ writer'[v].call = "put" /\ writer'[w].call = "put"
                  => writer'[v].put # writer'[w].put
  <2>1. w \in Living /\ writer'[w].pc # "dead"
    BY <1>2 DEF Step, WriterStep, Living, At
  <2>2. ASSUME NEW s \in Uses(v), s \in Uses(w)' PROVE FALSE
    <3>1. CASE s \in Uses(w)
      BY <1>1, <1>2, <2>1, <2>2, <3>1 DEF IInv, Apart
    <3>2. CASE s \notin Uses(w)
      <4>1. /\ backend = "s3" => s < nextId
            /\ backend = "file" => disk[s]["data"].there
        BY <1>1, <1>2, UsedStacks
      <4>2. nextId \in Nat /\ s \in Nat
        BY <1>1, <1>2, <2>2, UsedStacks DEF IInv, TypesOK, Sids
      <4>3. s \in Uses(w) \/ (backend = "s3" /\ s >= nextId)
            \/ (backend = "file" /\ ~disk[s]["data"].there)
        BY <2>1, <2>2 DEF Step, WriterStep
      <4> QED BY <3>2, <4>1, <4>2, <4>3
    <3> QED BY <3>1, <3>2
  <2>3. writer[w].call = "put" /\ writer[v].call = "put" => writer[w].put # writer[v].put
    BY <1>1, <1>2, <2>1 DEF IInv, Apart
  <2>4. writer'[w].call = "put" /\ writer[v].call = "put" => writer'[w].put # writer[v].put
    <3>1. puts \in Nat
      BY DEF IInv, TypesOK
    <3>2. writer'[w].call = "put" =>
            \/ writer[w].call = "put" /\ writer'[w].put = writer[w].put
            \/ writer'[w].put = puts + 1
      BY <2>1 DEF Step, WriterStep
    <3> QED BY <1>1, <1>2, <2>3, <3>1, <3>2
  <2> QED BY <1>1, <1>2, <2>2, <2>4
<1>3. ASSUME NEW u \in Living', NEW v \in Living', u # v
      PROVE  /\ Uses(u)' \cap Uses(v)' = {}
             /\ writer'[u].call = "put" /\ writer'[v].call = "put"
                  => writer'[u].put # writer'[v].put
  <2>1. CASE u = w
    BY <1>2, <1>3, <2>1
  <2>2. CASE v = w
    BY <1>2, <1>3, <2>2
  <2>3. CASE u # w /\ v # w
    BY <1>1, <1>3, <2>3 DEF IInv, Apart
  <2> QED BY <2>1, <2>2, <2>3
<1> QED BY <1>3 DEF Apart

(* The disk's own invariants.                                              *)
LEMMA NextDisk ==
  ASSUME IInv, NEW w \in Writers, Step(w)
  PROVE  DiskOK' /\ BookOK' /\ IndexAfterData'
<1>1. /\ backend' = backend /\ nextId \in Nat /\ nextId' \in Nat /\ nextId <= nextId'
      /\ hurt \subseteq hurt' /\ w \in Living
  BY DEF Step, WriterStep, IInv, TypesOK, Living, At
<1>2. DiskOK'
  <2>1. ASSUME backend = "file", NEW s \in Sids, NEW k \in Kinds,
               ~disk'[s]["data"].there
        PROVE  disk'[s][k] = Nothing
    BY <2>1 DEF Step, DiskStep, IInv, DiskOK
  <2>2. ASSUME backend = "s3", NEW s \in Sids, NEW k \in Kinds, s >= nextId'
        PROVE  disk'[s][k] = Nothing
    <3>1. s \in Nat /\ s >= nextId /\ s \notin Uses(w)
      BY <1>1, <2>2, UsedStacks DEF Sids
    <3>2. disk'[s] = disk[s]
      BY <2>2, <3>1 DEF Step, DiskStep
    <3> QED BY <2>2, <3>1, <3>2 DEF IInv, DiskOK
  <2> QED BY <1>1, <2>1, <2>2 DEF DiskOK
<1>3. BookOK'
  <2> SUFFICES ASSUME NEW n \in acked'
               PROVE  book'[n].sid \in Sids /\ book'[n].by \in Writers
    BY DEF BookOK
  <2>1. CASE n \in acked
    BY <2>1 DEF Step, BookStep, IInv, BookOK
  <2>2. CASE n \notin acked
    <3>1. /\ writer'[w].pc = "idle" /\ writer'[w].have = Kinds
          /\ book'[n].sid = writer'[w].sid /\ book'[n].by = w
      BY <2>2 DEF Step, BookStep
    <3>2. StackOK(writer[w])'
      BY <3>1 DEF Step, WriterStep
    <3> QED BY <3>1, <3>2 DEF StackOK, Kinds
  <2> QED BY <2>1, <2>2
<1>4. IndexAfterData'
  <2> SUFFICES ASSUME NEW s \in Sids, ~Hurt(s, "overwritten")' PROVE Indexed(disk'[s])
    BY DEF IndexAfterData, IndexedDataThere, Indexed
  <2>1. CASE disk'[s] # disk[s]
    BY <2>1 DEF Step, DiskStep
  <2>2. CASE disk'[s] = disk[s]
    <3>1. ~Hurt(s, "overwritten")
      BY <1>1 DEF Hurt
    <3> QED BY <2>2, <3>1 DEF IInv, IndexAfterData, IndexedDataThere, Indexed
  <2> QED BY <2>1, <2>2
<1> QED BY <1>2, <1>3, <1>4

(* Published and Buffered, now and after a step.                           *)
LEMMA HoldsForms ==
  ASSUME NEW n
  PROVE  /\ Published(n) <=> HoldsAs(disk[book[n].sid], book[n], n)
         /\ Published(n)' <=> HoldsAs(disk'[book'[n].sid], book'[n], n)
         /\ Buffered(n) <=>
              LET r == writer[book[n].by]
              IN  /\ r.client /\ r.have = Kinds /\ r.shut = {} /\ r.sid = book[n].sid
                  /\ HoldsAs(r.buf, book[n], n)
         /\ Buffered(n)' <=>
              LET q == writer'[book'[n].by]
              IN  /\ q.client /\ q.have = Kinds /\ q.shut = {} /\ q.sid = book'[n].sid
                  /\ HoldsAs(q.buf, book'[n], n)
BY DEF Published, Buffered, Holds, HoldsAs

(* Published puts stay published.                                          *)
LEMMA PublishedStays ==
  ASSUME IInv, NEW w \in Writers, Step(w), NEW n \in acked, Published(n),
         <<book[n].sid, "overwritten">> \notin hurt'
  PROVE  Published(n)'
<1>1. book'[n] = book[n] /\ book[n].sid \in Sids
  BY DEF Step, BookStep, IInv, BookOK
<1>2. \A k \in Kinds : disk[book[n].sid][k].recs \subseteq disk'[book[n].sid][k].recs
  BY <1>1 DEF Step, DiskStep, Hurt
<1> QED BY <1>1, <1>2, HoldsMore, HoldsForms

(* Puts acknowledged before keep their records.                            *)
LEMMA NextKept ==
  ASSUME IInv, NEW w \in Writers, Step(w), NEW n \in acked,
         <<book[n].sid, "write">> \notin hurt',
         <<book[n].sid, "overwritten">> \notin hurt',
         backend = "s3" => <<book[n].sid, "shut">> \notin hurt',
         ~Published(n)'
  PROVE  backend = "s3" /\ (At(book[n].by, "dead")' \/ Buffered(n)')
<1>1. /\ book'[n] = book[n] /\ book[n].sid \in Sids /\ book[n].by \in Writers
      /\ hurt \subseteq hurt'
  BY DEF Step, BookStep, WriterStep, IInv, BookOK
<1>2. ~Published(n)
  BY PublishedStays
<1>3. backend = "s3" /\ (At(book[n].by, "dead") \/ Buffered(n))
  BY <1>1, <1>2 DEF IInv, AckedKept, Hurt
<1>4. CASE book[n].by # w
  <2>1. writer'[book[n].by] = writer[book[n].by]
    BY <1>1, <1>4 DEF Step, WriterStep
  <2>2. Buffered(n) => Buffered(n)'
    <3>1. writer'[book'[n].by] = writer[book[n].by] /\ book'[n].sid = book[n].sid
      BY <1>1, <2>1
    <3> QED BY <1>1, <3>1 DEF Buffered, Holds
  <2> QED BY <1>1, <1>3, <2>1, <2>2 DEF At
<1>5. CASE book[n].by = w
  <2>1. Buffered(n)
    BY <1>3, <1>5 DEF Step, WriterStep, At
  <2>2. /\ writer[w].client /\ writer[w].have = Kinds /\ writer[w].shut = {}
        /\ writer[w].sid = book[n].sid /\ HoldsAs(writer[w].buf, book[n], n)
    BY <1>5, <2>1, HoldsForms
  <2>3. CASE writer'[w].pc = "dead"
    BY <1>1, <1>3, <1>5, <2>3 DEF At
  <2>4. CASE disk'[book[n].sid] = writer[w].buf
    BY <1>1, <2>2, <2>4, HoldsForms
  <2>5. CASE /\ writer'[w].have = Kinds /\ writer'[w].shut = {} /\ writer'[w].client
             /\ writer'[w].sid = writer[w].sid
             /\ \A k \in Kinds : writer[w].buf[k].recs \subseteq writer'[w].buf[k].recs
    <3>1. HoldsAs(writer'[w].buf, book[n], n)
      BY <2>2, <2>5, HoldsMore
    <3>2. Buffered(n)'
      BY <1>1, <1>5, <2>2, <2>5, <3>1, HoldsForms
    <3> QED BY <1>3, <3>2
  <2> QED BY <1>3, <2>2, <2>3, <2>4, <2>5 DEF Step, BufferStep
<1> QED BY <1>4, <1>5

(* A put that has just been acknowledged is in buffers that will be        *)
(* closed, and with files on disk.                                         *)
LEMMA NewlyKept ==
  ASSUME IInv, NEW w \in Writers, Step(w), NEW n \in acked', n \notin acked,
         <<book'[n].sid, "write">> \notin hurt',
         <<book'[n].sid, "overwritten">> \notin hurt'
  PROVE  Published(n)' \/ (backend = "s3" /\ Buffered(n)')
<1> DEFINE q == writer'[w]
<1>1. /\ q.pc = "idle" /\ q.have = Kinds /\ q.shut = {} /\ q.client
      /\ book'[n].sid = q.sid /\ book'[n].by = w
      /\ HoldsAs(q.buf, book'[n], n)
      /\ backend = "file" => disk'[q.sid] = q.buf
  BY DEF Step, BookStep
<1>2. backend \in {"file", "s3"}
  BY DEF IInv, TypesOK
<1>3. CASE backend = "file"
  BY <1>1, <1>3, HoldsForms
<1>4. CASE backend = "s3"
  BY <1>1, <1>4, HoldsForms
<1> QED BY <1>2, <1>3, <1>4

(* What has been acknowledged is still kept after a step.                  *)
LEMMA NextAcked ==
  ASSUME IInv, NEW w \in Writers, Step(w)
  PROVE  AckedKept'
<1>1. backend' = backend
  BY DEF Step, WriterStep
<1>2. ASSUME NEW n \in acked', <<book'[n].sid, "write">> \notin hurt',
             <<book'[n].sid, "overwritten">> \notin hurt',
             backend = "s3" => <<book'[n].sid, "shut">> \notin hurt',
             ~Published(n)'
      PROVE  backend = "s3" /\ (At(book[n].by, "dead")' \/ Buffered(n)')
  <2>1. CASE n \in acked
    <3>1. book'[n] = book[n]
      BY <2>1 DEF Step, BookStep
    <3> QED BY <1>2, <2>1, <3>1, NextKept DEF At
  <2>2. CASE n \notin acked
    BY <1>2, <2>2, NewlyKept
  <2> QED BY <2>1, <2>2
<1> QED BY <1>1, <1>2 DEF AckedKept, Hurt

(* What a step of a writer may do keeps the invariant.                     *)
LEMMA StepKeeps ==
  ASSUME IInv, NEW w \in Writers, Step(w)
  PROVE  IInv'
<1>1. TypesOK(Writer)'
  BY DEF Step, WriterStep
<1> QED BY <1>1, NextWriters, NextApart, NextDisk, NextAcked DEF IInv
-----------------------------------------------------------------------------
(* Every action is such a step: opening.                                   *)

Quiet == UNCHANGED <<backend, disk, book, acked>>

(* A step that leaves disk and acknowledgements alone.                     *)
LEMMA QuietStep ==
  ASSUME IInv, NEW w \in Writers, Quiet, WriterStep(w),
         \/ writer'[w].pc = "dead"
         \/ writer[w].have = {}
         \/ writer[w].shut # {}
         \/ /\ writer'[w].have = writer[w].have /\ writer'[w].sid = writer[w].sid
            /\ writer'[w].buf = writer[w].buf /\ writer'[w].client = writer[w].client
            /\ writer'[w].shut = writer[w].shut
  PROVE  Step(w)
<1>1. DiskStep(w)
  BY DEF Quiet, DiskStep
<1>2. BookStep(w)
  BY DEF Quiet, BookStep
<1>3. BufferStep(w)
  BY DEF BufferStep, Kinds
<1> QED BY <1>1, <1>2, <1>3 DEF Step

(* Nothing of a stack that does not exist is on disk.                      *)
LEMMA NotThere ==
  ASSUME IInv, NEW s \in Sids, NEW k \in Kinds,
         backend = "file", ~disk[s]["data"].there
  PROVE  disk[s][k] = Nothing /\ disk[s][k].recs = {}
BY HeadedTyped DEF IInv, DiskOK

(* Asking for a stack id.                                                  *)
LEMMA ResolveStep ==
  ASSUME IInv, NEW w \in Writers, Resolve(w) PROVE Step(w)
<1> DEFINE r == writer[w]
           a == Asking(w)
           h == HeadSize("data")
<1>1. PICK s \in Sids : /\ IdFor(s)
                        /\ Becomes(w, [a EXCEPT !.pc = "create", !.sid = s,
                                                !.off = h, !.raw = 0])
  BY DEF Resolve
<1> DEFINE q == [a EXCEPT !.pc = "create", !.sid = s, !.off = h, !.raw = 0]
<1>2. /\ r.pc \in {"new", "resolve"} /\ r \in Writer /\ w \in Living
      /\ CallOK(r) /\ StackOK(r)
      /\ UNCHANGED <<backend, disk, book, puts, acked, hurt, faults>>
  BY DeadOrAlive DEF Resolve, At, IInv, Living
<1>3. /\ a \in Writer /\ a.call = IF r.pc = "new" THEN "open" ELSE r.call
      /\ a.have = r.have /\ a.shut = r.shut /\ a.size = r.size
      /\ a.put = r.put /\ a.client = r.client
  BY <1>2 DEF Asking, At, Writer
<1>4. s \in Nat /\ h \in Nat
  BY SizesTyped DEF Sids, Kinds
<1> HIDE DEF a, h
<1>5. /\ q \in Writer /\ q.pc = "create" /\ q.sid = s /\ q.call = a.call
      /\ q.have = r.have /\ q.shut = r.shut /\ q.raw = 0 /\ q.size = r.size
      /\ q.put = r.put /\ q.client = r.client /\ q.off = h
  BY <1>3, <1>4 DEF Writer
<1>6. Becomes(w, q)
  BY <1>1
<1> HIDE DEF q
<1>7. /\ writer'[w] = q /\ \A v \in Writers : v # w => writer'[v] = writer[v]
      /\ writer' \in [Writers -> Writer \cup {Dead}]
  BY <1>5, <1>6, BecomesFields DEF IInv
<1>8. /\ nextId \in Nat /\ nextId' \in Nat /\ nextId <= nextId'
      /\ backend = "s3" => s >= nextId /\ s < nextId'
  BY <1>1, <1>4 DEF IdFor, IInv, TypesOK
<1>9. /\ r.have = {} /\ r.shut = {} /\ r.client
      /\ r.call = "put" \/ r.pc = "new"
  BY <1>2 DEF CallOK, Writer
<1>10. CallOK(writer[w])'
  <2>1. backend = "s3" => \A k \in Kinds : disk[s][k] = Nothing
    BY <1>8 DEF IInv, DiskOK
  <2>2. r.call = "put" => r.put \in 1 .. puts /\ r.put \notin acked /\ r.size <= MaxData
    BY <1>2 DEF CallOK
  <2> HIDE DEF r
  <2> QED BY <1>2, <1>3, <1>5, <1>7, <1>8, <1>9, <2>1, <2>2 DEF CallOK, h
<1>11. StackOK(writer[w])'
  BY <1>2, <1>5, <1>7, <1>9, SizesAssumption DEF StackOK, Kinds
<1>12. TypesOK(Writer)'
  BY <1>2, <1>7, <1>8 DEF IInv, TypesOK
<1>13. \A t \in Uses(w)' : backend = "s3" /\ t >= nextId
  BY <1>2, <1>5, <1>7, <1>8, <1>9 DEF Uses
<1>14. WriterStep(w)
  BY <1>2, <1>3, <1>5, <1>7, <1>8, <1>9, <1>10, <1>11, <1>12, <1>13, DeadOrAlive
     DEF WriterStep, CallOK
<1> QED BY <1>2, <1>9, <1>14, QuietStep DEF Quiet

(* A call that ends without a stack: the writer is given up or returns.    *)
LEMMA FailedWithout ==
  ASSUME IInv, NEW w \in Writers, writer[w].pc \in {"resolve", "create"},
         Becomes(w, Failed(writer[w])),
         UNCHANGED <<backend, disk, puts, hurt, book, acked>>,
         faults' \in 0 .. MaxFaults, nextId' \in Nat, nextId <= nextId'
  PROVE  Step(w)
<1> DEFINE a == writer[w]
           q == Failed(a)
<1>1. /\ w \in Living /\ a \in Writer /\ CallOK(a) /\ StackOK(a)
      /\ a.have = {} /\ a.shut = {}
  BY DeadOrAlive DEF IInv, Living, At, CallOK
<1>2. q = Dead \/ (q \in Writer /\ q.pc = "idle" /\ q.call = "none" /\ q.have = {}
                   /\ q.shut = {} /\ q.raw = a.raw)
  BY <1>1, ReturnedFields DEF Failed
<1>3. Becomes(w, q)
  OBVIOUS
<1> HIDE DEF q
<1>4. /\ writer'[w] = q /\ \A v \in Writers : v # w => writer'[v] = writer[v]
      /\ writer' \in [Writers -> Writer \cup {Dead}]
  BY <1>2, <1>3, BecomesFields DEF IInv
<1>5. q.pc # "dead" => CallOK(writer[w])'
  BY <1>1, <1>2, <1>4, DeadOrAlive DEF CallOK
<1>6. q.pc # "dead" => StackOK(writer[w])'
  <2>1. a.raw <= MaxData
    BY <1>1 DEF StackOK
  <2> QED BY <1>1, <1>2, <1>4, <2>1, DeadOrAlive DEF StackOK, Kinds
<1>7. q.pc # "dead" => Uses(w)' = {}
  BY <1>2, <1>4, DeadOrAlive DEF Uses, At
<1>8. TypesOK(Writer)'
  BY <1>4 DEF IInv, TypesOK
<1>9. WriterStep(w)
  BY <1>1, <1>2, <1>4, <1>5, <1>6, <1>7, <1>8, DeadOrAlive DEF WriterStep, IInv, TypesOK
<1> QED BY <1>1, <1>9, QuietStep DEF Quiet

(* A step that ends w and leaves everything but the disk alone.            *)
LEMMA DeadStep ==
  ASSUME IInv, NEW w \in Writers, writer[w].pc # "dead", Becomes(w, Dead),
         UNCHANGED <<backend, book, puts, acked, hurt>>,
         faults' \in 0 .. MaxFaults, nextId' \in Nat, nextId <= nextId',
         disk' \in [Sids -> [Kinds -> Blob]], DiskStep(w)
  PROVE  Step(w)
<1>1. /\ writer'[w] = Dead /\ \A v \in Writers : v # w => writer'[v] = writer[v]
      /\ writer' \in [Writers -> Writer \cup {Dead}]
  BY BecomesFields DEF IInv
<1>2. TypesOK(Writer)'
  BY <1>1 DEF IInv, TypesOK
<1>3. WriterStep(w)
  BY <1>1, <1>2, DeadOrAlive DEF WriterStep, IInv, TypesOK
<1>4. BookStep(w) /\ BufferStep(w)
  BY <1>1, DeadOrAlive DEF BookStep, BufferStep
<1> QED BY <1>3, <1>4 DEF Step

(* A stack id that cannot be had.                                          *)
LEMMA ResolveFailsStep ==
  ASSUME IInv, NEW w \in Writers, ResolveFails(w) PROVE Step(w)
<1>1. /\ writer[w] \in Writer /\ writer[w].pc \in {"new", "resolve"}
      /\ UNCHANGED <<backend, disk, book, puts, acked, hurt>>
      /\ faults' \in 0 .. MaxFaults
      /\ nextId' \in Nat /\ nextId \in Nat /\ nextId <= nextId'
  <2>1. writer[w] \in Writer
    BY DeadOrAlive DEF ResolveFails, At, IInv
  <2>2. faults' \in 0 .. MaxFaults
    BY FaultTyped DEF ResolveFails, IInv, TypesOK
  <2> QED BY <2>1, <2>2 DEF ResolveFails, At, IInv, TypesOK
<1>2. CASE writer[w].pc = "resolve"
  <2>1. Becomes(w, Failed(writer[w]))
    BY <1>2 DEF ResolveFails, Asking, At
  <2> QED BY <1>1, <1>2, <2>1, FailedWithout
<1>3. CASE writer[w].pc = "new"
  <2>1. Becomes(w, Dead)
    BY <1>1, <1>3 DEF ResolveFails, Asking, At, Failed, Writer
  <2>2. DiskStep(w) /\ disk' \in [Sids -> [Kinds -> Blob]]
    BY <1>1 DEF DiskStep, IInv, TypesOK
  <2> QED BY <1>1, <1>3, <2>1, <2>2, DeadStep
<1> QED BY <1>1, <1>2, <1>3

(* Empty files for the kinds in ks.                                        *)
LEMMA CreatedDisk ==
  ASSUME TypesOK(Writer), NEW s \in Sids, NEW ks \in SUBSET Kinds
  PROVE  /\ Created(s, ks) \in [Sids -> [Kinds -> Blob]]
         /\ \A t \in Sids : t # s => Created(s, ks)[t] = disk[t]
         /\ backend = "s3" \/ ks = {} => Created(s, ks) = disk
         /\ backend = "file" => \A k \in Kinds :
              Created(s, ks)[s][k] = IF k \in ks THEN Empty ELSE disk[s][k]
<1>1. backend \in {"file", "s3"} /\ disk \in [Sids -> [Kinds -> Blob]]
  BY DEF TypesOK
<1>2. CASE backend = "file"
  <2> DEFINE f == [k \in Kinds |-> IF k \in ks THEN Empty ELSE disk[s][k]]
  <2>1. Created(s, ks) = [disk EXCEPT ![s] = f]
    BY <1>2 DEF Created
  <2>2. f \in [Kinds -> Blob]
    BY <1>1, HeadedTyped
  <2>3. \A k \in Kinds : f[k] = IF k \in ks THEN Empty ELSE disk[s][k]
    OBVIOUS
  <2>4. ks = {} => f = disk[s]
    BY <1>1
  <2> HIDE DEF f
  <2>5. ks = {} => Created(s, ks) = disk
    BY <1>1, <2>1, <2>4
  <2> QED BY <1>1, <1>2, <2>1, <2>2, <2>3, <2>5
<1>3. CASE backend = "s3"
  BY <1>1, <1>3 DEF Created
<1> QED BY <1>1, <1>2, <1>3

(* The stack that w is about to create is nobody's and not on disk.        *)
LEMMA ToCreate ==
  ASSUME IInv, NEW w \in Writers, writer[w].pc = "create",
         ~Exists(writer[w].sid)
  PROVE  LET s == writer[w].sid
         IN  /\ s \in Sids /\ \A k \in Kinds : disk[s][k] = Nothing
             /\ backend = "file" => ~disk[s]["data"].there
             /\ backend = "s3" => s \in Uses(w) /\ s < nextId
             /\ w \in Living
             /\ writer[w] \in Writer /\ CallOK(writer[w]) /\ StackOK(writer[w])
             /\ writer[w].have = {} /\ writer[w].shut = {} /\ writer[w].client
             /\ writer[w].off = HeadSize("data") /\ writer[w].raw = 0
             /\ writer[w].call \in {"open", "put"}
<1>1. writer[w] \in Writer /\ CallOK(writer[w]) /\ StackOK(writer[w]) /\ w \in Living
  BY DeadOrAlive DEF IInv, Living, At
<1>2. /\ writer[w].sid \in Sids /\ writer[w].have = {} /\ writer[w].shut = {}
      /\ writer[w].client /\ writer[w].off = HeadSize("data") /\ writer[w].raw = 0
      /\ writer[w].call \in {"open", "put"}
  BY <1>1 DEF CallOK, Writer
<1>3. CASE backend = "file"
  BY <1>1, <1>2, <1>3, NotThere DEF Exists
<1>4. CASE backend = "s3"
  BY <1>1, <1>2, <1>4 DEF CallOK, Uses, At
<1> QED BY <1>1, <1>2, <1>3, <1>4 DEF IInv, TypesOK

(* A writer that has opened the files of the kinds in ks.                  *)
LEMMA OpenedStep ==
  ASSUME IInv, NEW w \in Writers, writer[w].pc = "create",
         ~Exists(writer[w].sid),
         NEW ks \in SUBSET Kinds, ks = {} \/ "data" \in ks,
         backend = "s3" => ks = Kinds,
         NEW q \in Writer \cup {Dead}, Becomes(w, q), q.pc # "dead" =>
           /\ q.have = ks /\ q.shut = {} /\ q.sid = writer[w].sid /\ q.raw = 0
           /\ q.client
           /\ \A k \in Kinds : q.buf[k].there /\ q.buf[k].recs \subseteq {MagicHeader}
           /\ ks = Kinds => /\ InStep(q) /\ q.buf["data"].len = HeadSize("data")
                            /\ q.pos = HeadSize("data")
           /\ \/ q.call = "none" /\ q.pc = "idle"
              \/ /\ q.call = "put" /\ q.pc = "write" /\ writer[w].call = "put"
                 /\ ks = Kinds
                 /\ q.put = writer[w].put /\ q.size = writer[w].size,
         disk' = Created(writer[w].sid, ks),
         UNCHANGED <<backend, book, puts, acked, hurt, nextId>>,
         faults' \in 0 .. MaxFaults
  PROVE  Step(w)
<1> DEFINE r == writer[w]
           s == writer[w].sid
<1>1. /\ s \in Sids /\ \A k \in Kinds : disk[s][k] = Nothing
      /\ backend = "file" => ~disk[s]["data"].there
      /\ backend = "s3" => s \in Uses(w) /\ s < nextId
      /\ r \in Writer /\ CallOK(r) /\ StackOK(r) /\ r.have = {}
  BY ToCreate
<1>2. /\ disk' \in [Sids -> [Kinds -> Blob]]
      /\ \A t \in Sids : t # s => disk'[t] = disk[t]
      /\ backend = "s3" \/ ks = {} => disk' = disk
      /\ backend = "file" => \A k \in Kinds :
           disk'[s][k] = IF k \in ks THEN Empty ELSE disk[s][k]
  BY <1>1, CreatedDisk DEF IInv
<1>3. /\ writer'[w] = q /\ \A v \in Writers : v # w => writer'[v] = writer[v]
      /\ writer' \in [Writers -> Writer \cup {Dead}]
  BY BecomesFields DEF IInv
<1>4. /\ backend' = backend /\ backend \in {"file", "s3"} /\ nextId' = nextId /\ nextId \in Nat
      /\ puts' = puts /\ MaxData \in Nat
  BY SizesAssumption DEF IInv, TypesOK
<1>5. TypesOK(Writer)'
  BY <1>2, <1>3 DEF IInv, TypesOK
<1>6. \A k \in Kinds : disk[s][k].recs = {} /\ disk'[s][k].recs = {}
  BY <1>1, <1>2, <1>4, HeadedTyped
<1>7. ASSUME q.pc # "dead"
      PROVE  /\ CallOK(writer[w])' /\ StackOK(writer[w])'
             /\ Uses(w)' \subseteq {s} /\ (Uses(w)' # {} => ks # {})
  <2>1. CallOK(writer[w])'
    <3>1. r.call = "put" => r.put \in 1 .. puts /\ r.put \notin acked /\ r.size <= MaxData
      BY <1>1 DEF CallOK
    <3> HIDE DEF r
    <3> QED BY <1>3, <1>4, <1>7, <3>1 DEF CallOK, r
  <2>2. q.sid = s /\ q.have = ks /\ q.shut = {} /\ q.raw = 0
    BY <1>7
  <2>3. \A k \in Kinds : q.buf[k].there /\ q.buf[k].recs \subseteq {MagicHeader}
    BY <1>7
  <2>4. q.buf["idx"].recs \subseteq {MagicHeader} /\ q.buf["data"].recs \subseteq {MagicHeader}
    BY <2>3 DEF Kinds
  <2>5. /\ InStep(writer[w])' = InStep(q)
        /\ Indexed(writer[w].buf)'
    BY <1>3, <2>4 DEF InStep, Indexed
  <2>6. ks # {} /\ backend = "file" => FilesOK(writer[w])'
    <3>1. ks # {} /\ backend = "file" =>
            \A k \in ks : disk'[s][k].there
      BY <1>2, HeadedTyped
    <3>2. "data" \in Kinds
      BY DEF Kinds
    <3> QED BY <1>3, <1>6, <2>2, <2>3, <2>4, <3>1, <3>2 DEF FilesOK
  <2>7. backend = "s3" => ObjectsOK(writer[w])'
    <3>1. ASSUME backend = "s3"
          PROVE  /\ disk'[s]["meta"] = Nothing /\ disk'[s]["idx"] = Nothing
                 /\ disk'[s]["data"].recs = {}
                 /\ s < nextId /\ q.have = Kinds
                 /\ q.buf["data"].len = HeadSize("data") /\ q.pos = HeadSize("data")
      BY <1>1, <1>2, <1>6, <1>7, <3>1 DEF Kinds
    <3>2. HeadSize("data") \in Nat
      BY SizesTyped DEF Kinds
    <3>3. \A e \in q.buf["data"].recs : e.put = 0 /\ EntryEnd(e)' = HeadSize("data")
      BY <2>4 DEF EntryEnd, MagicHeader
    <3>4. \A k \in {"meta", "idx"} : k \in Kinds
      BY DEF Kinds
    <3> QED BY <1>3, <1>4, <2>2, <2>5, <3>1, <3>2, <3>3 DEF ObjectsOK
  <2>8. q.have = Kinds => InStep(q)
    BY <1>7
  <2>9. StackOK(writer[w])'
    BY <1>1, <1>3, <1>4, <2>2, <2>5, <2>6, <2>7, <2>8 DEF StackOK
  <2>10. Uses(w)' \subseteq {s} /\ (Uses(w)' # {} => ks # {})
    BY <1>3, <1>7 DEF Uses, At
  <2> QED BY <2>1, <2>9, <2>10
<1>8. WriterStep(w)
  <2>1. q.pc # "dead" => \A t \in Uses(w)' :
          t \in Uses(w) \/ (backend = "file" /\ ~disk[t]["data"].there)
    BY <1>1, <1>4, <1>7
  <2> HIDE DEF r, s
  <2> QED BY <1>3, <1>4, <1>5, <1>7, <2>1 DEF WriterStep, r
<1>9. DiskStep(w)
  <2>1. ASSUME NEW t \in Sids, disk'[t] # disk[t]
        PROVE  t = s /\ backend = "file" /\ "data" \in ks
    BY <1>2, <1>4, <2>1
  <2>2. backend = "file" /\ "data" \in ks => disk'[s]["data"].there
    BY <1>2, HeadedTyped DEF Kinds
  <2>3. Indexed(disk'[s])
    BY <1>6 DEF Indexed, Kinds
  <2> QED BY <1>1, <1>6, <2>1, <2>2, <2>3 DEF DiskStep
<1>10. BookStep(w) /\ BufferStep(w)
  BY <1>1 DEF BookStep, BufferStep, Kinds
<1> QED BY <1>8, <1>9, <1>10 DEF Step

(* Creating the three files.                                               *)
LEMMA CreateStep ==
  ASSUME IInv, NEW w \in Writers, Create(w) PROVE Step(w)
<1> DEFINE r == writer[w]
           buf == [k \in Kinds |-> Headed(k)]
           h == HeadSize("data")
           m == HeadSize("meta")
           p == [r EXCEPT !.have = Kinds, !.shut = {}, !.buf = buf, !.pos = h, !.moff = m]
<1>1. /\ r.pc = "create" /\ ~Exists(p.sid) /\ disk' = Created(p.sid, Kinds)
      /\ Becomes(w, IF p.call = "open" THEN Returned(p) ELSE [p EXCEPT !.pc = "write"])
      /\ UNCHANGED <<backend, book, puts, acked, hurt, nextId, faults>>
  BY DEF Create, At
<1>2. r \in Writer
  BY <1>1, DeadOrAlive DEF IInv, At
<1>3. /\ buf \in [Kinds -> Blob] /\ m \in Nat /\ h \in Nat
      /\ \A k \in Kinds : buf[k].recs = {MagicHeader} /\ buf[k].len = HeadSize(k)
                          /\ buf[k].there
  BY HeadedTyped, SizesTyped DEF Kinds
<1> HIDE DEF buf, h, m
<1>4. /\ p \in Writer /\ p.call = r.call
      /\ p.size = r.size /\ p.put = r.put /\ p.client = r.client /\ p.raw = r.raw
      /\ p.have = Kinds /\ p.shut = {} /\ p.buf = buf /\ p.sid = r.sid
      /\ p.off = r.off /\ p.moff = m /\ p.pos = h
  BY <1>2, <1>3 DEF Writer
<1> HIDE DEF p
<1>5. r.off = h /\ r.raw = 0 /\ r.client /\ r.call \in {"open", "put"}
  BY <1>1, <1>4, ToCreate DEF h
<1>6. PICK q \in Writer :
        /\ Becomes(w, q)
        /\ q.have = Kinds /\ q.shut = {} /\ q.buf = buf /\ q.sid = r.sid
        /\ q.off = h /\ q.moff = m /\ q.raw = 0 /\ q.pos = h /\ q.client
        /\ \/ q.call = "none" /\ q.pc = "idle"
           \/ /\ q.call = "put" /\ q.pc = "write" /\ r.call = "put"
              /\ q.put = r.put /\ q.size = r.size
  <2>1. CASE r.call = "open"
    <3> DEFINE o == Returned(p)
    <3>1. Becomes(w, o)
      BY <1>1, <1>4, <2>1
    <3>2. /\ o \in Writer /\ o.pc = "idle" /\ o.call = "none" /\ o.have = Kinds
          /\ o.client /\ o.shut = {} /\ o.buf = buf /\ o.pos = h /\ o.sid = r.sid
          /\ o.off = h /\ o.moff = m /\ o.raw = 0
      BY <1>4, <1>5, ReturnedFields
    <3> HIDE DEF o
    <3> QED BY <3>1, <3>2
  <2>2. CASE r.call = "put"
    <3> DEFINE o == [p EXCEPT !.pc = "write"]
    <3>1. Becomes(w, o)
      BY <1>1, <1>4, <2>2
    <3>2. /\ o \in Writer /\ o.pc = "write" /\ o.call = "put" /\ o.have = Kinds
          /\ o.client /\ o.shut = {} /\ o.buf = buf /\ o.pos = h /\ o.sid = r.sid
          /\ o.off = h /\ o.moff = m /\ o.raw = 0 /\ o.put = r.put /\ o.size = r.size
      BY <1>4, <1>5, <2>2 DEF Writer
    <3> HIDE DEF o
    <3> QED BY <2>2, <3>1, <3>2
  <2> QED BY <1>5, <2>1, <2>2
<1>7. InStep(q) /\ q.buf["data"].len = HeadSize("data") /\ q.pos = HeadSize("data")
  BY <1>3, <1>6 DEF InStep, Kinds, h, m
<1>8. faults' \in 0 .. MaxFaults /\ "data" \in Kinds /\ Kinds \in SUBSET Kinds
  BY <1>1 DEF IInv, TypesOK, Kinds
<1>9. \A k \in Kinds : q.buf[k].there /\ q.buf[k].recs \subseteq {MagicHeader}
  BY <1>3, <1>6
<1> QED BY <1>1, <1>4, <1>6, <1>7, <1>8, <1>9, OpenedStep

(* Failing to create one of them.                                          *)
LEMMA CreateFailsStep ==
  ASSUME IInv, NEW w \in Writers, CreateFails(w) PROVE Step(w)
<1> DEFINE r == writer[w]
           s == writer[w].sid
<1>1. /\ r.pc = "create" /\ backend = "file" /\ r \in Writer
      /\ UNCHANGED <<backend, book, puts, acked, hurt, nextId>> /\ nextId \in Nat
  BY DeadOrAlive DEF CreateFails, At, IInv, TypesOK
<1>2. CASE Exists(s) /\ Becomes(w, Failed(r)) /\ UNCHANGED <<disk, faults>>
  <2>1. faults' \in 0 .. MaxFaults /\ nextId <= nextId' /\ nextId' \in Nat
    BY <1>1, <1>2 DEF IInv, TypesOK
  <2> QED BY <1>1, <1>2, <2>1, FailedWithout
<1>3. CASE /\ ~Exists(s) /\ Fault
           /\ \E k \in Kinds :
                LET done == Before(OpenOrder, k)
                IN  /\ disk' = Created(s, done)
                    /\ Becomes(w, Failed([r EXCEPT !.have = done,
                                             !.buf = [j \in Kinds |-> Empty]]))
  <2>1. faults' \in 0 .. MaxFaults
    BY <1>3, FaultTyped DEF IInv, TypesOK
  <2>2. PICK ks \in SUBSET Kinds :
          /\ ks = {} \/ ("data" \in ks /\ "meta" \notin ks)
          /\ disk' = Created(s, ks)
          /\ Becomes(w, Failed([r EXCEPT !.have = ks, !.buf = [j \in Kinds |-> Empty]]))
    BY <1>3, BeforeOpen DEF Kinds
  <2> DEFINE buf == [j \in Kinds |-> Empty]
             p == [r EXCEPT !.have = ks, !.buf = buf]
  <2>3. buf \in [Kinds -> Blob] /\ \A j \in Kinds : buf[j].there /\ buf[j].recs = {}
    BY HeadedTyped
  <2>4. Becomes(w, Failed(p))
    BY <2>2
  <2> HIDE DEF buf
  <2>5. /\ p \in Writer /\ p.have = ks /\ p.buf = buf /\ p.shut = r.shut
        /\ p.sid = r.sid /\ p.raw = r.raw /\ p.client = r.client /\ p.call = r.call
    BY <1>1, <2>2, <2>3 DEF Writer
  <2> HIDE DEF p
  <2>6. r.shut = {} /\ r.raw = 0 /\ r.client
    BY <1>1, <1>3, ToCreate
  <2>7. PICK q \in Writer \cup {Dead} :
          /\ Becomes(w, q)
          /\ q.pc # "dead" => /\ q.have = ks /\ q.shut = {} /\ q.buf = buf /\ q.sid = s
                              /\ q.raw = 0 /\ q.client /\ q.call = "none" /\ q.pc = "idle"
    <3>1. CASE p.call = "open"
      <4>1. Becomes(w, Dead) /\ Dead.pc = "dead"
        BY <2>4, <3>1, DeadOrAlive DEF Failed
      <4> QED BY <4>1
    <3>2. CASE p.call # "open"
      <4> DEFINE o == Returned(p)
      <4>1. Becomes(w, o)
        BY <2>4, <3>2 DEF Failed
      <4>2. /\ o \in Writer /\ o.pc = "idle" /\ o.call = "none" /\ o.have = ks
            /\ o.client /\ o.shut = {} /\ o.buf = buf /\ o.sid = s /\ o.raw = 0
        BY <2>5, <2>6, ReturnedFields
      <4> HIDE DEF o
      <4> QED BY <4>1, <4>2
    <3> QED BY <3>1, <3>2
  <2>8. \A k \in Kinds : q.pc # "dead" =>
          q.buf[k].there /\ q.buf[k].recs \subseteq {MagicHeader}
    BY <2>3, <2>7
  <2>9. ks # Kinds /\ (ks = {} \/ "data" \in ks)
    BY <2>2 DEF Kinds
  <2> QED BY <1>1, <1>3, <2>1, <2>2, <2>7, <2>8, <2>9, OpenedStep
<1> QED BY <1>2, <1>3 DEF CreateFails
-----------------------------------------------------------------------------
(* Calls on an open stack.                                                 *)

(* r is w in a call, before the call does anything to its stack.           *)
Calls(w, r) ==
  LET o == writer[w]
  IN  /\ o.pc # "dead" /\ r \in Writer
      /\ r.have = o.have /\ r.shut = o.shut /\ r.client = o.client
      /\ r.buf = o.buf /\ r.pos = o.pos /\ r.sid = o.sid
      /\ r.off = o.off /\ r.moff = o.moff /\ r.raw = o.raw
      /\ r.pc \in {"idle", "write"}
      /\ puts' \in {puts, puts + 1} /\ puts' \in 0 .. MaxPuts
      /\ UNCHANGED <<backend, nextId>>

Puttings(w, r) ==
  /\ Calls(w, r)
  /\ r.call = "put" /\ r.have = Kinds
  /\ r.put \in 1 .. puts' /\ r.put \notin acked
  /\ r.size <= MaxData
  /\ \/ writer[w].call = "put" /\ r.put = writer[w].put
     \/ r.put = puts + 1 /\ puts' = puts + 1

(* A caller's writer is a living one.                                      *)
LEMMA Caller ==
  ASSUME IInv, NEW w \in Writers, NEW r, Calls(w, r)
  PROVE  /\ w \in Living /\ writer[w] \in Writer /\ r \in Writer
         /\ CallOK(writer[w]) /\ StackOK(r)
         /\ r.have # {} => r.sid \in Uses(w) /\ r.sid \in Sids /\ r.client
         /\ (r.put \in 1 .. puts' => r.put \in Puts)
         /\ backend' = backend /\ backend \in {"file", "s3"}
         /\ nextId' = nextId /\ nextId \in Nat
         /\ puts \in Nat /\ puts' \in {puts, puts + 1} /\ puts' \in 0 .. MaxPuts
         /\ acked \subseteq 1 .. puts' /\ acked \subseteq Puts
<1>1. w \in Living /\ writer[w] \in Writer /\ CallOK(writer[w]) /\ StackOK(writer[w])
  BY DeadOrAlive DEF Calls, IInv, Living, At
<1>2. r \in Writer /\ StackOK(r)
  <2> DEFINE o == writer[w]
  <2>1. /\ r \in Writer
        /\ r.have = o.have /\ r.shut = o.shut /\ r.buf = o.buf /\ r.pos = o.pos
        /\ r.sid = o.sid /\ r.off = o.off /\ r.moff = o.moff /\ r.raw = o.raw
    BY DEF Calls
  <2>2. StackOK(o)
    BY <1>1
  <2> HIDE DEF o, IInv
  <2>3. FilesOK(o) => FilesOK(r)
    BY <2>1 DEF FilesOK
  <2>4. ObjectsOK(o) => ObjectsOK(r)
    BY <2>1 DEF ObjectsOK
  <2>5. InStep(o) => InStep(r)
    BY <2>1 DEF InStep
  <2> QED BY <2>1, <2>2, <2>3, <2>4, <2>5 DEF StackOK
<1>3. r.have # {} => r.sid \in Uses(w) /\ r.sid \in Sids /\ r.client
  BY <1>1 DEF Calls, Uses, StackOK, CallOK
<1>4. r.put \in 1 .. puts' => r.put \in Puts
  BY BoundsAssumption DEF Calls, Puts
<1>5. /\ backend' = backend /\ backend \in {"file", "s3"}
      /\ nextId' = nextId /\ nextId \in Nat
      /\ puts \in 0 .. MaxPuts /\ puts' \in {puts, puts + 1} /\ puts' \in 0 .. MaxPuts
      /\ acked \subseteq 1 .. puts
  BY DEF Calls, IInv, TypesOK
<1>6. 1 .. puts \subseteq 1 .. puts' /\ 1 .. puts \subseteq Puts
  BY <1>5, BoundsAssumption DEF Puts
<1> QED BY <1>1, <1>2, <1>3, <1>4, <1>5, <1>6

(* A call that ends, or goes on to another stack.                          *)
LEMMA CallStep ==
  ASSUME IInv, NEW w \in Writers, NEW r, Calls(w, r),
         NEW q \in Writer, Becomes(w, q),
         \/ q.pc = "idle" /\ q.call = "none"
         \/ /\ q.pc = "resolve" /\ q.call = "put" /\ q.have = {} /\ q.shut = {}
            /\ q.client /\ q.put = r.put /\ q.size = r.size
            /\ Puttings(w, r) /\ acked' = acked,
         q.have # {} => q.client /\ q.sid = r.sid /\ r.have # {},
         hurt \subseteq hurt',
         hurt' \subseteq Sids \X {"write", "shut", "retried", "overwritten"},
         faults' \in 0 .. MaxFaults,
         disk' \in [Sids -> [Kinds -> Blob]], book' \in [Puts -> Booked],
         acked' \subseteq 1 .. puts',
         StackOK(writer[w])'
  PROVE  WriterStep(w)
<1>1. /\ w \in Living /\ writer[w] \in Writer
      /\ r.have # {} => r.sid \in Uses(w)
      /\ backend' = backend /\ backend \in {"file", "s3"}
      /\ nextId' = nextId /\ nextId \in Nat
      /\ puts \in Nat /\ puts' \in {puts, puts + 1} /\ puts' \in 0 .. MaxPuts
  BY Caller
<1>2. /\ writer'[w] = q /\ \A v \in Writers : v # w => writer'[v] = writer[v]
      /\ writer' \in [Writers -> Writer \cup {Dead}]
  BY BecomesFields DEF IInv
<1>3. TypesOK(Writer)'
  BY <1>1, <1>2 DEF TypesOK
<1>4. q.call = "put" =>
        /\ q.put \in 1 .. puts' /\ q.put \notin acked' /\ q.size <= MaxData
        /\ \/ writer[w].call = "put" /\ q.put = writer[w].put
           \/ q.put = puts + 1 /\ puts' = puts + 1
  BY DEF Puttings
<1>5. CallOK(writer[w])'
  BY <1>2, <1>4 DEF CallOK
<1>6. Uses(w)' \subseteq Uses(w)
  BY <1>1, <1>2 DEF Uses, At
<1> QED BY <1>1, <1>2, <1>3, <1>4, <1>5, <1>6, DeadOrAlive DEF WriterStep

(* A call on files that are closed, or that was not needed.                *)
LEMMA ClosedStep ==
  ASSUME IInv, NEW w \in Writers, NEW r, Calls(w, r), r.shut # {},
         Becomes(w, Returned(r)), UNCHANGED <<disk, book, acked, hurt, faults>>
  PROVE  Step(w)
<1> DEFINE q == Returned(r)
<1>1. /\ w \in Living /\ r \in Writer /\ StackOK(r)
      /\ r.have # {} => r.sid \in Uses(w) /\ r.sid \in Sids /\ r.client
      /\ backend' = backend /\ nextId' = nextId /\ acked \subseteq 1 .. puts'
      /\ writer[w].shut = r.shut
  BY Caller DEF Calls
<1>2. /\ q \in Writer /\ q.pc = "idle" /\ q.call = "none" /\ q.have = r.have
      /\ q.shut = r.shut /\ q.client = r.client /\ q.sid = r.sid /\ q.pos = r.pos
      /\ q.buf = r.buf /\ q.raw = r.raw /\ q.off = r.off /\ q.moff = r.moff
  BY <1>1, ReturnedFields
<1>3. Becomes(w, q)
  OBVIOUS
<1> HIDE DEF q
<1>4. writer'[w] = q
  BY <1>3, BecomesFields DEF IInv
<1>5. StackOK(writer[w])'
  <2>1. \A why : Hurt(writer[w].sid, why)' = Hurt(r.sid, why)
    BY <1>2, <1>4 DEF Hurt
  <2>2. Indexed(writer[w].buf)' = Indexed(r.buf) /\ InStep(writer[w])' = InStep(r)
    BY <1>2, <1>4 DEF Indexed, InStep
  <2>3. FilesOK(writer[w])' = FilesOK(r)
    BY <1>2, <1>4 DEF FilesOK
  <2>4. \A e : EntryEnd(e)' = EntryEnd(e)
    BY DEF EntryEnd
  <2>5. ObjectsOK(r) => ObjectsOK(writer[w])'
    BY <1>1, <1>2, <1>4, <2>1, <2>2, <2>4 DEF ObjectsOK
  <2> QED BY <1>1, <1>2, <1>4, <2>1, <2>2, <2>3, <2>5 DEF StackOK
<1>6. /\ hurt' \subseteq Sids \X {"write", "shut", "retried", "overwritten"}
      /\ faults' \in 0 .. MaxFaults /\ hurt \subseteq hurt' /\ acked' \subseteq 1 .. puts'
      /\ disk' \in [Sids -> [Kinds -> Blob]] /\ book' \in [Puts -> Booked]
  BY <1>1 DEF IInv, TypesOK
<1>7. WriterStep(w)
  BY <1>1, <1>2, <1>3, <1>5, <1>6, CallStep
<1> QED BY <1>1, <1>7, QuietStep DEF Quiet
-----------------------------------------------------------------------------
(* Flushing and putting.                                                   *)

(* What a flush or put_object makes of the buffers of the kinds in ks.     *)
LEMMA StoredDisk ==
  ASSUME TypesOK(Writer), NEW r \in Writer, r.have # {} => r.sid \in Sids,
         NEW ks \in SUBSET Kinds
  PROVE  /\ Stored(r, ks) \in [Sids -> [Kinds -> Blob]]
         /\ \A t \in Sids : t # r.sid => Stored(r, ks)[t] = disk[t]
         /\ r.have = {} \/ ~r.client => Stored(r, ks) = disk
         /\ r.have # {} /\ r.client =>
              \A k \in Kinds : Stored(r, ks)[r.sid][k] =
                IF k \in ks \cap r.have THEN r.buf[k] ELSE disk[r.sid][k]
<1>1. CASE r.have # {} /\ r.client
  <2> DEFINE f == [k \in Kinds |-> IF k \in ks \cap r.have THEN r.buf[k]
                                                        ELSE disk[r.sid][k]]
  <2>1. Stored(r, ks) = [disk EXCEPT ![r.sid] = f]
    BY <1>1 DEF Stored
  <2>2. disk \in [Sids -> [Kinds -> Blob]] /\ r.sid \in Sids /\ r.buf \in [Kinds -> Blob]
    BY <1>1 DEF TypesOK, Writer
  <2>3. f \in [Kinds -> Blob]
    BY <2>2
  <2>4. \A k \in Kinds : f[k] = IF k \in ks \cap r.have THEN r.buf[k] ELSE disk[r.sid][k]
    OBVIOUS
  <2> HIDE DEF f
  <2> QED BY <1>1, <2>1, <2>2, <2>3, <2>4
<1>2. CASE r.have = {} \/ ~r.client
  BY <1>2 DEF Stored, TypesOK
<1> QED BY <1>1, <1>2

(* r has the buffers of w.                                                 *)
Holder(w, r) ==
  LET o == writer[w]
  IN  /\ o.pc # "dead" /\ r \in Writer
      /\ r.have = o.have /\ r.client = o.client /\ r.buf = o.buf /\ r.sid = o.sid

(* Flushing any files of a LocalWriter lets them grow, and the index lists *)
(* nothing that is not there.                                              *)
LEMMA FlushedStep ==
  ASSUME IInv, NEW w \in Writers, NEW r, Holder(w, r), backend = "file",
         backend' = backend, NEW ks \in SUBSET Kinds, disk' = Stored(r, ks)
  PROVE  /\ disk' \in [Sids -> [Kinds -> Blob]] /\ DiskStep(w)
         /\ r.have # {} =>
              /\ \A k \in r.have : disk'[r.sid][k].there
              /\ \A k \in Kinds : disk'[r.sid][k].recs \subseteq r.buf[k].recs
              /\ \A k \in Kinds : disk[r.sid][k].recs \subseteq disk'[r.sid][k].recs
<1>1. /\ w \in Living /\ writer[w] \in Writer /\ StackOK(writer[w]) /\ r \in Writer
  BY DeadOrAlive DEF Holder, IInv, Living, At
<1>2. ASSUME r.have # {}
      PROVE  /\ r.sid \in Sids /\ r.sid \in Uses(w) /\ "data" \in r.have
             /\ \A k \in r.have : r.buf[k].there /\ disk[r.sid][k].there
             /\ \A k \in Kinds : disk[r.sid][k].recs \subseteq r.buf[k].recs
             /\ \A e \in r.buf["idx"].recs \ {MagicHeader} : \A k \in {"data", "meta"} :
                  \E g \in disk[r.sid][k].recs : g.put = e.put
  BY <1>1, <1>2 DEF Holder, StackOK, FilesOK, Uses
<1>3. /\ disk' \in [Sids -> [Kinds -> Blob]]
      /\ \A t \in Sids : t # r.sid => disk'[t] = disk[t]
      /\ r.have = {} \/ ~r.client => disk' = disk
      /\ r.have # {} /\ r.client =>
           \A k \in Kinds : disk'[r.sid][k] =
             IF k \in ks \cap r.have THEN r.buf[k] ELSE disk[r.sid][k]
  BY <1>1, <1>2, StoredDisk DEF IInv
<1>4. ASSUME r.have # {}
      PROVE  /\ \A k \in r.have : disk'[r.sid][k].there
             /\ \A k \in Kinds : disk'[r.sid][k].recs \subseteq r.buf[k].recs
             /\ \A k \in Kinds : disk[r.sid][k].recs \subseteq disk'[r.sid][k].recs
  <2>1. r.have \subseteq Kinds
    BY <1>1 DEF Writer
  <2>2. CASE r.client
    BY <1>2, <1>3, <1>4, <2>1, <2>2
  <2>3. CASE ~r.client
    BY <1>2, <1>3, <1>4, <2>3
  <2> QED BY <2>2, <2>3
<1>5. ASSUME NEW s \in Sids, disk'[s] # disk[s]
      PROVE  /\ s \in Uses(w) /\ disk'[s]["data"].there
             /\ \A k \in Kinds : disk[s][k].recs \subseteq disk'[s][k].recs
             /\ Indexed(disk'[s])
  <2>1. s = r.sid /\ r.have # {}
    BY <1>3, <1>5
  <2>2. Indexed(disk'[s])
    <3>1. "idx" \in Kinds /\ \A k \in {"data", "meta"} : k \in Kinds
      BY DEF Kinds
    <3> QED BY <1>2, <1>4, <2>1, <3>1 DEF Indexed
  <2> QED BY <1>2, <1>4, <2>1, <2>2
<1> QED BY <1>3, <1>4, <1>5 DEF DiskStep

(* An S3Writer puts its index after data and meta.                         *)
LEMMA UploadedStep ==
  ASSUME IInv, NEW w \in Writers, NEW r, Calls(w, r), r.shut = {}, backend = "s3",
         NEW ks \in SUBSET Kinds, "idx" \in ks => ks = Kinds,
         disk' = Stored(r, ks), hurt \subseteq hurt'
  PROVE  /\ disk' \in [Sids -> [Kinds -> Blob]] /\ DiskStep(w)
         /\ r.have # {} /\ ks = Kinds => disk'[r.sid] = r.buf
         /\ r.have # {} /\ ks \subseteq {"data"} =>
              /\ \A k \in {"meta", "idx"} : disk'[r.sid][k] = Nothing
              /\ ~Hurt(r.sid, "overwritten")' =>
                   disk'[r.sid]["data"].recs \subseteq r.buf["data"].recs
<1>1. /\ r \in Writer /\ StackOK(r) /\ backend' = backend
      /\ r.have # {} => r.sid \in Uses(w) /\ r.sid \in Sids /\ r.client
  BY Caller
<1>2. r.have # {} => ObjectsOK(r) /\ r.have = Kinds
  BY <1>1 DEF StackOK, ObjectsOK
<1>3. /\ disk' \in [Sids -> [Kinds -> Blob]]
      /\ \A t \in Sids : t # r.sid => disk'[t] = disk[t]
      /\ r.have = {} => disk' = disk
      /\ r.have # {} =>
           \A k \in Kinds : disk'[r.sid][k] = IF k \in ks THEN r.buf[k] ELSE disk[r.sid][k]
  BY <1>1, <1>2, StoredDisk DEF IInv
<1>4. ~Hurt(r.sid, "overwritten")' => ~Hurt(r.sid, "overwritten")
  BY DEF Hurt
<1>5. "data" \in Kinds /\ "meta" \in Kinds /\ "idx" \in Kinds
  BY DEF Kinds
<1>6. ASSUME r.have # {}, ks = Kinds PROVE disk'[r.sid] = r.buf
  <2>1. \A k \in Kinds : disk'[r.sid][k] = r.buf[k]
    BY <1>3, <1>6
  <2>2. disk'[r.sid] \in [Kinds -> Blob] /\ r.buf \in [Kinds -> Blob]
    BY <1>1, <1>3, <1>6 DEF Writer
  <2> QED BY <2>1, <2>2
<1>7. ASSUME r.have # {}, ks \subseteq {"data"}
      PROVE  /\ \A k \in {"meta", "idx"} : disk'[r.sid][k] = Nothing
             /\ ~Hurt(r.sid, "overwritten")' =>
                  disk'[r.sid]["data"].recs \subseteq r.buf["data"].recs
  BY <1>2, <1>3, <1>4, <1>5, <1>7 DEF ObjectsOK
<1>8. ASSUME r.have # {}, ~Hurt(r.sid, "overwritten")'
      PROVE  /\ \A k \in Kinds : disk[r.sid][k].recs \subseteq disk'[r.sid][k].recs
             /\ Indexed(disk'[r.sid])
  <2>1. /\ disk[r.sid]["data"].recs \subseteq r.buf["data"].recs
        /\ disk[r.sid]["meta"] = Nothing /\ disk[r.sid]["idx"] = Nothing
        /\ Indexed(r.buf)
    BY <1>2, <1>4, <1>8 DEF ObjectsOK
  <2>2. \A k \in Kinds : disk[r.sid][k].recs \subseteq disk'[r.sid][k].recs
    BY <1>3, <1>8, <2>1, HeadedTyped DEF Kinds
  <2>3. CASE "idx" \in ks
    BY <1>6, <1>8, <2>1, <2>2, <2>3
  <2>4. CASE "idx" \notin ks
    <3>1. disk'[r.sid]["idx"].recs = {}
      BY <1>3, <1>5, <1>8, <2>1, <2>4, HeadedTyped
    <3> QED BY <2>2, <3>1 DEF Indexed
  <2> QED BY <2>3, <2>4
<1>9. DiskStep(w)
  BY <1>1, <1>3, <1>8 DEF DiskStep
<1> QED BY <1>3, <1>6, <1>7, <1>9

(* The process dies, and its files are perhaps flushed on the way.         *)
LEMMA DieStep ==
  ASSUME IInv, NEW w \in Writers, Die(w) PROVE Step(w)
<1>1. /\ writer[w].pc # "dead" /\ Becomes(w, Dead) /\ Fault
      /\ UNCHANGED <<backend, book, puts, acked, hurt, nextId>>
      /\ disk' = disk \/ (backend = "file" /\ disk' = Stored(writer[w], Kinds))
  BY DEF Die, At
<1>2. /\ faults' \in 0 .. MaxFaults /\ nextId' \in Nat /\ nextId <= nextId'
  BY <1>1, FaultTyped DEF IInv, TypesOK
<1>3. writer[w] \in Writer
  BY <1>1, DeadOrAlive DEF IInv, At
<1>4. disk' \in [Sids -> [Kinds -> Blob]] /\ DiskStep(w)
  <2>1. CASE disk' = disk
    BY <2>1 DEF DiskStep, IInv, TypesOK
  <2>2. CASE backend = "file" /\ disk' = Stored(writer[w], Kinds)
    <3>1. Holder(w, writer[w]) /\ backend' = backend /\ Kinds \in SUBSET Kinds
      BY <1>1, <1>3 DEF Holder
    <3> QED BY <2>2, <3>1, FlushedStep
  <2> QED BY <1>1, <2>1, <2>2
<1> QED BY <1>1, <1>2, <1>4, DeadStep
-----------------------------------------------------------------------------
(* Writing.                                                                *)

(* A put's fields are written down under its number.                       *)
LEMMA BookedPut ==
  ASSUME IInv, NEW w \in Writers, NEW r, Puttings(w, r),
         book' = [book EXCEPT ![r.put] = Recorded(r, w)],
         acked' \in {acked, acked \cup {r.put}}
  PROVE  /\ book' \in [Puts -> Booked] /\ book'[r.put] = Recorded(r, w)
         /\ acked' \subseteq 1 .. puts' /\ r.put \in Puts /\ r.put # 0
         /\ \A n \in acked : n \in acked' /\ book'[n] = book[n]
         /\ \A n \in acked' : n \notin acked => n = r.put /\ r.put \in acked'
<1>1. /\ r \in Writer /\ r.put \in Puts /\ acked \subseteq 1 .. puts'
      /\ acked \subseteq Puts /\ r.put \in 1 .. puts' /\ r.put \notin acked
  BY Caller DEF Puttings
<1>2. Recorded(r, w) \in Booked
  BY <1>1 DEF Recorded, Booked, Writer
<1>3. book \in [Puts -> Booked]
  BY DEF IInv, TypesOK
<1> QED BY <1>1, <1>2, <1>3 DEF Puts

(* The offsets after the writes of the kinds in ks.                        *)
LEMMA AdvancedFields ==
  ASSUME NEW r \in Writer, NEW ks
  PROVE  LET q == Advanced(r, ks)
         IN  /\ q \in Writer
             /\ q.off = r.off + (IF "data" \in ks THEN SdkRecordSize(r.size) ELSE 0)
             /\ q.moff = r.moff + (IF "meta" \in ks THEN MetaLine ELSE 0)
             /\ q.have = r.have /\ q.shut = r.shut /\ q.client = r.client
             /\ q.sid = r.sid /\ q.raw = r.raw /\ q.buf = r.buf /\ q.size = r.size
             /\ q.pos = r.pos
<1>1. SdkRecordSize(r.size) \in Nat /\ MetaLine \in Nat
  <2>1. SdkEntrySize("data", r.size) \in Nat
    BY SizesTyped DEF Writer, Kinds
  <2> QED BY <2>1, LineAssumption, IdxAssumption DEF SdkEntrySize
<1>2. PICK a \in Nat : a = r.off + (IF "data" \in ks THEN SdkRecordSize(r.size) ELSE 0)
  BY <1>1 DEF Writer
<1>3. PICK b \in Nat : b = r.moff + (IF "meta" \in ks THEN MetaLine ELSE 0)
  BY <1>1 DEF Writer
<1>4. Advanced(r, ks) = [r EXCEPT !.off = a, !.moff = b]
  BY <1>2, <1>3 DEF Advanced, Writer
<1> QED BY <1>2, <1>3, <1>4 DEF Writer

(* Writes of a LocalWriter that leave it with the buffers q.buf and the    *)
(* files f.                                                                *)
LEMMA WroteFiles ==
  ASSUME IInv, NEW w \in Writers, NEW r, Puttings(w, r), r.shut = {}, backend = "file",
         NEW q \in Writer, Becomes(w, q),
         q.pc = "idle", q.call = "none", q.have = Kinds, q.shut = {},
         q.client = r.client, q.sid = r.sid, q.raw <= MaxData,
         NEW f \in [Kinds -> Blob], disk' = [disk EXCEPT ![r.sid] = f],
         \A k \in Kinds : /\ disk[r.sid][k].recs \subseteq f[k].recs
                          /\ f[k].recs \subseteq q.buf[k].recs
                          /\ f[k].there /\ q.buf[k].there,
         \A e \in q.buf["idx"].recs \ {MagicHeader} : \A k \in {"data", "meta"} :
           \E g \in f[k].recs : g.put = e.put,
         <<r.sid, "write">> \notin hurt' /\ <<r.sid, "overwritten">> \notin hurt'
           => InStep(q),
         book' = [book EXCEPT ![r.put] = Recorded(r, w)],
         \/ acked' = acked
         \/ /\ acked' = acked \cup {r.put} /\ f = q.buf
            /\ <<r.sid, "write">> \notin hurt' /\ <<r.sid, "overwritten">> \notin hurt'
                 => HoldsAs(q.buf, Recorded(r, w), r.put),
         hurt \subseteq hurt',
         hurt' \subseteq Sids \X {"write", "shut", "retried", "overwritten"},
         faults' \in 0 .. MaxFaults
  PROVE  Step(w)
<1>1. /\ w \in Living /\ r \in Writer /\ StackOK(r)
      /\ r.have = Kinds /\ Kinds # {} /\ r.sid \in Uses(w) /\ r.sid \in Sids /\ r.client
      /\ backend' = backend /\ Calls(w, r)
  <2>1. Kinds # {} /\ r.have = Kinds /\ Calls(w, r)
    BY DEF Kinds, Puttings
  <2> QED BY <2>1, Caller
<1>2. /\ disk' \in [Sids -> [Kinds -> Blob]] /\ disk'[r.sid] = f
      /\ \A t \in Sids : t # r.sid => disk'[t] = disk[t]
  BY <1>1 DEF IInv, TypesOK
<1>3. writer'[w] = q
  BY BecomesFields DEF IInv
<1>4. /\ book' \in [Puts -> Booked] /\ book'[r.put] = Recorded(r, w)
      /\ acked' \subseteq 1 .. puts'
      /\ \A n \in acked : n \in acked' /\ book'[n] = book[n]
      /\ \A n \in acked' : n \notin acked => n = r.put /\ r.put \in acked'
  BY BookedPut
<1>5. StackOK(writer[w])'
  <2>1. ~Hurt(writer[w].sid, "write")' /\ ~Hurt(writer[w].sid, "overwritten")'
          => InStep(writer[w])'
    BY <1>3 DEF Hurt, InStep
  <2>2. FilesOK(writer[w])'
    <3>1. "data" \in Kinds
      BY DEF Kinds
    <3> QED BY <1>2, <1>3, <3>1 DEF FilesOK
  <2> QED BY <1>1, <1>3, <2>1, <2>2 DEF StackOK
<1>6. WriterStep(w)
  BY <1>1, <1>2, <1>4, <1>5, CallStep
<1>7. DiskStep(w)
  <2>1. Indexed(f)
    <3>1. "idx" \in Kinds
      BY DEF Kinds
    <3> QED BY <3>1 DEF Indexed
  <2>2. f["data"].there
    BY DEF Kinds
  <2> QED BY <1>1, <1>2, <2>1, <2>2 DEF DiskStep
<1>8. BookStep(w)
  <2>1. ASSUME NEW n \in acked', n \notin acked
        PROVE  /\ n = r.put /\ book'[n].sid = q.sid /\ book'[n].by = w
               /\ <<q.sid, "write">> \notin hurt' /\ <<q.sid, "overwritten">> \notin hurt'
                    => HoldsAs(q.buf, book'[n], n)
               /\ disk'[q.sid] = q.buf
    <3>1. acked' # acked /\ n = r.put
      BY <1>4, <2>1
    <3> QED BY <1>2, <1>4, <3>1 DEF Recorded
  <2>2. \/ writer[w].call = "put" /\ r.put = writer[w].put
        \/ r.put = puts + 1
    BY DEF Puttings
  <2> QED BY <1>1, <1>3, <1>4, <2>1, <2>2 DEF BookStep
<1>9. BufferStep(w)
  BY DEF BufferStep
<1> QED BY <1>6, <1>7, <1>8, <1>9 DEF Step

(* Writes to the buffers of an S3Writer.                                   *)
LEMMA WroteBuffers ==
  ASSUME IInv, NEW w \in Writers, NEW r, Puttings(w, r), r.shut = {}, backend = "s3",
         NEW q \in Writer, Becomes(w, q),
         q.pc = "idle", q.call = "none", q.have = Kinds, q.shut = {},
         q.client = r.client, q.sid = r.sid, q.raw <= MaxData,
         q.pos <= q.buf["data"].len, r.buf["data"].len <= q.buf["data"].len,
         \A e \in q.buf["data"].recs : \/ e \in r.buf["data"].recs
                                       \/ /\ e.put = r.put
                                          /\ e.at + SdkRecordSize(r.size)
                                               <= q.buf["data"].len,
         <<r.sid, "overwritten">> \notin hurt' =>
           /\ Indexed(q.buf)
           /\ \A k \in Kinds : r.buf[k].recs \subseteq q.buf[k].recs
           /\ <<r.sid, "write">> \notin hurt' =>
                InStep(q) /\ HoldsAs(q.buf, Recorded(r, w), r.put),
         disk' = disk, faults' = faults,
         book' = [book EXCEPT ![r.put] = Recorded(r, w)],
         acked' = acked \cup {r.put},
         hurt \subseteq hurt',
         hurt' \subseteq Sids \X {"write", "shut", "retried", "overwritten"}
  PROVE  Step(w)
<1>1. /\ w \in Living /\ r \in Writer /\ StackOK(r)
      /\ r.have = Kinds /\ Kinds # {} /\ r.sid \in Uses(w) /\ r.sid \in Sids /\ r.client
      /\ backend' = backend /\ nextId' = nextId /\ Calls(w, r)
  <2>1. Kinds # {} /\ r.have = Kinds /\ Calls(w, r)
    BY DEF Kinds, Puttings
  <2> QED BY <2>1, Caller
<1>2. /\ disk' \in [Sids -> [Kinds -> Blob]] /\ faults' \in 0 .. MaxFaults
  BY DEF IInv, TypesOK
<1>3. writer'[w] = q
  BY BecomesFields DEF IInv
<1>4. /\ book' \in [Puts -> Booked] /\ book'[r.put] = Recorded(r, w)
      /\ acked' \subseteq 1 .. puts' /\ r.put # 0
      /\ \A n \in acked : n \in acked' /\ book'[n] = book[n]
      /\ \A n \in acked' : n \notin acked => n = r.put /\ r.put \in acked'
  BY BookedPut
<1>5. ObjectsOK(r)
  BY <1>1 DEF StackOK
<1>6. ObjectsOK(writer[w])'
  <2>1. ASSUME NEW e \in q.buf["data"].recs
        PROVE  (e.put = 0 \/ e.put \in acked') /\ EntryEnd(e)' <= q.buf["data"].len
    <3>1. CASE e \in r.buf["data"].recs
      <4>1. (e.put = 0 \/ e.put \in acked) /\ EntryEnd(e) <= r.buf["data"].len
        BY <1>5, <3>1 DEF ObjectsOK
      <4>2. EntryEnd(e)' = EntryEnd(e)
        BY <1>4, <4>1 DEF EntryEnd
      <4>3. /\ r.buf["data"] \in Blob /\ q.buf["data"] \in Blob
            /\ e \in Entry
        BY <1>1, <3>1 DEF Writer, Kinds, Blob
      <4>4. EntryEnd(e) \in Int
        <5>1. CASE e.put = 0
          BY <5>1, SizesTyped DEF EntryEnd, Kinds
        <5>2. CASE e.put # 0
          <6>1. e.put \in Puts
            BY <4>1, <5>2, <1>1, Caller
          <6>2. book[e.put].size \in Nat
            BY <6>1 DEF IInv, TypesOK, Booked
          <6>3. SdkEntrySize("data", book[e.put].size) \in Nat
            BY <6>2, SizesTyped DEF Kinds
          <6> QED BY <4>3, <5>2, <6>3 DEF EntryEnd, SdkEntrySize, Entry
        <5> QED BY <5>1, <5>2
      <4> QED BY <1>4, <4>1, <4>2, <4>3, <4>4 DEF Blob
    <3>2. CASE e.put = r.put /\ e.at + SdkRecordSize(r.size) <= q.buf["data"].len
      BY <1>4, <3>2 DEF EntryEnd, Recorded
    <3> QED BY <3>1, <3>2
  <2>2. <<r.sid, "overwritten">> \notin hurt' =>
          /\ Indexed(writer[w].buf)'
          /\ disk'[r.sid]["data"].recs \subseteq q.buf["data"].recs
    <3>1. "data" \in Kinds
      BY DEF Kinds
    <3> QED BY <1>3, <1>5, <3>1 DEF ObjectsOK, Indexed, Hurt
  <2>3. \A k \in {"meta", "idx"} : disk'[r.sid][k] = Nothing
    BY <1>5 DEF ObjectsOK
  <2> QED BY <1>1, <1>3, <1>5, <2>1, <2>2, <2>3 DEF ObjectsOK, Hurt
<1>7. StackOK(writer[w])'
  <2>1. ~Hurt(writer[w].sid, "write")' /\ ~Hurt(writer[w].sid, "overwritten")'
          => InStep(writer[w])'
    BY <1>3 DEF Hurt, InStep
  <2> QED BY <1>1, <1>3, <1>6, <2>1 DEF StackOK
<1>8. WriterStep(w)
  BY <1>1, <1>2, <1>4, <1>7, CallStep
<1>9. DiskStep(w)
  BY DEF DiskStep
<1>10. BookStep(w)
  <2>1. ASSUME NEW n \in acked', n \notin acked
        PROVE  /\ n = r.put /\ book'[n].sid = q.sid /\ book'[n].by = w
               /\ <<q.sid, "write">> \notin hurt' /\ <<q.sid, "overwritten">> \notin hurt'
                    => HoldsAs(q.buf, book'[n], n)
    BY <1>4, <2>1 DEF Recorded
  <2>2. \/ writer[w].call = "put" /\ r.put = writer[w].put
        \/ r.put = puts + 1
    BY DEF Puttings
  <2> QED BY <1>1, <1>3, <1>4, <2>1, <2>2 DEF BookStep
<1>11. BufferStep(w)
  BY <1>1, <1>3 DEF BufferStep, Calls
<1> QED BY <1>8, <1>9, <1>10, <1>11 DEF Step

(* The longer of two lengths.                                              *)
LEMMA MaxOfTwo ==
  ASSUME NEW a \in Nat, NEW b \in Nat
  PROVE  /\ Max({a, b}) \in Nat /\ Max({a, b}) >= a /\ Max({a, b}) >= b
         /\ a <= b => Max({a, b}) = b
<1>1. \E x \in {a, b} : \A y \in {a, b} : x >= y
  <2>1. a <= b \/ b <= a
    OBVIOUS
  <2> QED BY <2>1
<1>2. Max({a, b}) \in {a, b} /\ \A y \in {a, b} : Max({a, b}) >= y
  BY <1>1 DEF Max
<1> QED BY <1>2

(* What overwriting a buffer leaves of it.                                 *)
LEMMA WrittenTyped ==
  ASSUME NEW b \in Blob, NEW pos \in Nat, NEW n \in Puts, NEW size \in Nat
  PROVE  LET c == WrittenAt(b, pos, n, size)
         IN  /\ c \in Blob /\ c.there = b.there
             /\ c.len >= b.len /\ c.len >= pos + size
             /\ pos = b.len => c.len = pos + size
             /\ \A e \in c.recs : e \in b.recs \/ e = [at |-> pos, put |-> n]
             /\ [at |-> pos, put |-> n] \in c.recs
             /\ \A e \in b.recs : EntryEnd(e) <= pos => e \in c.recs
<1> DEFINE len == Max({b.len, pos + size})
           recs == {e \in b.recs : EntryEnd(e) <= pos \/ pos + size <= e.at}
                     \cup {[at |-> pos, put |-> n]}
<1>1. b.len \in Nat /\ pos + size \in Nat
  BY DEF Blob
<1>2. /\ len \in Nat /\ len >= b.len /\ len >= pos + size
      /\ pos = b.len => len = pos + size
  BY <1>1, MaxOfTwo
<1>3. recs \in SUBSET Entry
  <2>1. n \in 0 .. MaxPuts
    BY BoundsAssumption DEF Puts
  <2> QED BY <2>1 DEF Blob, Entry
<1>4. /\ \A e \in recs : e \in b.recs \/ e = [at |-> pos, put |-> n]
      /\ [at |-> pos, put |-> n] \in recs
      /\ \A e \in b.recs : EntryEnd(e) <= pos => e \in recs
  OBVIOUS
<1>5. WrittenAt(b, pos, n, size) = [b EXCEPT !.len = len, !.recs = recs]
  BY DEF WrittenAt, Blob
<1> HIDE DEF len, recs
<1> QED BY <1>2, <1>3, <1>4, <1>5 DEF Blob

(* A writer that has written all three records.                            *)
Wrote(r, buf) ==
  Returned([Advanced(r, Kinds) EXCEPT !.buf = buf, !.raw = @ + r.size,
              !.pos = @ + SdkRecordSize(r.size)])

(* Its fields.                                                             *)
LEMMA WrittenFields ==
  ASSUME NEW r \in Writer, NEW buf \in [Kinds -> Blob]
  PROVE  LET q == Wrote(r, buf)
         IN  /\ q \in Writer /\ q.pc = "idle" /\ q.call = "none"
             /\ q.have = r.have /\ q.shut = r.shut /\ q.client = r.client
             /\ q.sid = r.sid /\ q.buf = buf /\ q.raw = r.raw + r.size
             /\ q.pos = r.pos + SdkRecordSize(r.size)
             /\ q.off = r.off + SdkRecordSize(r.size) /\ q.moff = r.moff + MetaLine
<1> DEFINE a == Advanced(r, Kinds)
           z == SdkRecordSize(r.size)
           p == [a EXCEPT !.buf = buf, !.raw = @ + r.size, !.pos = @ + z]
<1>1. /\ a \in Writer /\ a.have = r.have /\ a.shut = r.shut /\ a.client = r.client
      /\ a.sid = r.sid /\ a.raw = r.raw /\ a.pos = r.pos
      /\ a.off = r.off + z /\ a.moff = r.moff + MetaLine
  BY AdvancedFields DEF Kinds
<1>2. z \in Nat /\ r.raw + r.size \in Nat /\ r.pos + z \in Nat
  <2>1. SdkEntrySize("data", r.size) \in Nat
    BY SizesTyped DEF Writer, Kinds
  <2> QED BY <2>1 DEF SdkEntrySize, Writer
<1> HIDE DEF a, z
<1>3. /\ p \in Writer /\ p.have = a.have /\ p.shut = a.shut /\ p.client = a.client
      /\ p.sid = a.sid /\ p.raw = r.raw + r.size /\ p.pos = r.pos + z
      /\ p.buf = buf /\ p.off = a.off /\ p.moff = a.moff
  BY <1>1, <1>2 DEF Writer
<1> HIDE DEF p
<1>4. LET q == Returned(p)
      IN  /\ q \in Writer /\ q.pc = "idle" /\ q.call = "none"
          /\ q.have = r.have /\ q.shut = r.shut /\ q.client = r.client
          /\ q.sid = r.sid /\ q.buf = buf /\ q.raw = r.raw + r.size
          /\ q.pos = r.pos + z
          /\ q.off = r.off + z /\ q.moff = r.moff + MetaLine
  BY <1>1, <1>3, ReturnedFields
<1> QED BY <1>4 DEF Wrote, p, a, z

(* A record in the three files of a LocalWriter.                           *)
LEMMA WriteFileStep ==
  ASSUME IInv, NEW w \in Writers, NEW r, Puttings(w, r), backend = "file",
         r.raw + r.size <= MaxData, Write(w, r)
  PROVE  Step(w)
<1> DEFINE n == r.put
           buf == [k \in Kinds |-> Extended(r, k)]
           q == Wrote(r, buf)
<1>1. /\ r \in Writer /\ r.have = Kinds /\ r.shut = {} /\ Becomes(w, q)
      /\ StackOK(r) /\ n \in Puts /\ r.size \in Nat /\ r.sid \in Sids
      /\ "data" \in Kinds /\ "meta" \in Kinds /\ "idx" \in Kinds
  BY Caller DEF Write, Wrote, Puttings, Calls, Writer, Kinds
<1>2. ASSUME NEW k \in Kinds
      PROVE  /\ buf[k] \in Blob /\ buf[k].there = r.buf[k].there
             /\ buf[k].len = r.buf[k].len + SdkEntrySize(k, r.size)
             /\ buf[k].recs = r.buf[k].recs \cup {[at |-> r.buf[k].len, put |-> n]}
  <2>1. r.buf[k] \in Blob /\ SdkEntrySize(k, r.size) \in Nat
    BY <1>1, SizesTyped DEF Writer
  <2>2. buf[k] = Appended(r.buf[k], n, SdkEntrySize(k, r.size))
    BY DEF Extended
  <2> HIDE DEF buf
  <2>3. n \in Puts
    BY <1>1
  <2> DEFINE b == r.buf[k]
             x == SdkEntrySize(k, r.size)
  <2>4. b \in Blob /\ x \in Nat
    BY <2>1
  <2>5. /\ Appended(b, n, x) \in Blob /\ Appended(b, n, x).there = b.there
        /\ Appended(b, n, x).len = b.len + x
        /\ Appended(b, n, x).recs = b.recs \cup {[at |-> b.len, put |-> n]}
    <3> HIDE DEF b, x, n
    <3> QED BY <2>3, <2>4, AppendedTyped
  <2> QED BY <2>2, <2>5
<1>3. buf \in [Kinds -> Blob]
  BY <1>2
<1>a. /\ disk' = [disk EXCEPT ![r.sid] = buf] /\ acked' = acked \cup {n}
      /\ book' = [book EXCEPT ![r.put] = Recorded(r, w)]
      /\ hurt' = hurt /\ faults' = faults
  BY DEF Write
<1> HIDE DEF buf
<1>4. /\ q \in Writer /\ q.pc = "idle" /\ q.call = "none" /\ q.have = r.have
      /\ q.shut = r.shut /\ q.client = r.client /\ q.sid = r.sid
      /\ q.buf = buf /\ q.raw = r.raw + r.size
      /\ q.off = r.off + SdkRecordSize(r.size) /\ q.moff = r.moff + MetaLine
  <2>1. r \in Writer /\ buf \in [Kinds -> Blob]
    BY <1>1, <1>3
  <2> QED BY <2>1, WrittenFields
<1> HIDE DEF q
<1>5. FilesOK(r)
  BY <1>1 DEF StackOK
<1>6. \A k \in Kinds : /\ disk[r.sid][k].recs \subseteq buf[k].recs
                       /\ r.buf[k].there /\ buf[k].there
  BY <1>1, <1>2, <1>5 DEF FilesOK
<1>7. ASSUME NEW e \in buf["idx"].recs \ {MagicHeader}, NEW k \in {"data", "meta"}
      PROVE  \E g \in buf[k].recs : g.put = e.put
  <2>1. k \in Kinds
    BY DEF Kinds
  <2>2. CASE e \in r.buf["idx"].recs
    BY <1>5, <1>6, <2>1, <2>2 DEF FilesOK
  <2>3. CASE e \notin r.buf["idx"].recs
    <3>1. e.put = n
      BY <1>1, <1>2, <1>7, <2>3
    <3>2. [at |-> r.buf[k].len, put |-> n] \in buf[k].recs
      BY <1>2, <2>1
    <3> QED BY <3>1, <3>2
  <2> QED BY <2>2, <2>3
<1>8. ASSUME InStep(r) PROVE InStep(q) /\ HoldsAs(q.buf, Recorded(r, w), n)
  <2>1. \A k \in Kinds : MagicHeader \in buf[k].recs
    BY <1>2, <1>8 DEF InStep
  <2>2. buf["data"].len = q.off /\ buf["meta"].len = q.moff
    BY <1>1, <1>2, <1>4, <1>8 DEF InStep, SdkEntrySize, EntrySize
  <2>3. r.off = r.buf["data"].len /\ r.moff = r.buf["meta"].len
    BY <1>8 DEF InStep
  <2>4. \A k \in Kinds : [at |-> r.buf[k].len, put |-> n] \in buf[k].recs
    BY <1>2
  <2>5. /\ [at |-> r.off, put |-> n] \in buf["data"].recs
        /\ [at |-> r.moff, put |-> n] \in buf["meta"].recs
    BY <1>1, <2>3, <2>4
  <2>6. [at |-> r.buf["idx"].len, put |-> n].put = n
    OBVIOUS
  <2>7. \E e \in buf["idx"].recs : e.put = n
    BY <1>1, <2>4, <2>6
  <2> QED BY <1>4, <2>1, <2>2, <2>5, <2>7 DEF InStep, HoldsAs, Recorded
<1>9. <<r.sid, "write">> \notin hurt' /\ <<r.sid, "overwritten">> \notin hurt' => InStep(r)
  BY <1>1, <1>a DEF StackOK, Hurt
<1>10. /\ hurt \subseteq hurt'
       /\ hurt' \subseteq Sids \X {"write", "shut", "retried", "overwritten"}
       /\ faults' \in 0 .. MaxFaults
  BY <1>a DEF IInv, TypesOK
<1>11. q.raw <= MaxData /\ Becomes(w, q)
  BY <1>1, <1>4
<1>12. /\ q.buf \in [Kinds -> Blob] /\ disk' = [disk EXCEPT ![r.sid] = q.buf]
       /\ \A k \in Kinds : /\ disk[r.sid][k].recs \subseteq q.buf[k].recs
                           /\ q.buf[k].recs \subseteq q.buf[k].recs
                           /\ q.buf[k].there
       /\ \A e \in q.buf["idx"].recs \ {MagicHeader} : \A k \in {"data", "meta"} :
            \E g \in q.buf[k].recs : g.put = e.put
  BY <1>3, <1>4, <1>6, <1>7, <1>a
<1>13. /\ q \in Writer /\ Becomes(w, q) /\ q.pc = "idle" /\ q.call = "none"
       /\ q.have = Kinds /\ q.shut = {} /\ q.client = r.client /\ q.sid = r.sid
       /\ q.raw <= MaxData /\ r.shut = {}
       /\ book' = [book EXCEPT ![r.put] = Recorded(r, w)]
       /\ acked' = acked \cup {r.put}
  BY <1>1, <1>4, <1>11, <1>a
<1>14. <<r.sid, "write">> \notin hurt' /\ <<r.sid, "overwritten">> \notin hurt' =>
         InStep(q) /\ HoldsAs(q.buf, Recorded(r, w), r.put)
  BY <1>8, <1>9
<1> QED BY <1>10, <1>12, <1>13, <1>14, WroteFiles

(* A record in the three buffers of an S3Writer.                           *)
LEMMA WriteBufferStep ==
  ASSUME IInv, NEW w \in Writers, NEW r, Puttings(w, r), backend = "s3",
         r.raw + r.size <= MaxData, Write(w, r)
  PROVE  Step(w)
<1> DEFINE n == r.put
           z == SdkRecordSize(r.size)
           buf == [k \in Kinds |-> Extended(r, k)]
           q == Wrote(r, buf)
<1>1. /\ r \in Writer /\ r.have = Kinds /\ r.shut = {} /\ Becomes(w, q)
      /\ StackOK(r) /\ n \in Puts /\ r.size \in Nat /\ r.sid \in Sids /\ r.pos \in Nat
      /\ "data" \in Kinds /\ "meta" \in Kinds /\ "idx" \in Kinds
  BY Caller DEF Write, Wrote, Puttings, Calls, Writer, Kinds
<1>2. z \in Nat
  <2>1. SdkEntrySize("data", r.size) \in Nat
    BY <1>1, SizesTyped
  <2> QED BY <2>1 DEF SdkEntrySize
<1>3. \A k \in Kinds : r.buf[k] \in Blob /\ r.buf[k].len \in Nat
  BY <1>1 DEF Writer, Blob
<1>4. ASSUME NEW k \in Kinds, k # "data"
      PROVE  /\ buf[k] \in Blob
             /\ buf[k].len = r.buf[k].len + SdkEntrySize(k, r.size)
             /\ buf[k].recs = r.buf[k].recs \cup {[at |-> r.buf[k].len, put |-> n]}
  <2>1. r.buf[k] \in Blob /\ SdkEntrySize(k, r.size) \in Nat
    BY <1>1, <1>3, SizesTyped
  <2>2. buf[k] = Appended(r.buf[k], n, SdkEntrySize(k, r.size))
    BY <1>4 DEF Extended
  <2> HIDE DEF buf
  <2>3. n \in Puts
    BY <1>1
  <2> DEFINE b == r.buf[k]
             x == SdkEntrySize(k, r.size)
  <2>4. b \in Blob /\ x \in Nat
    BY <2>1
  <2>5. /\ Appended(b, n, x) \in Blob /\ Appended(b, n, x).there = b.there
        /\ Appended(b, n, x).len = b.len + x
        /\ Appended(b, n, x).recs = b.recs \cup {[at |-> b.len, put |-> n]}
    <3> HIDE DEF b, x, n
    <3> QED BY <2>3, <2>4, AppendedTyped
  <2> QED BY <2>2, <2>5
<1>5. /\ buf["data"] \in Blob
      /\ buf["data"].len >= r.buf["data"].len /\ buf["data"].len >= r.pos + z
      /\ r.pos = r.buf["data"].len => buf["data"].len = r.pos + z
      /\ \A e \in buf["data"].recs :
           e \in r.buf["data"].recs \/ e = [at |-> r.pos, put |-> n]
      /\ [at |-> r.pos, put |-> n] \in buf["data"].recs
      /\ \A e \in r.buf["data"].recs : EntryEnd(e) <= r.pos => e \in buf["data"].recs
  <2>1. buf["data"] = WrittenAt(r.buf["data"], r.pos, n, z)
    BY <1>1 DEF Extended
  <2> HIDE DEF buf, z
  <2> DEFINE b == r.buf["data"]
             c == WrittenAt(b, r.pos, n, z)
  <2>2. b \in Blob /\ r.pos \in Nat /\ n \in Puts /\ z \in Nat
    BY <1>1, <1>2, <1>3
  <2>3. /\ c \in Blob /\ c.there = b.there
        /\ c.len >= b.len /\ c.len >= r.pos + z
        /\ r.pos = b.len => c.len = r.pos + z
        /\ \A e \in c.recs : e \in b.recs \/ e = [at |-> r.pos, put |-> n]
        /\ [at |-> r.pos, put |-> n] \in c.recs
        /\ \A e \in b.recs : EntryEnd(e) <= r.pos => e \in c.recs
    <3> HIDE DEF b, n
    <3> QED BY <2>2, WrittenTyped
  <2> QED BY <2>1, <2>3
<1>6. buf \in [Kinds -> Blob]
  BY <1>4, <1>5
<1>7. /\ disk' = disk /\ acked' = acked \cup {n}
      /\ book' = [book EXCEPT ![r.put] = Recorded(r, w)]
      /\ hurt' = (IF r.pos < r.buf["data"].len
                    THEN hurt \cup {<<r.sid, "overwritten">>} ELSE hurt)
      /\ faults' = faults
  BY DEF Write
<1> HIDE DEF buf
<1>8. /\ q \in Writer /\ q.pc = "idle" /\ q.call = "none" /\ q.have = r.have
      /\ q.shut = r.shut /\ q.client = r.client /\ q.sid = r.sid
      /\ q.buf = buf /\ q.raw = r.raw + r.size /\ q.pos = r.pos + z
      /\ q.off = r.off + z /\ q.moff = r.moff + MetaLine
  <2>1. r \in Writer /\ buf \in [Kinds -> Blob]
    BY <1>1, <1>6
  <2> QED BY <2>1, WrittenFields
<1> HIDE DEF q, z
<1>9. ObjectsOK(r)
  BY <1>1 DEF StackOK
<1>10. ASSUME <<r.sid, "overwritten">> \notin hurt'
       PROVE  /\ Indexed(r.buf)
              /\ r.pos = r.buf["data"].len /\ buf["data"].len = r.pos + z
              /\ \A k \in Kinds : r.buf[k].recs \subseteq buf[k].recs
              /\ \A k \in Kinds : [at |-> r.buf[k].len, put |-> n] \in buf[k].recs
              /\ <<r.sid, "write">> \notin hurt' => InStep(r)
  <2>1. r.pos = r.buf["data"].len /\ hurt' = hurt
    <3>1. ~(r.pos < r.buf["data"].len)
      BY <1>7, <1>10
    <3>2. r.pos <= r.buf["data"].len
      BY <1>9 DEF ObjectsOK
    <3> QED BY <1>1, <1>3, <1>7, <3>1, <3>2
  <2>2. Indexed(r.buf)
    BY <1>9, <1>10, <2>1 DEF ObjectsOK, Hurt
  <2>3. ASSUME NEW k \in Kinds
        PROVE  /\ r.buf[k].recs \subseteq buf[k].recs
               /\ [at |-> r.buf[k].len, put |-> n] \in buf[k].recs
    <3>1. CASE k = "data"
      <4>1. \A e \in r.buf["data"].recs : EntryEnd(e) <= r.pos
        BY <1>9, <2>1 DEF ObjectsOK
      <4> QED BY <1>5, <2>1, <3>1, <4>1
    <3>2. CASE k # "data"
      BY <1>4, <3>2
    <3> QED BY <3>1, <3>2
  <2>4. <<r.sid, "write">> \notin hurt' => InStep(r)
    BY <1>1, <1>10, <2>1 DEF StackOK, Hurt
  <2> QED BY <1>5, <2>1, <2>2, <2>3, <2>4
<1>11. ASSUME <<r.sid, "overwritten">> \notin hurt'
       PROVE  /\ Indexed(q.buf)
              /\ \A k \in Kinds : r.buf[k].recs \subseteq q.buf[k].recs
              /\ <<r.sid, "write">> \notin hurt' =>
                   InStep(q) /\ HoldsAs(q.buf, Recorded(r, w), r.put)
  <2>1. Indexed(buf)
    <3> SUFFICES ASSUME NEW e \in buf["idx"].recs \ {MagicHeader}, NEW k \in {"data", "meta"}
                 PROVE  \E g \in buf[k].recs : g.put = e.put
      BY DEF Indexed
    <3>1. k \in Kinds
      BY DEF Kinds
    <3>2. CASE e \in r.buf["idx"].recs
      BY <1>10, <1>11, <3>1, <3>2 DEF Indexed
    <3>3. CASE e \notin r.buf["idx"].recs
      <4>1. e.put = n
        BY <1>1, <1>4, <3>3
      <4>2. [at |-> r.buf[k].len, put |-> n] \in buf[k].recs
        BY <1>10, <1>11, <3>1
      <4> QED BY <4>1, <4>2
    <3> QED BY <3>2, <3>3
  <2>2. ASSUME <<r.sid, "write">> \notin hurt'
        PROVE  InStep(q) /\ HoldsAs(q.buf, Recorded(r, w), r.put)
    <3>1. /\ r.off = r.buf["data"].len /\ r.moff = r.buf["meta"].len
          /\ \A k \in Kinds : MagicHeader \in r.buf[k].recs
      BY <1>10, <1>11, <2>2 DEF InStep
    <3>2. \A k \in Kinds : MagicHeader \in buf[k].recs
      BY <1>10, <1>11, <3>1
    <3>3. buf["data"].len = q.off
      BY <1>8, <1>10, <1>11, <3>1
    <3>4. buf["meta"].len = q.moff
      BY <1>1, <1>4, <1>8, <3>1 DEF SdkEntrySize, EntrySize
    <3>5. /\ [at |-> r.off, put |-> n] \in buf["data"].recs
          /\ [at |-> r.moff, put |-> n] \in buf["meta"].recs
          /\ [at |-> r.buf["idx"].len, put |-> n] \in buf["idx"].recs
      BY <1>1, <1>10, <1>11, <3>1
    <3>6. [at |-> r.buf["idx"].len, put |-> n].put = n
      OBVIOUS
    <3>7. \E e \in buf["idx"].recs : e.put = n
      BY <3>5, <3>6
    <3> QED BY <1>8, <3>2, <3>3, <3>4, <3>5, <3>7 DEF InStep, HoldsAs, Recorded
  <2> QED BY <1>8, <1>10, <1>11, <2>1, <2>2
<1>12. \A e \in q.buf["data"].recs :
         \/ e \in r.buf["data"].recs
         \/ e.put = r.put /\ e.at + SdkRecordSize(r.size) <= q.buf["data"].len
  <2>1. r.pos + z <= buf["data"].len
    BY <1>1, <1>2, <1>3, <1>5 DEF Blob
  <2> QED BY <1>5, <1>8, <2>1 DEF z
<1>13. /\ hurt \subseteq hurt'
       /\ hurt' \subseteq Sids \X {"write", "shut", "retried", "overwritten"}
  BY <1>1, <1>7 DEF IInv, TypesOK
<1>14. q.pos <= q.buf["data"].len /\ r.buf["data"].len <= q.buf["data"].len
  BY <1>1, <1>2, <1>3, <1>5, <1>8 DEF Blob
<1>15. /\ q \in Writer /\ Becomes(w, q) /\ q.pc = "idle" /\ q.call = "none"
       /\ q.have = Kinds /\ q.shut = {} /\ q.client = r.client /\ q.sid = r.sid
       /\ q.raw <= MaxData /\ r.shut = {}
  BY <1>1, <1>8
<1> QED BY <1>7, <1>11, <1>12, <1>13, <1>14, <1>15, WroteBuffers

(* A write, flush or fsync of a LocalWriter fails.                         *)
LEMMA WriteFailsStep ==
  ASSUME IInv, NEW w \in Writers, NEW r, Puttings(w, r), WriteFails(w, r)
  PROVE  Step(w)
<1> DEFINE n == r.put
<1>1. /\ r \in Writer /\ r.have = Kinds /\ r.shut = {} /\ backend = "file" /\ Fault
      /\ StackOK(r) /\ n \in Puts /\ r.size \in Nat /\ r.sid \in Sids
      /\ "data" \in Kinds /\ "meta" \in Kinds /\ "idx" \in Kinds
      /\ acked' = acked /\ book' = [book EXCEPT ![n] = Recorded(r, w)]
  BY Caller DEF WriteFails, Puttings, Calls, Writer, Kinds
<1>2. PICK k \in Kinds : \E part \in Parts(SdkEntrySize(k, r.size)) :
        LET done == Before(WriteOrder, k)
            buf == [j \in Kinds |->
                      IF j \in done THEN Extended(r, j)
                      ELSE IF j = k
                        THEN PartlyAppended(r.buf[j], n, SdkEntrySize(j, r.size), part)
                      ELSE r.buf[j]]
        IN  /\ \E flushed \in {done, done \cup {k}} :
                 disk' = [disk EXCEPT ![r.sid] =
                   [j \in Kinds |-> IF j \in flushed THEN buf[j] ELSE @[j]]]
            /\ Becomes(w, Returned([Advanced(r, done) EXCEPT !.buf = buf]))
            /\ hurt' = IF part > 0 THEN hurt \cup {<<r.sid, "write">>} ELSE hurt
  BY DEF WriteFails
<1>p. PICK part \in Parts(SdkEntrySize(k, r.size)) :
        LET done == Before(WriteOrder, k)
            buf == [j \in Kinds |->
                      IF j \in done THEN Extended(r, j)
                      ELSE IF j = k
                        THEN PartlyAppended(r.buf[j], n, SdkEntrySize(j, r.size), part)
                      ELSE r.buf[j]]
        IN  /\ \E flushed \in {done, done \cup {k}} :
                 disk' = [disk EXCEPT ![r.sid] =
                   [j \in Kinds |-> IF j \in flushed THEN buf[j] ELSE @[j]]]
            /\ Becomes(w, Returned([Advanced(r, done) EXCEPT !.buf = buf]))
            /\ hurt' = IF part > 0 THEN hurt \cup {<<r.sid, "write">>} ELSE hurt
  BY <1>2
<1> DEFINE done == Before(WriteOrder, k)
           buf == [j \in Kinds |->
                     IF j \in done THEN Extended(r, j)
                     ELSE IF j = k
                       THEN PartlyAppended(r.buf[j], n, SdkEntrySize(j, r.size), part)
                     ELSE r.buf[j]]
           q == Returned([Advanced(r, done) EXCEPT !.buf = buf])
<1>3. PICK flushed \in {done, done \cup {k}} :
        disk' = [disk EXCEPT ![r.sid] =
          [j \in Kinds |-> IF j \in flushed THEN buf[j] ELSE disk[r.sid][j]]]
  BY <1>p
<1>4. /\ Becomes(w, q)
      /\ hurt' = IF part > 0 THEN hurt \cup {<<r.sid, "write">>} ELSE hurt
  BY <1>p
<1> HIDE DEF q
<1>5. \A j \in Kinds : SdkEntrySize(j, r.size) \in Nat /\ SdkEntrySize(j, r.size) > 0
                       /\ r.buf[j] \in Blob
  BY <1>1, SizesTyped DEF Writer
<1>6. part \in Nat
  BY <1>5 DEF Parts
<1>7. \/ k = "data" /\ done = {}
      \/ k = "meta" /\ done = {"data"}
      \/ k = "idx" /\ done = {"data", "meta"}
  BY BeforeWrite DEF Kinds
<1> HIDE DEF done
<1>8. ASSUME NEW j \in Kinds
      PROVE  /\ buf[j] \in Blob /\ buf[j].there = r.buf[j].there
             /\ r.buf[j].recs \subseteq buf[j].recs
             /\ j \in done =>
                  /\ buf[j].len = r.buf[j].len + SdkEntrySize(j, r.size)
                  /\ buf[j].recs = r.buf[j].recs \cup {[at |-> r.buf[j].len, put |-> n]}
             /\ j \notin done /\ j # k => buf[j] = r.buf[j]
             /\ j = k => /\ buf[j].recs \subseteq
                              r.buf[j].recs \cup {[at |-> r.buf[j].len, put |-> n]}
                         /\ part = 0 => buf[j].len = r.buf[j].len
  <2> DEFINE b == r.buf[j]
             z == SdkEntrySize(j, r.size)
  <2>1. b \in Blob /\ b.len \in Nat /\ z \in Nat /\ z > 0 /\ n \in Puts
    BY <1>1, <1>5 DEF Blob
  <2>2. CASE j \in done
    <3>1. j # k
      BY <1>7, <2>2
    <3>2. buf[j] = Appended(b, n, z)
      BY <1>1, <2>2 DEF Extended
    <3> HIDE DEF buf, n, z
    <3>3. /\ Appended(b, n, z) \in Blob /\ Appended(b, n, z).there = b.there
          /\ Appended(b, n, z).len = b.len + z
          /\ Appended(b, n, z).recs = b.recs \cup {[at |-> b.len, put |-> n]}
      BY <2>1, AppendedTyped
    <3> QED BY <2>2, <3>1, <3>2, <3>3 DEF z
  <2>3. CASE j = k
    <3>1. j \notin done
      BY <1>7, <2>3
    <3>2. buf[j] = PartlyAppended(b, n, z, part)
      BY <2>3, <3>1
    <3> HIDE DEF buf, n, z
    <3>3. /\ PartlyAppended(b, n, z, part) \in Blob
          /\ PartlyAppended(b, n, z, part).there = b.there
          /\ b.recs \subseteq PartlyAppended(b, n, z, part).recs
          /\ part # z => /\ PartlyAppended(b, n, z, part).recs = b.recs
                         /\ PartlyAppended(b, n, z, part).len = b.len + part
      BY <1>6, <2>1, PartlyTyped
    <3>4. part = z => buf[j].recs = b.recs \cup {[at |-> b.len, put |-> n]}
      <4>1. part = z => buf[j] = Appended(b, n, z)
        BY <3>2 DEF PartlyAppended
      <4>2. /\ Appended(b, n, z) \in Blob /\ Appended(b, n, z).there = b.there
            /\ Appended(b, n, z).len = b.len + z
            /\ Appended(b, n, z).recs = b.recs \cup {[at |-> b.len, put |-> n]}
        <5> HIDE DEF b
        <5> QED BY <2>1, AppendedTyped
      <4> QED BY <4>1, <4>2
    <3>5. part = 0 => buf[j].len = b.len
      BY <2>1, <3>2, <3>3
    <3>6. buf[j].recs \subseteq b.recs \cup {[at |-> b.len, put |-> n]}
      BY <3>2, <3>3, <3>4
    <3> QED BY <2>3, <3>1, <3>2, <3>3, <3>5, <3>6
  <2>4. CASE j \notin done /\ j # k
    BY <1>5, <2>4
  <2> QED BY <2>2, <2>3, <2>4
<1>9. buf \in [Kinds -> Blob]
  BY <1>8
<1> HIDE DEF buf
<1>10. /\ q \in Writer /\ q.pc = "idle" /\ q.call = "none" /\ q.have = r.have
       /\ q.shut = r.shut /\ q.client = r.client /\ q.sid = r.sid
       /\ q.buf = buf /\ q.raw = r.raw
       /\ q.off = r.off + (IF "data" \in done THEN SdkRecordSize(r.size) ELSE 0)
       /\ q.moff = r.moff + (IF "meta" \in done THEN MetaLine ELSE 0)
  <2> DEFINE a == Advanced(r, done)
             p == [a EXCEPT !.buf = buf]
  <2>1. /\ a \in Writer /\ a.have = r.have /\ a.shut = r.shut /\ a.client = r.client
        /\ a.sid = r.sid /\ a.raw = r.raw
        /\ a.off = r.off + (IF "data" \in done THEN SdkRecordSize(r.size) ELSE 0)
        /\ a.moff = r.moff + (IF "meta" \in done THEN MetaLine ELSE 0)
    <3>1. r \in Writer
      BY <1>1
    <3> HIDE DEF done, buf, p
    <3> QED BY <3>1, AdvancedFields
  <2>2. q = Returned(p)
    BY DEF q, p, a
  <2> HIDE DEF a
  <2>3. /\ p \in Writer /\ p.have = a.have /\ p.shut = a.shut /\ p.client = a.client
        /\ p.sid = a.sid /\ p.raw = r.raw /\ p.buf = buf
        /\ p.off = a.off /\ p.moff = a.moff
    BY <1>9, <2>1 DEF Writer
  <2> HIDE DEF p, q
  <2> QED BY <2>1, <2>2, <2>3, ReturnedFields
<1> HIDE DEF q
<1> DEFINE f == [j \in Kinds |-> IF j \in flushed THEN buf[j] ELSE disk[r.sid][j]]
<1>11. FilesOK(r) /\ disk[r.sid] \in [Kinds -> Blob]
  BY <1>1 DEF StackOK, IInv, TypesOK
<1>12. /\ f \in [Kinds -> Blob] /\ disk' = [disk EXCEPT ![r.sid] = f]
       /\ \A j \in Kinds : f[j] = IF j \in flushed THEN buf[j] ELSE disk[r.sid][j]
  BY <1>3, <1>9, <1>11
<1> HIDE DEF f
<1>13. ASSUME NEW j \in Kinds
       PROVE  /\ disk[r.sid][j].recs \subseteq f[j].recs
              /\ f[j].recs \subseteq buf[j].recs
              /\ f[j].there /\ buf[j].there
  <2>1. /\ disk[r.sid][j].recs \subseteq r.buf[j].recs
        /\ r.buf[j].there /\ disk[r.sid][j].there
    BY <1>1, <1>11 DEF FilesOK
  <2> QED BY <1>8, <1>12, <2>1
<1>14. ASSUME NEW e \in buf["idx"].recs \ {MagicHeader}, NEW j \in {"data", "meta"}
       PROVE  \E g \in f[j].recs : g.put = e.put
  <2>1. j \in Kinds
    BY DEF Kinds
  <2>2. CASE e \in r.buf["idx"].recs
    <3>1. PICK g \in disk[r.sid][j].recs : g.put = e.put
      BY <1>11, <1>14, <2>2 DEF FilesOK
    <3> QED BY <1>13, <2>1, <3>1
  <2>3. CASE e \notin r.buf["idx"].recs
    <3>1. k = "idx" /\ done = {"data", "meta"}
      BY <1>1, <1>7, <1>8, <2>3
    <3>2. e = [at |-> r.buf["idx"].len, put |-> n]
      BY <1>1, <1>8, <2>3, <3>1
    <3>3. [at |-> r.buf[j].len, put |-> n] \in buf[j].recs
      BY <1>8, <2>1, <3>1
    <3>4. f[j] = buf[j]
      BY <1>12, <2>1, <3>1
    <3>5. [at |-> r.buf[j].len, put |-> n].put = e.put
      BY <3>2
    <3> QED BY <3>3, <3>4, <3>5
  <2> QED BY <2>2, <2>3
<1>15. ASSUME <<r.sid, "write">> \notin hurt', <<r.sid, "overwritten">> \notin hurt'
       PROVE  InStep(q)
  <2>1. part = 0
    BY <1>4, <1>6, <1>15
  <2>2. InStep(r)
    BY <1>1, <1>4, <1>15, <2>1 DEF StackOK, Hurt
  <2>3. \A j \in Kinds : MagicHeader \in buf[j].recs
    BY <1>8, <2>2 DEF InStep
  <2>4. /\ r.off = r.buf["data"].len /\ r.moff = r.buf["meta"].len
        /\ r.off \in Nat /\ r.moff \in Nat
    BY <1>1, <2>2 DEF InStep, Writer
  <2>5. buf["data"].len = q.off
    <3>1. "data" \in done => buf["data"].len = r.off + SdkRecordSize(r.size)
      BY <1>1, <1>8, <2>4 DEF SdkEntrySize
    <3>2. "data" \notin done => buf["data"].len = r.off
      BY <1>1, <1>8, <2>1, <2>4
    <3> QED BY <1>10, <2>4, <3>1, <3>2
  <2>6. buf["meta"].len = q.moff
    <3>1. "meta" \in done => buf["meta"].len = r.moff + MetaLine
      BY <1>1, <1>8, <2>4 DEF SdkEntrySize, EntrySize
    <3>2. "meta" \notin done => buf["meta"].len = r.moff
      BY <1>1, <1>8, <2>1, <2>4
    <3> QED BY <1>10, <2>4, <3>1, <3>2
  <2> QED BY <1>10, <2>3, <2>5, <2>6 DEF InStep
<1>16. /\ hurt \subseteq hurt'
       /\ hurt' \subseteq Sids \X {"write", "shut", "retried", "overwritten"}
       /\ faults' \in 0 .. MaxFaults
  BY <1>1, <1>4, FaultTyped DEF IInv, TypesOK
<1>17. /\ q \in Writer /\ Becomes(w, q) /\ q.pc = "idle" /\ q.call = "none"
       /\ q.have = Kinds /\ q.shut = {} /\ q.client = r.client /\ q.sid = r.sid
       /\ q.raw <= MaxData /\ r.shut = {} /\ acked' = acked
       /\ book' = [book EXCEPT ![r.put] = Recorded(r, w)]
  BY <1>1, <1>4, <1>10 DEF StackOK
<1>18. /\ \A j \in Kinds : /\ disk[r.sid][j].recs \subseteq f[j].recs
                           /\ f[j].recs \subseteq q.buf[j].recs
                           /\ f[j].there /\ q.buf[j].there
       /\ \A e \in q.buf["idx"].recs \ {MagicHeader} : \A j \in {"data", "meta"} :
            \E g \in f[j].recs : g.put = e.put
       /\ f \in [Kinds -> Blob] /\ disk' = [disk EXCEPT ![r.sid] = f]
       /\ backend = "file"
  BY <1>1, <1>10, <1>12, <1>13, <1>14
<1>19. <<r.sid, "write">> \notin hurt' /\ <<r.sid, "overwritten">> \notin hurt' => InStep(q)
  BY <1>15
<1> QED BY <1>16, <1>17, <1>18, <1>19, WroteFiles

(* Whatever becomes of the writes of a put.                                *)
LEMMA WritesStep ==
  ASSUME IInv, NEW w \in Writers, NEW r, Puttings(w, r),
         r.raw + r.size <= MaxData, Writes(w, r)
  PROVE  Step(w)
<1>1. Calls(w, r) /\ backend \in {"file", "s3"}
  BY DEF Puttings, IInv, TypesOK
<1>2. Write(w, r) => Step(w)
  BY <1>1, WriteFileStep, WriteBufferStep
<1>3. WriteFails(w, r) => Step(w)
  BY WriteFailsStep
<1>4. WriteClosed(w, r) => Step(w)
  BY <1>1, ClosedStep DEF WriteClosed
<1> QED BY <1>2, <1>3, <1>4 DEF Writes
-----------------------------------------------------------------------------
(* Closing a stack.                                                        *)

Closings(w, r) ==
  /\ Calls(w, r) /\ r.pc = "idle"
  /\ Puttings(w, r) \/ (r.call = "close" /\ puts' = puts)
  /\ UNCHANGED <<book, acked>>

(* The stack is closed, for a rotation or for close.                       *)
LEMMA ShutStep ==
  ASSUME IInv, NEW w \in Writers, NEW r, Closings(w, r), Shut(w, r)
  PROVE  Step(w)
<1> DEFINE gone == backend = "file" \/ r.call = "put"
           left == [r EXCEPT !.have = {}, !.shut = {}, !.client = gone]
           q == IF r.call = "put" THEN [left EXCEPT !.pc = "resolve"] ELSE Returned(left)
<1>1. /\ w \in Living /\ r \in Writer /\ StackOK(r) /\ Calls(w, r)
      /\ r.have # {} => r.sid \in Uses(w) /\ r.sid \in Sids /\ r.client
      /\ backend' = backend /\ backend \in {"file", "s3"}
      /\ acked' \subseteq 1 .. puts' /\ acked' = acked /\ book' = book
      /\ r.shut = {}
  <2>1. Calls(w, r)
    BY DEF Closings
  <2> QED BY <2>1, Caller DEF Closings, Shut
<1>2. disk' = Stored(r, Kinds) /\ Becomes(w, q) /\ faults' = faults /\ hurt' = hurt
  BY DEF Shut
<1>a. gone \in BOOLEAN /\ (r.call = "put" => gone)
  OBVIOUS
<1> HIDE DEF gone
<1>3. /\ left \in Writer /\ left.have = {} /\ left.shut = {} /\ left.raw = r.raw
      /\ left.call = r.call /\ left.put = r.put /\ left.size = r.size
      /\ left.client = gone
  BY <1>1, <1>a DEF Writer
<1> HIDE DEF left
<1>4. /\ q \in Writer /\ q.have = {} /\ q.shut = {} /\ q.raw = r.raw
      /\ \/ q.pc = "idle" /\ q.call = "none"
         \/ /\ q.pc = "resolve" /\ q.call = "put" /\ r.call = "put" /\ q.client
            /\ q.put = r.put /\ q.size = r.size
  <2>1. CASE r.call = "put"
    BY <1>3, <1>a, <2>1 DEF Writer
  <2>2. CASE r.call # "put"
    BY <1>3, <2>2, ReturnedFields
  <2> QED BY <2>1, <2>2
<1> HIDE DEF q
<1>5. writer'[w] = q
  BY <1>2, BecomesFields DEF IInv
<1>6. /\ disk' \in [Sids -> [Kinds -> Blob]] /\ DiskStep(w)
      /\ backend = "s3" /\ r.have # {} => disk'[r.sid] = r.buf
  <2>1. Kinds \in SUBSET Kinds /\ Holder(w, r)
    BY <1>1 DEF Holder, Calls
  <2>2. CASE backend = "file"
    BY <1>1, <1>2, <2>1, <2>2, FlushedStep
  <2>3. CASE backend = "s3"
    BY <1>1, <1>2, <2>1, <2>3, UploadedStep
  <2> QED BY <1>1, <2>2, <2>3
<1>7. StackOK(writer[w])'
  <2>1. r.raw <= MaxData
    BY <1>1 DEF StackOK
  <2> QED BY <1>4, <1>5, <2>1 DEF StackOK, Kinds
<1>8. /\ hurt' \subseteq Sids \X {"write", "shut", "retried", "overwritten"}
      /\ faults' \in 0 .. MaxFaults /\ hurt \subseteq hurt'
      /\ book' \in [Puts -> Booked]
  BY <1>1, <1>2 DEF IInv, TypesOK
<1>9. r.call = "put" => Puttings(w, r)
  BY DEF Closings
<1>10. WriterStep(w)
  BY <1>1, <1>2, <1>4, <1>6, <1>7, <1>8, <1>9, CallStep
<1>11. BookStep(w)
  BY <1>1 DEF BookStep
<1>12. BufferStep(w)
  BY <1>1, <1>6 DEF BufferStep, Calls, Kinds
<1> QED BY <1>6, <1>10, <1>11, <1>12 DEF Step

(* Flushing a file or putting an object fails; those before it are closed. *)
LEMMA ShutFailsStep ==
  ASSUME IInv, NEW w \in Writers, NEW r, Closings(w, r), ShutFails(w, r)
  PROVE  Step(w)
<1>1. /\ w \in Living /\ r \in Writer /\ StackOK(r) /\ Calls(w, r)
      /\ r.have # {} => r.sid \in Uses(w) /\ r.sid \in Sids /\ r.client
      /\ backend' = backend /\ backend \in {"file", "s3"}
      /\ nextId' = nextId /\ acked' \subseteq 1 .. puts' /\ acked' = acked /\ book' = book
      /\ r.shut = {} /\ Fault
  <2>1. Calls(w, r)
    BY DEF Closings
  <2> QED BY <2>1, Caller DEF Closings, ShutFails
<1>2. PICK k \in r.have :
        LET done == Before(ShutOrder, k) \cap r.have
        IN  /\ disk' \in {Stored(r, done), Stored(r, done \cup {k})}
            /\ \E pos \in IF backend = "s3" /\ k = "data"
                             THEN {0, r.buf[k].len} ELSE {r.pos} :
                 Becomes(w, Returned([r EXCEPT !.shut = done, !.pos = pos]))
            /\ hurt' = IF done = {} THEN hurt ELSE hurt \cup {<<r.sid, "shut">>}
  BY DEF ShutFails
<1> DEFINE done == Before(ShutOrder, k) \cap r.have
<1>3. PICK pos \in IF backend = "s3" /\ k = "data" THEN {0, r.buf[k].len} ELSE {r.pos} :
        Becomes(w, Returned([r EXCEPT !.shut = done, !.pos = pos]))
  BY <1>2
<1>4. PICK ks \in {done, done \cup {k}} : disk' = Stored(r, ks)
  BY <1>2
<1>5. hurt' = IF done = {} THEN hurt ELSE hurt \cup {<<r.sid, "shut">>}
  BY <1>2
<1>6. k \in Kinds /\ r.have # {} /\ r.have \in SUBSET Kinds /\ r.pos \in Nat
      /\ r.buf[k] \in Blob
  BY <1>1 DEF Writer
<1>7. done \in SUBSET r.have /\ done \in SUBSET Kinds /\ ks \in SUBSET Kinds
  BY <1>4, <1>6
<1>8. backend = "s3" =>
        \/ k = "data" /\ done = {}
        \/ k = "meta" /\ done = {"data"}
        \/ k = "idx" /\ done = {"data", "meta"}
  <2>1. ASSUME backend = "s3" PROVE ShutOrder = WriteOrder /\ r.have = Kinds
    BY <1>1, <1>6, <2>1 DEF ShutOrder, WriteOrder, StackOK, ObjectsOK
  <2> QED BY <1>6, <2>1, BeforeWrite DEF Kinds
<1> DEFINE p == [r EXCEPT !.shut = done, !.pos = pos]
           q == Returned(p)
<1>9. Becomes(w, q)
  BY <1>3
<1> HIDE DEF done
<1>10. pos \in Nat
  BY <1>3, <1>6 DEF Blob
<1>11. /\ p \in Writer /\ p.shut = done /\ p.pos = pos /\ p.have = r.have
       /\ p.client = r.client /\ p.buf = r.buf /\ p.sid = r.sid /\ p.raw = r.raw
       /\ p.off = r.off /\ p.moff = r.moff
  BY <1>1, <1>7, <1>10 DEF Writer
<1> HIDE DEF p
<1>12. /\ q \in Writer /\ q.pc = "idle" /\ q.call = "none"
       /\ q.shut = done /\ q.pos = pos /\ q.have = r.have
       /\ q.client = r.client /\ q.buf = r.buf /\ q.sid = r.sid /\ q.raw = r.raw
       /\ q.off = r.off /\ q.moff = r.moff
  BY <1>11, ReturnedFields
<1> HIDE DEF q
<1>13. writer'[w] = q
  BY <1>9, BecomesFields DEF IInv
<1>14. /\ hurt \subseteq hurt' /\ (done # {} => <<r.sid, "shut">> \in hurt')
       /\ hurt' \subseteq Sids \X {"write", "shut", "retried", "overwritten"}
       /\ \A why : why # "shut" => (Hurt(r.sid, why)' <=> Hurt(r.sid, why))
  BY <1>1, <1>5, <1>6 DEF IInv, TypesOK, Hurt
<1>15. faults' \in 0 .. MaxFaults /\ book' \in [Puts -> Booked]
  BY <1>1, FaultTyped DEF IInv, TypesOK
<1>16. CASE backend = "file"
  <2>1. /\ disk' \in [Sids -> [Kinds -> Blob]] /\ DiskStep(w)
        /\ \A j \in r.have : disk'[r.sid][j].there
        /\ \A j \in Kinds : disk'[r.sid][j].recs \subseteq r.buf[j].recs
        /\ \A j \in Kinds : disk[r.sid][j].recs \subseteq disk'[r.sid][j].recs
    <3>1. Holder(w, r)
      BY <1>1 DEF Holder, Calls
    <3> QED BY <1>1, <1>4, <1>6, <1>7, <1>16, <3>1, FlushedStep
  <2>2. FilesOK(r)
    BY <1>1, <1>6, <1>16 DEF StackOK
  <2>3. FilesOK(writer[w])'
    <3>1. ASSUME NEW e \in r.buf["idx"].recs \ {MagicHeader}, NEW j \in {"data", "meta"}
          PROVE  \E g \in disk'[r.sid][j].recs : g.put = e.put
      <4>1. j \in Kinds
        BY DEF Kinds
      <4>2. PICK g \in disk[r.sid][j].recs : g.put = e.put
        BY <2>2, <3>1 DEF FilesOK
      <4> QED BY <2>1, <4>1, <4>2
    <3> QED BY <1>12, <1>13, <2>1, <2>2, <3>1 DEF FilesOK
  <2>4. InStep(writer[w])' = InStep(r)
    BY <1>12, <1>13 DEF InStep
  <2>5. \A why : why # "shut" => (Hurt(writer[w].sid, why)' <=> Hurt(r.sid, why))
    BY <1>12, <1>13, <1>14 DEF Hurt
  <2>6. StackOK(writer[w])'
    BY <1>1, <1>6, <1>7, <1>12, <1>13, <1>16, <2>3, <2>4, <2>5 DEF StackOK
  <2>7. WriterStep(w)
    BY <1>1, <1>6, <1>9, <1>12, <1>14, <1>15, <2>1, <2>6, CallStep
  <2>8. BookStep(w) /\ BufferStep(w)
    BY <1>1, <1>16 DEF BookStep, BufferStep
  <2> QED BY <2>1, <2>7, <2>8 DEF Step
<1>17. CASE backend = "s3"
  <2>1. "idx" \in ks => ks = Kinds
    BY <1>4, <1>8, <1>17 DEF Kinds
  <2>2. /\ disk' \in [Sids -> [Kinds -> Blob]] /\ DiskStep(w)
        /\ ks \subseteq {"data"} =>
             /\ \A j \in {"meta", "idx"} : disk'[r.sid][j] = Nothing
             /\ ~Hurt(r.sid, "overwritten")' =>
                  disk'[r.sid]["data"].recs \subseteq r.buf["data"].recs
    BY <1>1, <1>4, <1>6, <1>7, <1>14, <1>17, <2>1, UploadedStep
  <2>3. ObjectsOK(r)
    BY <1>1, <1>6, <1>17 DEF StackOK
  <2>4. done = {} => ks \subseteq {"data"}
    BY <1>4, <1>8, <1>17
  <2>5. pos <= r.buf["data"].len
    <3>1. r.pos <= r.buf["data"].len
      BY <2>3 DEF ObjectsOK
    <3> QED BY <1>3, <1>6, <3>1 DEF Blob
  <2>6. \A why : why # "shut" => (Hurt(writer[w].sid, why)' <=> Hurt(r.sid, why))
    BY <1>12, <1>13, <1>14 DEF Hurt
  <2>7. /\ Indexed(writer[w].buf)' = Indexed(r.buf)
        /\ InStep(writer[w])' = InStep(r)
        /\ \A e : EntryEnd(e)' = EntryEnd(e)
    BY <1>1, <1>12, <1>13 DEF Indexed, InStep, EntryEnd
  <2>8. ObjectsOK(writer[w])'
    BY <1>1, <1>12, <1>13, <1>14, <2>2, <2>3, <2>4, <2>5, <2>6, <2>7 DEF ObjectsOK
  <2>9. done # {} => Hurt(writer[w].sid, "shut")'
    BY <1>12, <1>13, <1>14 DEF Hurt
  <2>10. StackOK(writer[w])'
    BY <1>1, <1>6, <1>7, <1>12, <1>13, <1>17, <2>6, <2>7, <2>8, <2>9 DEF StackOK
  <2>11. WriterStep(w)
    BY <1>1, <1>6, <1>9, <1>12, <1>14, <1>15, <2>2, <2>10, CallStep
  <2>12. BookStep(w)
    BY <1>1 DEF BookStep
  <2>13. BufferStep(w)
    BY <1>1, <1>12, <1>13, <1>14 DEF BufferStep, Calls
  <2> QED BY <2>2, <2>11, <2>12, <2>13 DEF Step
<1> QED BY <1>1, <1>16, <1>17

(* Closing, however it ends.                                               *)
LEMMA ShutsStep ==
  ASSUME IInv, NEW w \in Writers, NEW r, Calls(w, r), r.pc = "idle",
         Puttings(w, r) \/ (r.call = "close" /\ puts' = puts), Shuts(w, r)
  PROVE  Step(w)
<1>1. Closings(w, r)
  BY DEF Shuts, Closings
<1>2. ShutClosed(w, r) => Step(w)
  BY ClosedStep DEF ShutClosed, Shuts
<1> QED BY <1>1, <1>2, ShutStep, ShutFailsStep DEF Shuts
-----------------------------------------------------------------------------
(* The calls.                                                              *)

(* put, up to its rotation or its end.                                     *)
LEMMA PutStep ==
  ASSUME IInv, NEW w \in Writers, NEW n \in Sizes, Put(w, n) PROVE Step(w)
<1> DEFINE o == writer[w]
           r == [o EXCEPT !.call = "put", !.size = n, !.put = puts + 1]
<1>1. /\ o \in Writer /\ o.pc = "idle" /\ n \in Nat /\ puts \in Nat /\ MaxPuts \in Nat
      /\ acked \subseteq 1 .. puts /\ o.raw \in Nat /\ MaxData \in Nat
  BY DeadOrAlive, SizesAssumption, BoundsAssumption
     DEF Put, At, IInv, TypesOK, Writer
<1>2. /\ r \in Writer /\ r.pc = "idle" /\ r.call = "put" /\ r.size = n
      /\ r.put = puts + 1 /\ r.have = o.have /\ r.shut = o.shut /\ r.client = o.client
      /\ r.buf = o.buf /\ r.pos = o.pos
      /\ r.sid = o.sid /\ r.off = o.off /\ r.moff = o.moff /\ r.raw = o.raw
  <2> DEFINE m == puts + 1
  <2>1. m \in Nat /\ r = [o EXCEPT !.call = "put", !.size = n, !.put = m]
    BY <1>1
  <2> HIDE DEF m, o, r
  <2>2. /\ r \in Writer /\ r.pc = "idle" /\ r.call = "put" /\ r.size = n
        /\ r.put = m /\ r.have = o.have /\ r.shut = o.shut /\ r.client = o.client
        /\ r.buf = o.buf /\ r.pos = o.pos
        /\ r.sid = o.sid /\ r.off = o.off /\ r.moff = o.moff /\ r.raw = o.raw
    BY <1>1, <2>1 DEF Writer
  <2> QED BY <2>2 DEF m
<1>3. /\ r.have = Kinds /\ n <= MaxData /\ puts < MaxPuts /\ puts' = puts + 1
      /\ IF NeedsRotation(r, n) THEN Shuts(w, r) ELSE Writes(w, r)
      /\ UNCHANGED <<backend, nextId>>
  BY DEF Put
<1> HIDE DEF r
<1>4. Calls(w, r)
  BY <1>1, <1>2, <1>3 DEF Calls
<1>5. Puttings(w, r)
  BY <1>1, <1>2, <1>3, <1>4 DEF Puttings
<1>6. ~NeedsRotation(r, n) => r.raw + r.size <= MaxData
  BY <1>1, <1>2 DEF NeedsRotation
<1> QED BY <1>2, <1>3, <1>4, <1>5, <1>6, WritesStep, ShutsStep

(* The rest of a put that has rotated.                                     *)
LEMMA PutGoesOnStep ==
  ASSUME IInv, NEW w \in Writers, PutGoesOn(w) PROVE Step(w)
<1> DEFINE r == writer[w]
<1>1. /\ r \in Writer /\ r.pc = "write" /\ CallOK(r) /\ puts \in 0 .. MaxPuts
      /\ r.size \in Nat /\ MaxData \in Nat
      /\ Writes(w, r) /\ UNCHANGED <<backend, puts, nextId>>
  BY DeadOrAlive, SizesAssumption DEF PutGoesOn, At, IInv, Living, TypesOK, Writer
<1>2. /\ r.call = "put" /\ r.put \in 1 .. puts /\ r.put \notin acked
      /\ r.size <= MaxData /\ r.have = Kinds /\ r.raw = 0
  BY <1>1 DEF CallOK, Writer
<1>3. Calls(w, r)
  BY <1>1 DEF Calls
<1>4. Puttings(w, r)
  BY <1>1, <1>2, <1>3 DEF Puttings
<1>5. r.raw + r.size <= MaxData
  BY <1>1, <1>2
<1> QED BY <1>1, <1>4, <1>5, WritesStep

(* close.                                                                  *)
LEMMA CloseStep ==
  ASSUME IInv, NEW w \in Writers, Close(w) PROVE Step(w)
<1> DEFINE o == writer[w]
           r == [o EXCEPT !.call = "close"]
<1>1. /\ o \in Writer /\ o.pc = "idle" /\ puts \in 0 .. MaxPuts
      /\ Shuts(w, r) /\ UNCHANGED <<backend, puts, nextId>>
  BY DeadOrAlive DEF Close, At, IInv, TypesOK
<1>2. /\ r \in Writer /\ r.pc = "idle" /\ r.call = "close"
      /\ r.have = o.have /\ r.shut = o.shut /\ r.client = o.client
      /\ r.buf = o.buf /\ r.pos = o.pos
      /\ r.sid = o.sid /\ r.off = o.off /\ r.moff = o.moff /\ r.raw = o.raw
  BY <1>1 DEF Writer
<1> HIDE DEF r
<1>3. Calls(w, r)
  BY <1>1, <1>2 DEF Calls
<1> QED BY <1>1, <1>2, <1>3, ShutsStep

(* Every step is one of some writer.                                       *)
LEMMA NextStep ==
  ASSUME IInv, Next PROVE \E w \in Writers : Step(w)
<1>1. PICK w \in Writers :
        \/ Resolve(w) \/ ResolveFails(w)
        \/ Create(w) \/ CreateFails(w)
        \/ \E n \in Sizes : Put(w, n)
        \/ PutGoesOn(w)
        \/ Close(w)
        \/ Die(w)
  BY DEF Next
<1>2. Step(w)
  BY <1>1, ResolveStep, ResolveFailsStep, CreateStep, CreateFailsStep,
     PutStep, PutGoesOnStep, CloseStep, DieStep
<1> QED BY <1>2

(* Nothing has been opened, written or acknowledged at first.              *)
LEMMA InitIInv == Init => IInv
<1> SUFFICES ASSUME Init PROVE IInv
  OBVIOUS
<1>1. /\ Fresh \in Writer /\ Fresh.pc = "new" /\ Fresh.call = "none" /\ Fresh.have = {}
      /\ Fresh.shut = {} /\ Fresh.raw = 0 /\ Fresh.client
  BY HeadedTyped DEF Fresh, Writer
<1>2. /\ backend \in {"file", "s3"}
      /\ disk = [s \in Sids |-> [k \in Kinds |-> Nothing]]
      /\ writer = [w \in Writers |-> Fresh]
      /\ puts = 0 /\ acked = {} /\ hurt = {} /\ nextId = 1 /\ faults = 0
  BY DEF Init, InitWith
<1>3. book \in [Puts -> Booked]
  BY DEF Init, InitWith, Booked
<1>4. TypesOK(Writer)
  BY <1>1, <1>2, <1>3, HeadedTyped, BoundsAssumption DEF TypesOK
<1>5. \A w \in Writers : writer[w] = Fresh
  BY <1>2
<1>6. \A w \in Living : CallOK(writer[w]) /\ StackOK(writer[w])
  BY <1>1, <1>5, SizesAssumption DEF Living, CallOK, StackOK, Kinds
<1>7. Apart
  BY <1>1, <1>5 DEF Apart, Living, Uses, At
<1>8. DiskOK /\ BookOK
  BY <1>2 DEF DiskOK, BookOK
<1>9. IndexAfterData /\ AckedKept
  <2>1. \A s \in Sids : disk[s]["idx"].recs = {}
    BY <1>2, HeadedTyped DEF Kinds
  <2> QED BY <1>2, <2>1 DEF IndexAfterData, IndexedDataThere, AckedKept
<1> QED BY <1>4, <1>6, <1>7, <1>8, <1>9 DEF IInv

(* A stuttering step keeps the invariant.                                  *)
LEMMA StutterIInv ==
  ASSUME IInv, UNCHANGED vars PROVE IInv'
<1>1. UNCHANGED <<backend, disk, writer, book, puts, acked, hurt, nextId, faults>>
  BY DEF vars
<1>2. TypesOK(Writer)'
  BY <1>1 DEF IInv, TypesOK
<1>3. (\A w \in Living : CallOK(writer[w]) /\ StackOK(writer[w]))'
  <2>1. Living' = Living
    BY <1>1 DEF Living, At
  <2>2. SUFFICES ASSUME NEW w \in Living PROVE CallOK(writer[w])' /\ StackOK(writer[w])'
    BY <2>1
  <2>3. CallOK(writer[w]) /\ StackOK(writer[w])
    BY DEF IInv
  <2>4. CallOK(writer[w])'
    BY <1>1, <2>3 DEF CallOK
  <2>5. StackOK(writer[w])'
    <3> DEFINE r == writer[w]
    <3>1. FilesOK(r) => FilesOK(r)'
      BY <1>1 DEF FilesOK, EntryEnd
    <3>2. ObjectsOK(r) => ObjectsOK(r)'
      BY <1>1 DEF ObjectsOK, EntryEnd, Hurt, Indexed
    <3>3. InStep(r) => InStep(r)'
      BY <1>1 DEF InStep, Indexed
    <3>4. UNCHANGED <<r, backend, hurt>>
      BY <1>1
    <3> QED BY <2>3, <3>1, <3>2, <3>3, <3>4 DEF StackOK, Hurt
  <2> QED BY <2>4, <2>5
<1>4. Apart' /\ DiskOK' /\ BookOK'
  BY <1>1 DEF IInv, Apart, Uses, Living, At, DiskOK, BookOK
<1>5. IndexAfterData'
  BY <1>1 DEF IInv, IndexAfterData, IndexedDataThere, Hurt
<1>6. AckedKept'
  <2>1. AckedKept
    BY DEF IInv
  <2>2. \A n \in acked : (Published(n) => Published(n)') /\ (Buffered(n) => Buffered(n)')
    BY <1>1 DEF Published, Buffered, Holds
  <2> QED BY <1>1, <2>1, <2>2 DEF AckedKept, At, Hurt
<1> QED BY <1>2, <1>3, <1>4, <1>5, <1>6 DEF IInv

-----------------------------------------------------------------------------
(* The invariant holds in every behaviour.                                 *)
THEOREM SpecIInv == Spec => []IInv
<1>1. Init => IInv
  BY InitIInv
<1>2. IInv /\ [Next]_vars => IInv'
  BY NextStep, StepKeeps, StutterIInv
<1> QED BY <1>1, <1>2, PTL DEF Spec

(* The state has its type in every behaviour: a closed file among a        *)
(* writer's files is the result of a failed rotation or close, an S3Writer *)
(* has all its buffers or none, and no stack gets more than                *)
(* max_data_bytes of payload.                                              *)
THEOREM SpecTypeOK == Spec => []TypeOK
<1>1. IInv => TypeOK
  <2> SUFFICES ASSUME IInv PROVE TypeOK
    OBVIOUS
  <2>1. \A w \in {v \in Writers : ~At(v, "dead")} : StackOK(writer[w])
    BY DEF IInv, Living
  <2>2. backend \in {"file", "s3"} /\ TypesOK(Writer)
    BY DEF IInv, TypesOK
  <2> QED BY <2>1, <2>2 DEF TypeOK, StackOK, ObjectsOK
<1> QED BY <1>1, SpecIInv, PTL

(* An index never lists a record without payload or meta line, whichever   *)
(* buffers failures leave behind, but for the stacks whose data buffer was *)
(* overwritten after a failed put_object.                                  *)
THEOREM SpecIndexAfterData == Spec => []IndexAfterData
<1>1. IInv => IndexAfterData
  BY DEF IInv
<1> QED BY <1>1, SpecIInv, PTL

(* What a put acknowledged is at its offsets, or in buffers that close     *)
(* still publishes, but for a process that dies and for stacks a write or  *)
(* a put_object failed on.                                                 *)
THEOREM SpecAckedKept == Spec => []AckedKept
<1>1. IInv => AckedKept
  BY DEF IInv
<1> QED BY <1>1, SpecIInv, PTL

(* No record leaves the directory or bucket, nor does one move, but for    *)
(* those of a stack whose data buffer was overwritten.                     *)
THEOREM SpecNothingRemoved ==
  Spec => [][\A s \in Sids, k \in Kinds :
               ~Hurt(s, "overwritten")' => disk[s][k].recs \subseteq disk'[s][k].recs]_vars
<1> DEFINE Grows == \A s \in Sids, k \in Kinds :
               ~Hurt(s, "overwritten")' => disk[s][k].recs \subseteq disk'[s][k].recs
<1>1. IInv /\ [Next]_vars => [Grows]_vars
  <2> SUFFICES ASSUME IInv, Next PROVE Grows
    OBVIOUS
  <2>1. PICK w \in Writers : Step(w)
    BY NextStep
  <2> QED BY <2>1 DEF Step, DiskStep
<1> QED BY <1>1, SpecIInv, PTL DEF Spec
=============================================================================
