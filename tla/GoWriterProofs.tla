--------------------------- MODULE GoWriterProofs ---------------------------
(***************************************************************************)
(* The safety properties of GoWriter, for any writers, payloads, stacks    *)
(* and failures, over both backends.                                       *)
(***************************************************************************)
EXTENDS GoWriter, SdkStackProofs

(* The offsets of r are where its files end, behind their magic headers.   *)
InStep(r) ==
  /\ r.off = r.buf["data"].len /\ r.moff = r.buf["meta"].len
  /\ \A k \in Kinds : MagicHeader \in r.buf[k].recs

(* How far the call of r is. *)
CallOK(r) ==
  /\ r.call # "close" /\ (r.call = "none" <=> r.pc \in {"new", "idle"})
  /\ r.call = "open" => r.pc = "create"
  /\ r.pc \in {"new", "resolve", "create"} => ~r.held
  /\ r.pc = "create" =>
       /\ r.new \in Sids
       /\ backend = "s3" =>
            r.new < nextId /\ \A k \in Kinds : disk[r.new][k] = Nothing
  /\ r.pc = "write" => r.held /\ r.shut = {} /\ r.raw = 0
  /\ r.call = "put" =>
       /\ r.put \in 1 .. puts /\ r.put \notin acked
       /\ r.size <= MaxData /\ ~r.closed

(* What r knows of its stack, and what of it is on disk: with files what   *)
(* it has written, with S3 the objects of the kinds it has closed.         *)
StackOK(r) ==
  /\ r.raw <= MaxData
  /\ r.shut # {} => r.held /\ Hurt(r.sid, "shut")
  /\ r.held =>
       /\ r.sid \in Sids
       /\ Indexed(r.buf)
       /\ ~Hurt(r.sid, "write") => InStep(r)
       /\ backend = "file" => disk[r.sid] = r.buf /\ r.buf["data"].there
       /\ backend = "s3" =>
            /\ r.sid < nextId
            /\ \A k \in Kinds \ r.shut : disk[r.sid][k] = Nothing

(* The stacks of w: the open one, and one a Controller has given it.       *)
Uses(w) ==
  {s \in Sids :
     \/ writer[w].held /\ writer[w].sid = s
     \/ backend = "s3" /\ At(w, "create") /\ writer[w].new = s}

Living == {w \in Writers : ~At(w, "dead")}

(* Living writers have stacks and put numbers of their own. *)
Apart ==
  \A v, w \in Living : v # w =>
    /\ Uses(v) \cap Uses(w) = {}
    /\ writer[v].call = "put" /\ writer[w].call = "put"
         => writer[v].put # writer[w].put

(* `.data` is created first, and ids not yet given out name nothing.       *)
DiskOK ==
  /\ backend = "file" =>
       \A s \in Sids, k \in Kinds : ~disk[s]["data"].there => disk[s][k] = Nothing
  /\ backend = "s3" =>
       \A s \in Sids, k \in Kinds : s >= nextId => disk[s][k] = Nothing

BookOK == \A n \in acked : book[n].sid \in Sids /\ book[n].by \in Writers

IInv ==
  /\ TypesOK(Writer)
  /\ \A w \in Living : CallOK(writer[w]) /\ StackOK(writer[w])
  /\ Apart /\ DiskOK /\ BookOK
  /\ IndexAfterData /\ AckedKept

-----------------------------------------------------------------------------
(* A writer that has returned from a call.                                 *)
LEMMA ReturnedFields ==
  ASSUME NEW r \in Writer
  PROVE  /\ Returned(r) \in Writer
         /\ Returned(r).pc = "idle" /\ Returned(r).call = "none"
         /\ Returned(r).held = r.held /\ Returned(r).closed = r.closed
         /\ Returned(r).shut = r.shut /\ Returned(r).buf = r.buf
         /\ Returned(r).sid = r.sid /\ Returned(r).off = r.off
         /\ Returned(r).moff = r.moff /\ Returned(r).raw = r.raw
BY DEF Returned, Writer

(* Only the dead are dead.                                                 *)
LEMMA DeadOrAlive ==
  /\ Dead.pc = "dead" /\ \A r \in Writer : r.pc # "dead"
  /\ TypesOK(Writer) =>
       \A w \in Writers : ~At(w, "dead") => writer[w] \in Writer
BY DEF Dead, Writer, TypesOK, At
-----------------------------------------------------------------------------
(* What a step of w may do to the writers, the disk and the puts.          *)

WriterStep(w) ==
  LET r == writer[w]
      q == writer'[w]
  IN  /\ TypesOK(Writer)'
      /\ \A v \in Writers : v # w => writer'[v] = writer[v]
      /\ r.pc # "dead"
      /\ backend' = backend /\ hurt \subseteq hurt'
      /\ puts' \in {puts, puts + 1} /\ nextId <= nextId'
      /\ q.pc # "dead" =>
           /\ (CallOK(writer[w]) /\ StackOK(writer[w]))'
           /\ q.call = "put" => \/ r.call = "put" /\ q.put = r.put
                                \/ q.put = puts + 1 /\ puts' = puts + 1
           /\ \A s \in Uses(w)' :
                \/ s \in Uses(w)
                \/ backend = "s3" /\ s >= nextId
                \/ backend = "file" /\ ~disk[s]["data"].there

(* Files and objects only grow, and only in the stacks of w. *)
DiskStep(w) ==
  \A s \in Sids : disk'[s] # disk[s] =>
    /\ s \in Uses(w) \/ (backend = "file" /\ ~disk[s]["data"].there)
    /\ \A k \in Kinds : disk[s][k].recs \subseteq disk'[s][k].recs
    /\ backend = "file" => disk'[s]["data"].there
    /\ ~Hurt(s, "retried")' => Indexed(disk'[s])

(* A put is acknowledged by the writer that has it in its buffers. *)
BookStep(w) ==
  LET r == writer[w]
      q == writer'[w]
  IN  /\ \A n \in acked : n \in acked' /\ book'[n] = book[n]
      /\ \A n \in acked' : n \notin acked =>
           /\ q.pc = "idle" /\ q.held /\ q.shut = {} /\ ~q.closed
           /\ book'[n].sid = q.sid /\ book'[n].by = w
           /\ <<q.sid, "write">> \notin hurt' => HoldsAs(q.buf, book'[n], n)
           /\ \/ r.call = "put" /\ n = r.put
              \/ n = puts + 1

(* What becomes of buffers nobody has tried to close yet. *)
BufferStep(w) ==
  LET r == writer[w]
      q == writer'[w]
  IN  backend = "s3" /\ r.held /\ r.shut = {} /\ ~r.closed =>
        \/ q.pc = "dead"
        \/ <<r.sid, "shut">> \in hurt'
        \/ disk'[r.sid] = r.buf
        \/ /\ q.held /\ q.shut = {} /\ ~q.closed /\ q.sid = r.sid
           /\ \A k \in Kinds : r.buf[k].recs \subseteq q.buf[k].recs

Step(w) == WriterStep(w) /\ DiskStep(w) /\ BookStep(w) /\ BufferStep(w)

(* The stacks a living writer uses exist, or are promised to it.           *)
LEMMA UsedStacks ==
  ASSUME IInv, NEW w \in Living, NEW s \in Uses(w)
  PROVE  /\ s \in Sids
         /\ backend = "s3" => s < nextId
         /\ backend = "file" => disk[s]["data"].there
BY DEF IInv, Uses, CallOK, StackOK, At

(* A step of w does not touch what the others use.                         *)
LEMMA OthersStacks ==
  ASSUME IInv, NEW w \in Writers, Step(w), NEW v \in Living, v # w,
         NEW s \in Uses(v)
  PROVE  disk'[s] = disk[s]
<1>1. w \in Living /\ s \in Sids /\ s \notin Uses(w)
  BY UsedStacks DEF Step, WriterStep, Living, At, IInv, Apart
<1>2. backend = "file" => disk[s]["data"].there
  BY UsedStacks
<1> QED BY <1>1, <1>2 DEF Step, DiskStep

(* The numbers of puts in progress are not those being acknowledged.       *)
LEMMA OthersNumbers ==
  ASSUME IInv, NEW w \in Writers, Step(w), NEW v \in Living, v # w,
         writer[v].call = "put"
  PROVE  writer[v].put \in 1 .. puts' /\ writer[v].put \notin acked'
<1>1. w \in Living
  BY DEF Step, WriterStep, Living, At
<1>2. writer[v].put \in 1 .. puts /\ writer[v].put \notin acked /\ puts \in Nat
  BY DEF IInv, CallOK, TypesOK, Living
<1>3. writer[w].call = "put" => writer[w].put # writer[v].put
  BY <1>1 DEF IInv, Apart
<1>4. writer[v].put # puts + 1 /\ writer[v].put \in 1 .. puts'
  BY <1>2 DEF Step, WriterStep
<1> QED BY <1>2, <1>3, <1>4 DEF Step, BookStep

(* What every writer knows of itself stays true.                           *)
LEMMA NextWriters ==
  ASSUME IInv, NEW w \in Writers, Step(w)
  PROVE  (\A v \in Living : CallOK(writer[v]) /\ StackOK(writer[v]))'
<1> SUFFICES ASSUME NEW v \in Living' PROVE (CallOK(writer[v]) /\ StackOK(writer[v]))'
  OBVIOUS
<1>1. CASE v = w
  BY <1>1 DEF Step, WriterStep, Living, At
<1>2. CASE v # w
  <2>1. v \in Living /\ writer'[v] = writer[v] /\ v \in Writers
    BY <1>2 DEF Step, WriterStep, Living, At
  <2>2. /\ backend' = backend /\ hurt \subseteq hurt'
        /\ nextId <= nextId' /\ nextId \in Nat /\ nextId' \in Nat
    BY DEF Step, WriterStep, IInv, TypesOK
  <2>3. writer[v] \in Writer
    BY <2>1, DeadOrAlive DEF Living, IInv
  <2> DEFINE r == writer[v]
  <2>4. CallOK(r) /\ StackOK(r)
    BY <2>1 DEF IInv
  <2>5. \A s \in Sids : s \in Uses(v) => disk'[s] = disk[s]
    BY <1>2, <2>1, OthersStacks
  <2>6. r.held => r.sid \in Sids /\ disk'[r.sid] = disk[r.sid]
    BY <2>4, <2>5 DEF StackOK, Uses
  <2>7. r.pc = "create" /\ backend = "s3" => disk'[r.new] = disk[r.new]
    BY <2>4, <2>5 DEF CallOK, Uses, At
  <2>8. r.call = "put" => r.put \in 1 .. puts' /\ r.put \notin acked'
    BY <1>2, <2>1, OthersNumbers
  <2>9. r.new \in Nat /\ r.sid \in Nat
    BY <2>3 DEF Writer
  <2> HIDE DEF r
  <2>10. CallOK(r)'
    BY <2>1, <2>2, <2>4, <2>7, <2>8, <2>9 DEF CallOK, r
  <2>11. StackOK(r)'
    <3>1. \A why : Hurt(r.sid, why) => Hurt(r.sid, why)'
      BY <2>2, <2>1 DEF Hurt, r
    <3>2. Indexed(r.buf)' = Indexed(r.buf) /\ InStep(r)' = InStep(r)
      BY <2>1 DEF Indexed, InStep, r
    <3> QED BY <2>1, <2>2, <2>4, <2>6, <2>9, <3>1, <3>2 DEF StackOK, r
  <2> QED BY <2>10, <2>11 DEF r
<1> QED BY <1>1, <1>2

(* Living writers still share nothing.                                     *)
LEMMA NextApart ==
  ASSUME IInv, NEW w \in Writers, Step(w)
  PROVE  Apart'
<1>1. ASSUME NEW v \in Living', v # w
      PROVE  /\ v \in Living /\ writer'[v] = writer[v] /\ Uses(v)' = Uses(v)
             /\ writer[v].call = "put" => writer[v].put \in 1 .. puts
  <2>1. v \in Living /\ writer'[v] = writer[v] /\ backend' = backend
    BY <1>1 DEF Step, WriterStep, Living, At
  <2> QED BY <2>1 DEF Uses, At, IInv, CallOK
<1>2. ASSUME NEW v \in Living', v # w, w \in Living'
      PROVE  /\ Uses(v)' \cap Uses(w)' = {}
             /\ writer'[v].call = "put" /\ writer'[w].call = "put"
                  => writer'[v].put # writer'[w].put
  <2>1. w \in Living /\ writer'[w].pc # "dead"
    BY <1>2 DEF Step, WriterStep, Living, At
  <2>2. ASSUME NEW s \in Uses(v), s \in Uses(w)' PROVE FALSE
    <3>1. CASE s \in Uses(w)
      BY <1>1, <1>2, <2>1, <2>2, <3>1 DEF IInv, Apart
    <3>2. CASE s \notin Uses(w)
      <4>1. /\ backend = "s3" => s < nextId
            /\ backend = "file" => disk[s]["data"].there
        BY <1>1, <1>2, UsedStacks
      <4>2. nextId \in Nat /\ s \in Nat
        BY <1>1, <1>2, <2>2, UsedStacks DEF IInv, TypesOK, Sids
      <4>3. s \in Uses(w) \/ (backend = "s3" /\ s >= nextId)
            \/ (backend = "file" /\ ~disk[s]["data"].there)
        BY <2>1, <2>2 DEF Step, WriterStep
      <4> QED BY <3>2, <4>1, <4>2, <4>3
    <3> QED BY <3>1, <3>2
  <2>3. writer[w].call = "put" /\ writer[v].call = "put" => writer[w].put # writer[v].put
    BY <1>1, <1>2, <2>1 DEF IInv, Apart
  <2>4. writer'[w].call = "put" /\ writer[v].call = "put" => writer'[w].put # writer[v].put
    <3>1. puts \in Nat
      BY DEF IInv, TypesOK
    <3>2. writer'[w].call = "put" =>
            \/ writer[w].call = "put" /\ writer'[w].put = writer[w].put
            \/ writer'[w].put = puts + 1
      BY <2>1 DEF Step, WriterStep
    <3> QED BY <1>1, <1>2, <2>3, <3>1, <3>2
  <2> QED BY <1>1, <1>2, <2>2, <2>4
<1>3. ASSUME NEW u \in Living', NEW v \in Living', u # v
      PROVE  /\ Uses(u)' \cap Uses(v)' = {}
             /\ writer'[u].call = "put" /\ writer'[v].call = "put"
                  => writer'[u].put # writer'[v].put
  <2>1. CASE u = w
    BY <1>2, <1>3, <2>1
  <2>2. CASE v = w
    BY <1>2, <1>3, <2>2
  <2>3. CASE u # w /\ v # w
    BY <1>1, <1>3, <2>3 DEF IInv, Apart
  <2> QED BY <2>1, <2>2, <2>3
<1> QED BY <1>3 DEF Apart

(* The disk's own invariants.                                              *)
LEMMA NextDisk ==
  ASSUME IInv, NEW w \in Writers, Step(w)
  PROVE  DiskOK' /\ BookOK' /\ IndexAfterData'
<1>1. /\ backend' = backend /\ nextId \in Nat /\ nextId' \in Nat /\ nextId <= nextId'
      /\ hurt \subseteq hurt' /\ w \in Living
  BY DEF Step, WriterStep, IInv, TypesOK, Living, At
<1>2. DiskOK'
  <2>1. ASSUME backend = "file", NEW s \in Sids, NEW k \in Kinds,
               ~disk'[s]["data"].there
        PROVE  disk'[s][k] = Nothing
    BY <2>1 DEF Step, DiskStep, IInv, DiskOK
  <2>2. ASSUME backend = "s3", NEW s \in Sids, NEW k \in Kinds, s >= nextId'
        PROVE  disk'[s][k] = Nothing
    <3>1. s \in Nat /\ s >= nextId /\ s \notin Uses(w)
      BY <1>1, <2>2, UsedStacks DEF Sids
    <3>2. disk'[s] = disk[s]
      BY <2>2, <3>1 DEF Step, DiskStep
    <3> QED BY <2>2, <3>1, <3>2 DEF IInv, DiskOK
  <2> QED BY <1>1, <2>1, <2>2 DEF DiskOK
<1>3. BookOK'
  <2> SUFFICES ASSUME NEW n \in acked'
               PROVE  book'[n].sid \in Sids /\ book'[n].by \in Writers
    BY DEF BookOK
  <2>1. CASE n \in acked
    BY <2>1 DEF Step, BookStep, IInv, BookOK
  <2>2. CASE n \notin acked
    <3>1. /\ writer'[w].pc = "idle" /\ writer'[w].held
          /\ book'[n].sid = writer'[w].sid /\ book'[n].by = w
      BY <2>2 DEF Step, BookStep
    <3>2. StackOK(writer[w])'
      BY <3>1 DEF Step, WriterStep
    <3> QED BY <3>1, <3>2 DEF StackOK
  <2> QED BY <2>1, <2>2
<1>4. IndexAfterData'
  <2> SUFFICES ASSUME NEW s \in Sids, ~Hurt(s, "retried")' PROVE Indexed(disk'[s])
    BY DEF IndexAfterData, IndexedDataThere, Indexed
  <2>1. CASE disk'[s] # disk[s]
    BY <2>1 DEF Step, DiskStep
  <2>2. CASE disk'[s] = disk[s]
    <3>1. ~Hurt(s, "retried")
      BY <1>1 DEF Hurt
    <3> QED BY <2>2, <3>1 DEF IInv, IndexAfterData, IndexedDataThere, Indexed
  <2> QED BY <2>1, <2>2
<1> QED BY <1>2, <1>3, <1>4

(* Published and Buffered, now and after a step.                           *)
LEMMA HoldsForms ==
  ASSUME NEW n
  PROVE  /\ Published(n) <=> HoldsAs(disk[book[n].sid], book[n], n)
         /\ Published(n)' <=> HoldsAs(disk'[book'[n].sid], book'[n], n)
         /\ Buffered(n) <=>
              LET r == writer[book[n].by]
              IN  /\ ~r.closed /\ r.held /\ r.shut = {} /\ r.sid = book[n].sid
                  /\ HoldsAs(r.buf, book[n], n)
         /\ Buffered(n)' <=>
              LET q == writer'[book'[n].by]
              IN  /\ ~q.closed /\ q.held /\ q.shut = {} /\ q.sid = book'[n].sid
                  /\ HoldsAs(q.buf, book'[n], n)
BY DEF Published, Buffered, Holds, HoldsAs

(* Published puts stay published.                                          *)
LEMMA PublishedStays ==
  ASSUME IInv, NEW w \in Writers, Step(w), NEW n \in acked, Published(n)
  PROVE  Published(n)'
<1>1. book'[n] = book[n] /\ book[n].sid \in Sids
  BY DEF Step, BookStep, IInv, BookOK
<1>2. \A k \in Kinds : disk[book[n].sid][k].recs \subseteq disk'[book[n].sid][k].recs
  BY <1>1 DEF Step, DiskStep
<1> QED BY <1>1, <1>2, HoldsMore, HoldsForms

(* Puts acknowledged before keep their records.                            *)
LEMMA NextKept ==
  ASSUME IInv, NEW w \in Writers, Step(w), NEW n \in acked,
         <<book[n].sid, "write">> \notin hurt',
         backend = "s3" => <<book[n].sid, "shut">> \notin hurt',
         ~Published(n)'
  PROVE  backend = "s3" /\ (At(book[n].by, "dead")' \/ Buffered(n)')
<1>1. /\ book'[n] = book[n] /\ book[n].sid \in Sids /\ book[n].by \in Writers
      /\ hurt \subseteq hurt'
  BY DEF Step, BookStep, WriterStep, IInv, BookOK
<1>2. ~Published(n)
  BY PublishedStays
<1>3. backend = "s3" /\ (At(book[n].by, "dead") \/ Buffered(n))
  BY <1>1, <1>2 DEF IInv, AckedKept, Hurt
<1>4. CASE book[n].by # w
  <2>1. writer'[book[n].by] = writer[book[n].by]
    BY <1>1, <1>4 DEF Step, WriterStep
  <2>2. Buffered(n) => Buffered(n)'
    BY <1>1, <2>1, HoldsForms
  <2> QED BY <1>1, <1>3, <2>1, <2>2 DEF At
<1>5. CASE book[n].by = w
  <2>1. Buffered(n)
    BY <1>3, <1>5 DEF Step, WriterStep, At
  <2>2. /\ ~writer[w].closed /\ writer[w].held /\ writer[w].shut = {}
        /\ writer[w].sid = book[n].sid /\ HoldsAs(writer[w].buf, book[n], n)
    BY <1>5, <2>1, HoldsForms
  <2>3. CASE writer'[w].pc = "dead"
    BY <1>1, <1>3, <1>5, <2>3 DEF At
  <2>4. CASE disk'[book[n].sid] = writer[w].buf
    BY <1>1, <2>2, <2>4, HoldsForms
  <2>5. CASE /\ writer'[w].held /\ writer'[w].shut = {} /\ ~writer'[w].closed
             /\ writer'[w].sid = writer[w].sid
             /\ \A k \in Kinds : writer[w].buf[k].recs \subseteq writer'[w].buf[k].recs
    <3>1. HoldsAs(writer'[w].buf, book[n], n)
      BY <2>2, <2>5, HoldsMore
    <3>2. Buffered(n)'
      BY <1>1, <1>5, <2>2, <2>5, <3>1, HoldsForms
    <3> QED BY <1>3, <3>2
  <2> QED BY <1>3, <2>2, <2>3, <2>4, <2>5 DEF Step, BufferStep
<1> QED BY <1>4, <1>5

(* A put that has just been acknowledged is in buffers that will be        *)
(* closed, and with files on disk.                                         *)
LEMMA NewlyKept ==
  ASSUME IInv, NEW w \in Writers, Step(w), NEW n \in acked', n \notin acked,
         <<book'[n].sid, "write">> \notin hurt'
  PROVE  Published(n)' \/ (backend = "s3" /\ Buffered(n)')
<1> DEFINE q == writer'[w]
<1>1. /\ q.pc = "idle" /\ q.held /\ q.shut = {} /\ ~q.closed
      /\ book'[n].sid = q.sid /\ book'[n].by = w
      /\ HoldsAs(q.buf, book'[n], n)
  BY DEF Step, BookStep
<1>2. StackOK(writer[w])' /\ backend' = backend /\ backend \in {"file", "s3"}
  BY <1>1 DEF Step, WriterStep, IInv, TypesOK
<1>3. CASE backend = "file"
  <2>1. disk'[q.sid] = q.buf
    BY <1>1, <1>2, <1>3 DEF StackOK
  <2> QED BY <1>1, <2>1, HoldsForms
<1>4. CASE backend = "s3"
  BY <1>1, <1>4, HoldsForms
<1> QED BY <1>2, <1>3, <1>4

(* What has been acknowledged is still kept after a step.                  *)
LEMMA NextAcked ==
  ASSUME IInv, NEW w \in Writers, Step(w)
  PROVE  AckedKept'
<1>1. backend' = backend
  BY DEF Step, WriterStep
<1>2. ASSUME NEW n \in acked', <<book'[n].sid, "write">> \notin hurt',
             backend = "s3" => <<book'[n].sid, "shut">> \notin hurt',
             ~Published(n)'
      PROVE  backend = "s3" /\ (At(book[n].by, "dead")' \/ Buffered(n)')
  <2>1. CASE n \in acked
    <3>1. book'[n] = book[n]
      BY <2>1 DEF Step, BookStep
    <3> QED BY <1>2, <2>1, <3>1, NextKept DEF At
  <2>2. CASE n \notin acked
    BY <1>2, <2>2, NewlyKept
  <2> QED BY <2>1, <2>2
<1> QED BY <1>1, <1>2 DEF AckedKept, Hurt

(* What a step of a writer may do keeps the invariant.                     *)
LEMMA StepKeeps ==
  ASSUME IInv, NEW w \in Writers, Step(w)
  PROVE  IInv'
<1>1. TypesOK(Writer)'
  BY DEF Step, WriterStep
<1> QED BY <1>1, NextWriters, NextApart, NextDisk, NextAcked DEF IInv
-----------------------------------------------------------------------------
(* Every action is such a step: opening.                                   *)

(* What a write leaves on disk.                                            *)
LEMMA ArrivedDisk ==
  ASSUME TypesOK(Writer), NEW s \in Sids, NEW buf \in [Kinds -> Blob]
  PROVE  /\ Arrived(s, buf) \in [Sids -> [Kinds -> Blob]]
         /\ \A t \in Sids : t # s => Arrived(s, buf)[t] = disk[t]
         /\ backend = "file" => Arrived(s, buf)[s] = buf
         /\ backend = "s3" => Arrived(s, buf) = disk
BY DEF TypesOK, Arrived

(* Nothing of a stack that does not exist is on disk.                      *)
LEMMA NotThere ==
  ASSUME IInv, NEW s \in Sids, NEW k \in Kinds,
         backend = "file", ~disk[s]["data"].there
  PROVE  disk[s][k].recs = {}
BY HeadedTyped DEF IInv, DiskOK

Quiet == UNCHANGED <<backend, disk, book, acked>>

(* A step that leaves disk and acknowledgements alone.                     *)
LEMMA QuietStep ==
  ASSUME IInv, NEW w \in Writers, Quiet, WriterStep(w),
         \/ writer'[w].pc = "dead"
         \/ ~writer[w].held
         \/ /\ writer'[w].held /\ writer'[w].sid = writer[w].sid
            /\ writer'[w].buf = writer[w].buf
            /\ \/ writer'[w].shut = writer[w].shut
               \/ backend = "s3" => <<writer[w].sid, "shut">> \in hurt'
            /\ \/ writer'[w].closed = writer[w].closed
               \/ backend = "s3" => <<writer[w].sid, "shut">> \in hurt'
  PROVE  Step(w)
<1>1. DiskStep(w)
  BY DEF Quiet, DiskStep
<1>2. BookStep(w)
  BY DEF Quiet, BookStep
<1>3. BufferStep(w)
  BY DEF BufferStep
<1> QED BY <1>1, <1>2, <1>3 DEF Step

(* Asking for a stack id.                                                  *)
LEMMA ResolveStep ==
  ASSUME IInv, NEW w \in Writers, Resolve(w) PROVE Step(w)
<1> DEFINE r == writer[w]
           a == Asking(w)
<1>1. PICK s \in Sids : /\ IdFor(s)
                        /\ Becomes(w, [a EXCEPT !.pc = "create", !.new = s])
  BY DEF Resolve
<1> DEFINE q == [a EXCEPT !.pc = "create", !.new = s]
<1>2. /\ r.pc \in {"new", "resolve"} /\ r \in Writer /\ w \in Living
      /\ CallOK(r) /\ StackOK(r)
      /\ UNCHANGED <<backend, disk, book, puts, acked, hurt, faults>>
  BY DeadOrAlive DEF Resolve, At, IInv, Living
<1>3. /\ a \in Writer /\ a.call = IF r.pc = "new" THEN "open" ELSE r.call
      /\ a.held = r.held /\ a.shut = r.shut /\ a.raw = r.raw /\ a.size = r.size
      /\ a.put = r.put /\ a.closed = r.closed /\ a.sid = r.sid
  BY <1>2 DEF Asking, At, Writer
<1> HIDE DEF a
<1>4. s \in Nat
  BY DEF Sids
<1>5. /\ q \in Writer /\ q.pc = "create" /\ q.new = s /\ q.call = a.call
      /\ q.held = r.held /\ q.shut = r.shut /\ q.raw = r.raw /\ q.size = r.size
      /\ q.put = r.put /\ q.closed = r.closed
  BY <1>3, <1>4 DEF Writer
<1>6. Becomes(w, q)
  BY <1>1
<1> HIDE DEF q
<1>7. /\ writer'[w] = q /\ \A v \in Writers : v # w => writer'[v] = writer[v]
      /\ writer' \in [Writers -> Writer \cup {Dead}]
  BY <1>5, <1>6, BecomesFields DEF IInv
<1>8. /\ nextId \in Nat /\ nextId' \in Nat /\ nextId <= nextId'
      /\ backend = "s3" => s >= nextId /\ s < nextId'
  BY <1>1, <1>4 DEF IdFor, IInv, TypesOK
<1>9. ~r.held /\ (r.call = "put" \/ r.pc = "new")
  BY <1>2 DEF CallOK, Writer
<1>10. CallOK(writer[w])'
  <2>1. backend = "s3" => \A k \in Kinds : disk[s][k] = Nothing
    BY <1>8 DEF IInv, DiskOK
  <2>2. r.call = "put" => r.put \in 1 .. puts /\ r.put \notin acked /\ r.size <= MaxData
                          /\ ~r.closed
    BY <1>2 DEF CallOK
  <2> HIDE DEF r
  <2> QED BY <1>2, <1>3, <1>5, <1>7, <1>8, <1>9, <2>1, <2>2 DEF CallOK
<1>11. StackOK(writer[w])'
  BY <1>2, <1>5, <1>7, <1>9 DEF StackOK
<1>12. TypesOK(Writer)'
  BY <1>2, <1>7, <1>8 DEF IInv, TypesOK
<1>13. \A t \in Uses(w)' : backend = "s3" /\ t >= nextId
  BY <1>2, <1>5, <1>7, <1>8, <1>9 DEF Uses
<1>14. WriterStep(w)
  BY <1>2, <1>3, <1>5, <1>7, <1>8, <1>9, <1>10, <1>11, <1>12, <1>13, DeadOrAlive
     DEF WriterStep, CallOK
<1> QED BY <1>2, <1>9, <1>14, QuietStep DEF Quiet

(* A call that ends without a stack: the writer is given up or returns.    *)
LEMMA FailedWithout ==
  ASSUME IInv, NEW w \in Writers, writer[w].pc \in {"resolve", "create"},
         NEW a \in Writer, a = writer[w],
         Becomes(w, Failed(a)), UNCHANGED <<backend, puts, hurt, book, acked>>,
         disk' \in [Sids -> [Kinds -> Blob]], faults' \in 0 .. MaxFaults,
         nextId' \in Nat, nextId <= nextId'
  PROVE  WriterStep(w) /\ BookStep(w) /\ BufferStep(w)
<1> DEFINE q == Failed(a)
<1>1. /\ w \in Living /\ CallOK(a) /\ StackOK(a) /\ ~a.held
  BY DeadOrAlive DEF IInv, Living, At, CallOK
<1>2. q = Dead \/ (q \in Writer /\ q.pc = "idle" /\ q.call = "none" /\ ~q.held
                   /\ q.shut = {} /\ q.raw = a.raw)
  BY <1>1, ReturnedFields DEF Failed, StackOK
<1> HIDE DEF q
<1>3. /\ writer'[w] = q /\ \A v \in Writers : v # w => writer'[v] = writer[v]
      /\ writer' \in [Writers -> Writer \cup {Dead}]
  BY <1>2, BecomesFields DEF IInv, q
<1>4. q.pc # "dead" => (CallOK(writer[w]) /\ StackOK(writer[w]))'
  BY <1>1, <1>2, <1>3, DeadOrAlive DEF CallOK, StackOK
<1>5. q.pc # "dead" => Uses(w)' = {}
  BY <1>2, <1>3, DeadOrAlive DEF Uses, At
<1>6. TypesOK(Writer)'
  BY <1>3 DEF IInv, TypesOK
<1>7. WriterStep(w)
  BY <1>2, <1>3, <1>4, <1>5, <1>6, DeadOrAlive DEF WriterStep, IInv, TypesOK
<1> QED BY <1>1, <1>7 DEF BookStep, BufferStep

(* A stack id that cannot be had.                                          *)
LEMMA ResolveFailsStep ==
  ASSUME IInv, NEW w \in Writers, ResolveFails(w) PROVE Step(w)
<1>1. /\ writer[w] \in Writer /\ writer[w].pc \in {"new", "resolve"}
      /\ UNCHANGED <<backend, disk, book, puts, acked, hurt>>
      /\ faults' \in 0 .. MaxFaults
      /\ nextId' \in Nat /\ nextId \in Nat /\ nextId <= nextId'
      /\ CallOK(writer[w])
  <2>1. writer[w] \in Writer /\ w \in Living /\ CallOK(writer[w])
    BY DeadOrAlive DEF ResolveFails, At, IInv, Living
  <2>2. faults' \in 0 .. MaxFaults
    BY FaultTyped DEF ResolveFails, IInv, TypesOK
  <2> QED BY <2>1, <2>2 DEF ResolveFails, At, IInv, TypesOK
<1>2. CASE writer[w].pc = "resolve"
  <2>1. Becomes(w, Failed(writer[w])) /\ disk' \in [Sids -> [Kinds -> Blob]]
    BY <1>1, <1>2 DEF ResolveFails, Asking, At, IInv, TypesOK
  <2>2. WriterStep(w)
    BY <1>1, <1>2, <2>1, FailedWithout
  <2> QED BY <1>1, <1>2, <2>2, QuietStep DEF Quiet, CallOK
<1>3. CASE writer[w].pc = "new"
  <2>1. Becomes(w, Dead)
    BY <1>1, <1>3 DEF ResolveFails, Asking, At, Failed, Writer
  <2>2. /\ writer'[w] = Dead /\ \A v \in Writers : v # w => writer'[v] = writer[v]
        /\ writer' \in [Writers -> Writer \cup {Dead}]
    BY <2>1, BecomesFields DEF IInv
  <2>3. TypesOK(Writer)'
    BY <1>1, <2>2 DEF IInv, TypesOK
  <2>4. WriterStep(w)
    BY <1>1, <2>2, <2>3, DeadOrAlive DEF WriterStep
  <2> QED BY <1>1, <2>2, <2>4, QuietStep, DeadOrAlive DEF Quiet
<1> QED BY <1>1, <1>2, <1>3

(* The process dies.                                                       *)
LEMMA DieStep ==
  ASSUME IInv, NEW w \in Writers, Die(w) PROVE Step(w)
<1>1. /\ UNCHANGED <<backend, disk, book, puts, acked, hurt, nextId>>
      /\ faults' \in 0 .. MaxFaults /\ writer[w].pc # "dead" /\ Becomes(w, Dead)
  BY FaultTyped DEF Die, IInv, TypesOK, At
<1>2. /\ writer'[w] = Dead /\ \A v \in Writers : v # w => writer'[v] = writer[v]
      /\ writer' \in [Writers -> Writer \cup {Dead}]
  BY <1>1, BecomesFields DEF IInv
<1>3. TypesOK(Writer)' /\ nextId \in Nat
  BY <1>1, <1>2 DEF IInv, TypesOK
<1>4. WriterStep(w)
  BY <1>1, <1>2, <1>3, DeadOrAlive DEF WriterStep
<1> QED BY <1>1, <1>2, <1>4, QuietStep, DeadOrAlive DEF Quiet

(* The stack that w is about to create is nobody's and not on disk.        *)
LEMMA ToCreate ==
  ASSUME IInv, NEW w \in Writers, writer[w].pc = "create",
         ~Exists(writer[w].new)
  PROVE  LET s == writer[w].new
         IN  /\ s \in Sids /\ \A k \in Kinds : disk[s][k] = Nothing
             /\ backend = "file" => ~disk[s]["data"].there
             /\ backend = "s3" => s \in Uses(w) /\ s < nextId
             /\ writer[w] \in Writer /\ CallOK(writer[w]) /\ StackOK(writer[w])
             /\ ~writer[w].held
<1>1. writer[w] \in Writer /\ CallOK(writer[w]) /\ StackOK(writer[w])
  BY DeadOrAlive DEF IInv, Living, At
<1>2. writer[w].new \in Sids /\ ~writer[w].held
  BY <1>1 DEF CallOK
<1>3. CASE backend = "file"
  BY <1>1, <1>2, <1>3 DEF Exists, IInv, DiskOK
<1>4. CASE backend = "s3"
  BY <1>1, <1>2, <1>4 DEF CallOK, Uses, At
<1> QED BY <1>1, <1>2, <1>3, <1>4 DEF IInv, TypesOK

(* A writer that has opened a stack with files as in buf.                  *)
LEMMA OpenedStep ==
  ASSUME IInv, NEW w \in Writers, writer[w].pc = "create",
         ~Exists(writer[w].new),
         NEW buf \in [Kinds -> Blob],
         \A k \in Kinds : buf[k].recs \subseteq {MagicHeader}, buf["data"].there,
         NEW q \in Writer \cup {Dead}, Becomes(w, q), q.pc # "dead" =>
           /\ q.held /\ q.shut = {} /\ q.buf = buf /\ q.sid = writer[w].new
           /\ q.raw = 0
           /\ \/ q.call = "none" /\ q.pc = "idle"
              \/ /\ q.call = "put" /\ q.pc = "write" /\ writer[w].call = "put"
                 /\ q.put = writer[w].put /\ q.size = writer[w].size
                 /\ q.closed = writer[w].closed
           /\ \/ <<q.sid, "write">> \in hurt'
              \/ InStep(q),
         disk' = Arrived(writer[w].new, buf),
         UNCHANGED <<backend, book, puts, acked, nextId>>,
         hurt \subseteq hurt', hurt' \subseteq Sids \X {"write", "shut", "retried", "overwritten"},
         faults' \in 0 .. MaxFaults
  PROVE  Step(w)
<1> DEFINE r == writer[w]
           s == writer[w].new
<1>1. /\ s \in Sids /\ \A k \in Kinds : disk[s][k] = Nothing
      /\ backend = "file" => ~disk[s]["data"].there
      /\ backend = "s3" => s \in Uses(w) /\ s < nextId
      /\ r \in Writer /\ CallOK(r) /\ StackOK(r) /\ ~r.held
  BY ToCreate
<1>2. /\ disk' \in [Sids -> [Kinds -> Blob]]
      /\ \A t \in Sids : t # s => disk'[t] = disk[t]
      /\ backend = "file" => disk'[s] = buf
      /\ backend = "s3" => disk' = disk
  BY <1>1, ArrivedDisk DEF IInv
<1>3. /\ writer'[w] = q /\ \A v \in Writers : v # w => writer'[v] = writer[v]
      /\ writer' \in [Writers -> Writer \cup {Dead}]
  BY BecomesFields DEF IInv
<1>4. Indexed(buf)
  BY DEF Indexed, Kinds
<1>5. backend' = backend /\ backend \in {"file", "s3"} /\ nextId' = nextId /\ nextId \in Nat
      /\ puts' = puts /\ MaxData \in Nat
  BY SizesAssumption DEF IInv, TypesOK
<1>6. TypesOK(Writer)'
  BY <1>2, <1>3 DEF IInv, TypesOK
<1>7. ASSUME q.pc # "dead"
      PROVE  /\ CallOK(writer[w])' /\ StackOK(writer[w])'
             /\ Uses(w)' \subseteq {s}
  <2>1. CallOK(writer[w])'
    <3>1. r.call = "put" => r.put \in 1 .. puts /\ r.put \notin acked /\ r.size <= MaxData
                            /\ ~r.closed
      BY <1>1 DEF CallOK
    <3> HIDE DEF r
    <3> QED BY <1>3, <1>5, <1>7, <3>1 DEF CallOK, r
  <2>2. q.sid = s /\ q.buf = buf /\ q.shut = {} /\ q.raw = 0
    BY <1>7
  <2>3. /\ backend = "file" => disk'[s] = buf
        /\ backend = "s3" => s < nextId /\ \A k \in Kinds : disk'[s][k] = Nothing
    BY <1>1, <1>2
  <2>4. <<q.sid, "write">> \in hurt' \/ InStep(q)
    BY <1>7
  <2>5. StackOK(writer[w])'
    <3>1. Indexed(writer[w].buf)'
      BY <1>3, <1>4, <2>2 DEF Indexed
    <3>2. ~Hurt(writer[w].sid, "write")' => InStep(writer[w])'
      BY <1>3, <2>4 DEF Hurt, InStep
    <3> QED BY <1>1, <1>3, <1>5, <2>2, <2>3, <3>1, <3>2 DEF StackOK
  <2>6. Uses(w)' \subseteq {s}
    BY <1>3, <1>7 DEF Uses, At
  <2> QED BY <2>1, <2>5, <2>6
<1>8. WriterStep(w)
  <2>1. q.pc # "dead" => \A t \in Uses(w)' :
          t \in Uses(w) \/ (backend = "file" /\ ~disk[t]["data"].there)
    BY <1>1, <1>5, <1>7
  <2> HIDE DEF r, s
  <2> QED BY <1>3, <1>5, <1>6, <1>7, <2>1 DEF WriterStep, r
<1>9. DiskStep(w)
  <2>1. ASSUME NEW t \in Sids, disk'[t] # disk[t]
        PROVE  t = s /\ backend = "file" /\ disk'[t] = buf
    BY <1>2, <1>5, <2>1
  <2>2. \A k \in Kinds : disk[s][k].recs = {}
    BY <1>1, HeadedTyped
  <2>3. disk'[s] = buf => Indexed(disk'[s])
    BY <1>4
  <2> QED BY <1>1, <2>1, <2>2, <2>3 DEF DiskStep
<1>10. BookStep(w) /\ BufferStep(w)
  BY <1>1 DEF BookStep, BufferStep
<1> QED BY <1>8, <1>9, <1>10 DEF Step

(* What openStack sets before it writes the magic headers.                 *)
LEMMA OpenedFields ==
  ASSUME NEW r \in Writer
  PROVE  /\ Opened(r) \in Writer
         /\ Opened(r).pc = r.pc /\ Opened(r).call = r.call
         /\ Opened(r).closed = r.closed /\ Opened(r).size = r.size
         /\ Opened(r).put = r.put /\ Opened(r).held /\ Opened(r).shut = {}
         /\ Opened(r).sid = r.new /\ Opened(r).off = HeadSize("data")
         /\ Opened(r).moff = r.moff /\ Opened(r).raw = 0
<1>1. PICK h \in Nat : h = HeadSize("data")
  BY SizesTyped DEF Kinds
<1> QED BY <1>1 DEF Opened, Writer

(* Creating the three files.                                               *)
LEMMA CreateStep ==
  ASSUME IInv, NEW w \in Writers, Create(w) PROVE Step(w)
<1> DEFINE r == writer[w]
           buf == [k \in Kinds |-> Headed(k)]
           m == HeadSize("meta")
           p == [Opened(r) EXCEPT !.buf = buf, !.moff = m]
<1>1. /\ r.pc = "create" /\ ~Exists(r.new)
      /\ disk' = Arrived(r.new, p.buf)
      /\ Becomes(w, IF p.call = "open" THEN Returned(p) ELSE [p EXCEPT !.pc = "write"])
      /\ UNCHANGED <<backend, book, puts, acked, hurt, nextId, faults>>
  BY DEF Create, At
<1>2. r \in Writer /\ CallOK(r)
  BY <1>1, ToCreate
<1>3. /\ buf \in [Kinds -> Blob] /\ m \in Nat /\ HeadSize("data") \in Nat
      /\ \A k \in Kinds : buf[k].recs = {MagicHeader} /\ buf[k].len = HeadSize(k)
                          /\ buf[k].there
  BY HeadedTyped, SizesTyped DEF Kinds
<1> DEFINE off == HeadSize("data")
<1>4. /\ p \in Writer /\ p.pc = r.pc /\ p.call = r.call /\ p.closed = r.closed
      /\ p.size = r.size /\ p.put = r.put
      /\ p.held /\ p.shut = {} /\ p.buf = buf /\ p.sid = r.new
      /\ p.off = off /\ p.moff = m /\ p.raw = 0
  <2> DEFINE o == Opened(r)
  <2>1. /\ o \in Writer /\ o.pc = r.pc /\ o.call = r.call /\ o.closed = r.closed
        /\ o.size = r.size /\ o.put = r.put /\ o.held /\ o.shut = {}
        /\ o.sid = r.new /\ o.off = off /\ o.raw = 0
    BY <1>2, OpenedFields
  <2> HIDE DEF o, buf, m, off
  <2>2. p = [o EXCEPT !.buf = buf, !.moff = m]
    BY DEF o
  <2> HIDE DEF p
  <2> QED BY <1>3, <2>1, <2>2 DEF Writer
<1> HIDE DEF p
<1>5. PICK q \in Writer :
        /\ Becomes(w, q)
        /\ q.held /\ q.shut = {} /\ q.buf = buf /\ q.sid = r.new
        /\ q.off = off /\ q.moff = m /\ q.raw = 0
        /\ \/ q.call = "none" /\ q.pc = "idle"
           \/ /\ q.call = "put" /\ q.pc = "write" /\ r.call = "put"
              /\ q.put = r.put /\ q.size = r.size /\ q.closed = r.closed
  <2> HIDE DEF buf, m, off
  <2>1. CASE r.call = "open"
    BY <1>1, <1>4, <2>1, ReturnedFields
  <2>2. CASE r.call # "open"
    <3>1. r.call = "put"
      BY <1>1, <1>2, <2>2 DEF CallOK, Writer
    <3>2. Becomes(w, [p EXCEPT !.pc = "write"])
      BY <1>1, <1>4, <2>2
    <3> QED BY <1>4, <3>1, <3>2 DEF Writer
  <2> QED BY <2>1, <2>2
<1>6. InStep(q)
  BY <1>3, <1>5 DEF InStep, Kinds
<1>7. /\ hurt' \subseteq Sids \X {"write", "shut", "retried", "overwritten"}
      /\ faults' \in 0 .. MaxFaults /\ buf["data"].there
  BY <1>1, <1>3 DEF IInv, TypesOK, Kinds
<1> HIDE DEF buf, m, off
<1> QED BY <1>1, <1>3, <1>4, <1>5, <1>6, <1>7, OpenedStep, DeadOrAlive

(* Failing to create one of them.                                          *)
LEMMA CreateFailsStep ==
  ASSUME IInv, NEW w \in Writers, CreateFails(w) PROVE Step(w)
<1> DEFINE r == writer[w]
           s == writer[w].new
<1>1. /\ r.pc = "create" /\ Becomes(w, Failed(r)) /\ r \in Writer /\ CallOK(r)
      /\ ~r.held /\ s \in Sids
      /\ UNCHANGED <<backend, book, puts, acked, hurt, nextId>> /\ nextId \in Nat
  BY DeadOrAlive DEF CreateFails, At, IInv, Living, CallOK, TypesOK
<1>2. CASE Exists(s) /\ UNCHANGED <<disk, faults>>
  <2>1. disk' \in [Sids -> [Kinds -> Blob]] /\ faults' \in 0 .. MaxFaults
    BY <1>2 DEF IInv, TypesOK
  <2>2. WriterStep(w)
    BY <1>1, <2>1, FailedWithout
  <2> QED BY <1>1, <1>2, <2>2, QuietStep DEF Quiet
<1>3. CASE backend = "file" /\ ~Exists(s) /\ Fault
           /\ \E k \in Kinds : disk' = Created(s, Before(OpenOrder, k))
  <2>1. faults' \in 0 .. MaxFaults
    BY <1>3, FaultTyped DEF IInv, TypesOK
  <2>2. /\ \A k \in Kinds : disk[s][k] = Nothing
        /\ ~disk[s]["data"].there /\ disk \in [Sids -> [Kinds -> Blob]]
    BY <1>1, <1>3, ToCreate DEF IInv, TypesOK
  <2>3. PICK ks \in SUBSET Kinds :
          /\ ks = {} \/ "data" \in ks
          /\ disk' = [disk EXCEPT ![s] = [k \in Kinds |-> IF k \in ks THEN Empty ELSE @[k]]]
    BY <1>3, BeforeOpen DEF Created, Kinds
  <2>4. /\ disk' \in [Sids -> [Kinds -> Blob]]
        /\ \A t \in Sids : t # s => disk'[t] = disk[t]
        /\ \A k \in Kinds : disk'[s][k] = IF k \in ks THEN Empty ELSE disk[s][k]
    BY <1>1, <2>2, <2>3, HeadedTyped
  <2>5. WriterStep(w) /\ BookStep(w) /\ BufferStep(w)
    BY <1>1, <2>1, <2>4, FailedWithout
  <2>6. \A k \in Kinds : disk[s][k].recs = {} /\ disk'[s][k].recs = {}
    BY <2>2, <2>4, HeadedTyped
  <2>7. Indexed(disk'[s])
    BY <2>6 DEF Indexed, Kinds
  <2>8. ks = {} => disk' = disk
    <3>1. ks = {} => [k \in Kinds |-> IF k \in ks THEN Empty ELSE disk[s][k]] = disk[s]
      BY <1>1, <2>2
    <3> QED BY <2>2, <2>3, <3>1
  <2>9. "data" \in ks => disk'[s]["data"].there
    BY <2>4, HeadedTyped DEF Kinds
  <2>10. DiskStep(w)
    BY <1>3, <2>2, <2>3, <2>4, <2>6, <2>7, <2>8, <2>9 DEF DiskStep
  <2> QED BY <2>5, <2>10 DEF Step
<1> QED BY <1>2, <1>3 DEF CreateFails

(* Failing to write a magic header.                                        *)
LEMMA HeaderFailsStep ==
  ASSUME IInv, NEW w \in Writers, HeaderFails(w) PROVE Step(w)
<1> DEFINE r == writer[w]
           s == writer[w].new
<1>1. /\ r.pc = "create" /\ backend = "file" /\ ~Exists(s) /\ Fault
      /\ hurt' = hurt \cup {<<s, "write">>}
      /\ UNCHANGED <<backend, book, puts, acked, nextId>>
  BY DEF HeaderFails, At
<1>2. r \in Writer /\ s \in Sids
  BY <1>1, ToCreate
<1>3. PICK k \in Kinds : \E part \in {0, HeadSize(k) \div 2} :
        LET buf == [j \in Kinds |->
                      IF j \in Before(OpenOrder, k) THEN Headed(j)
                      ELSE IF j = k THEN [Empty EXCEPT !.len = part]
                      ELSE Empty]
        IN  /\ disk' = Arrived(s, buf)
            /\ Becomes(w, Failed([Opened(r) EXCEPT !.buf = buf]))
  BY DEF HeaderFails
<1>h. PICK part \in {0, HeadSize(k) \div 2} :
        LET buf == [j \in Kinds |->
                      IF j \in Before(OpenOrder, k) THEN Headed(j)
                      ELSE IF j = k THEN [Empty EXCEPT !.len = part]
                      ELSE Empty]
        IN  /\ disk' = Arrived(s, buf)
            /\ Becomes(w, Failed([Opened(r) EXCEPT !.buf = buf]))
  BY <1>3
<1> DEFINE buf == [j \in Kinds |->
                     IF j \in Before(OpenOrder, k) THEN Headed(j)
                     ELSE IF j = k THEN [Empty EXCEPT !.len = part]
                     ELSE Empty]
           p == [Opened(r) EXCEPT !.buf = buf]
           off == HeadSize("data")
<1>4. part \in Nat /\ off \in Nat
  BY SizesTyped DEF Kinds
<1>5. /\ buf \in [Kinds -> Blob]
      /\ \A j \in Kinds : buf[j].recs \subseteq {MagicHeader} /\ buf[j].there
  BY <1>4, HeadedTyped
<1>6. disk' = Arrived(s, buf) /\ Becomes(w, Failed(p))
  BY <1>h
<1> HIDE DEF buf
<1>7. /\ p \in Writer /\ p.held /\ p.shut = {} /\ p.buf = buf /\ p.sid = s /\ p.raw = 0
  <2> DEFINE o == Opened(r)
  <2>1. o \in Writer /\ o.held /\ o.shut = {} /\ o.sid = s /\ o.raw = 0
    BY <1>2, OpenedFields
  <2> HIDE DEF o
  <2>2. p = [o EXCEPT !.buf = buf]
    BY DEF o
  <2> HIDE DEF p
  <2> QED BY <1>5, <2>1, <2>2 DEF Writer
<1> HIDE DEF p, off
<1>8. PICK q \in Writer \cup {Dead} :
        /\ Becomes(w, q)
        /\ q.pc # "dead" => /\ q.held /\ q.shut = {} /\ q.buf = buf /\ q.sid = s
                            /\ q.raw = 0 /\ q.call = "none" /\ q.pc = "idle"
  BY <1>6, <1>7, ReturnedFields, DeadOrAlive DEF Failed
<1>9. /\ hurt' \subseteq Sids \X {"write", "shut", "retried", "overwritten"}
      /\ hurt \subseteq hurt' /\ <<s, "write">> \in hurt'
      /\ faults' \in 0 .. MaxFaults /\ buf["data"].there
  BY <1>1, <1>2, <1>5, FaultTyped DEF IInv, TypesOK, Kinds
<1> QED BY <1>1, <1>5, <1>6, <1>8, <1>9, OpenedStep
-----------------------------------------------------------------------------
(* Writing.                                                                *)

(* r is w in a call of the given kind, before the call does anything to    *)
(* its stack.                                                              *)
Calls(w, r) ==
  LET o == writer[w]
  IN  /\ o.pc # "dead" /\ r \in Writer
      /\ r.held = o.held /\ r.shut = o.shut /\ r.buf = o.buf /\ r.sid = o.sid
      /\ r.off = o.off /\ r.moff = o.moff /\ r.raw = o.raw
      /\ r.pc \in {"idle", "write"}
      /\ puts' \in {puts, puts + 1} /\ puts' \in 0 .. MaxPuts
      /\ UNCHANGED <<backend, nextId>>

Puttings(w, r) ==
  /\ Calls(w, r)
  /\ r.call = "put" /\ r.closed = writer[w].closed /\ ~r.closed
  /\ r.put \in 1 .. puts' /\ r.put \notin acked
  /\ r.size <= MaxData
  /\ \/ writer[w].call = "put" /\ r.put = writer[w].put
     \/ r.put = puts + 1 /\ puts' = puts + 1

(* A caller's writer is a living one.                                      *)
LEMMA Caller ==
  ASSUME IInv, NEW w \in Writers, NEW r, Calls(w, r)
  PROVE  /\ w \in Living /\ writer[w] \in Writer
         /\ CallOK(writer[w]) /\ StackOK(writer[w]) /\ StackOK(r)
         /\ r.held => r.sid \in Uses(w)
         /\ (r.put \in 1 .. puts' => r.put \in Puts)
<1>1. w \in Living /\ writer[w] \in Writer /\ CallOK(writer[w]) /\ StackOK(writer[w])
  BY DeadOrAlive DEF Calls, IInv, Living, At
<1>2. StackOK(r)
  BY <1>1 DEF Calls, StackOK, InStep
<1>3. r.held => r.sid \in Uses(w)
  BY <1>1 DEF Calls, Uses, StackOK
<1>4. r.put \in 1 .. puts' => r.put \in Puts
  BY BoundsAssumption DEF Calls, Puts
<1> QED BY <1>1, <1>2, <1>3, <1>4

(* Writes that leave the writer with the files q.buf.                      *)
LEMMA WroteStep ==
  ASSUME IInv, NEW w \in Writers, NEW r, Puttings(w, r), r.held, r.shut = {},
         NEW q \in Writer, Becomes(w, q),
         q.pc = "idle", q.call = "none", q.held, q.shut = {}, q.closed = r.closed,
         q.sid = r.sid, q.raw <= MaxData,
         \A k \in Kinds : r.buf[k].recs \subseteq q.buf[k].recs,
         q.buf["data"].there = r.buf["data"].there,
         Indexed(q.buf),
         <<r.sid, "write">> \notin hurt' => InStep(q),
         disk' = Arrived(r.sid, q.buf),
         book' = [book EXCEPT ![r.put] = Recorded(r, w)],
         \/ acked' = acked
         \/ /\ acked' = acked \cup {r.put}
            /\ <<r.sid, "write">> \notin hurt' => HoldsAs(q.buf, Recorded(r, w), r.put),
         hurt \subseteq hurt',
         hurt' \subseteq Sids \X {"write", "shut", "retried", "overwritten"},
         faults' \in 0 .. MaxFaults
  PROVE  Step(w)
<1>1. /\ w \in Living /\ writer[w] \in Writer /\ CallOK(writer[w]) /\ StackOK(r)
      /\ r.sid \in Uses(w) /\ r.sid \in Sids /\ r.put \in Puts
  BY Caller DEF Puttings, StackOK
<1>2. q.buf \in [Kinds -> Blob] /\ r.sid \in Nat /\ r.off \in Nat /\ r.moff \in Nat /\ r.size \in Nat
  BY DEF Puttings, Calls, Writer
<1>3. /\ disk' \in [Sids -> [Kinds -> Blob]]
      /\ \A t \in Sids : t # r.sid => disk'[t] = disk[t]
      /\ backend = "file" => disk'[r.sid] = q.buf
      /\ backend = "s3" => disk' = disk
  BY <1>1, <1>2, ArrivedDisk DEF IInv
<1>4. /\ writer'[w] = q /\ \A v \in Writers : v # w => writer'[v] = writer[v]
      /\ writer' \in [Writers -> Writer \cup {Dead}]
  BY BecomesFields DEF IInv
<1>5. /\ backend' = backend /\ backend \in {"file", "s3"} /\ nextId' = nextId /\ nextId \in Nat
      /\ puts \in Nat /\ puts' \in {puts, puts + 1} /\ puts' \in 0 .. MaxPuts
  BY DEF Puttings, Calls, IInv, TypesOK
<1>6. /\ book' \in [Puts -> Booked] /\ book'[r.put] = Recorded(r, w)
      /\ \A n \in Puts : n # r.put => book'[n] = book[n]
  <2>1. Recorded(r, w) \in Booked
    BY <1>2 DEF Recorded, Booked
  <2> QED BY <1>1, <2>1 DEF IInv, TypesOK
<1>7. acked' \subseteq 1 .. puts' /\ acked \subseteq Puts /\ r.put \notin acked
  <2>1. acked \subseteq 1 .. puts /\ 1 .. puts \subseteq 1 .. puts'
    BY <1>5 DEF IInv, TypesOK
  <2>2. r.put \in 1 .. puts' /\ r.put \notin acked
    BY DEF Puttings
  <2>3. 1 .. puts \subseteq Puts
    BY BoundsAssumption DEF IInv, TypesOK, Puts
  <2> QED BY <2>1, <2>2, <2>3
<1>8. TypesOK(Writer)'
  BY <1>3, <1>4, <1>5, <1>6, <1>7 DEF TypesOK
<1>9. CallOK(writer[w])'
  BY <1>4 DEF CallOK
<1>10. StackOK(writer[w])'
  <2>1. ~Hurt(writer[w].sid, "write")' => InStep(writer[w])'
    BY <1>4 DEF Hurt, InStep
  <2>2. Indexed(writer[w].buf)'
    BY <1>4 DEF Indexed
  <2>3. backend = "file" => disk'[r.sid] = q.buf /\ q.buf["data"].there
    BY <1>1, <1>3 DEF StackOK
  <2>4. backend = "s3" => r.sid < nextId /\ \A k \in Kinds : disk'[r.sid][k] = Nothing
    BY <1>1, <1>3 DEF StackOK
  <2> QED BY <1>1, <1>4, <1>5, <2>1, <2>2, <2>3, <2>4 DEF StackOK
<1>11. Uses(w)' \subseteq Uses(w)
  BY <1>1, <1>4 DEF Uses, At
<1>12. WriterStep(w)
  BY <1>1, <1>4, <1>5, <1>8, <1>9, <1>10, <1>11, DeadOrAlive DEF WriterStep
<1>13. DiskStep(w)
  <2>1. ASSUME NEW t \in Sids, disk'[t] # disk[t]
        PROVE  t = r.sid /\ backend = "file" /\ disk'[t] = q.buf /\ disk[t] = r.buf
    BY <1>1, <1>3, <1>5, <2>1 DEF StackOK
  <2>2. backend = "file" => q.buf["data"].there
    BY <1>1 DEF StackOK
  <2> QED BY <1>1, <2>1, <2>2 DEF DiskStep
<1>14. BookStep(w)
  <2>1. ASSUME NEW n \in acked PROVE n \in acked' /\ book'[n] = book[n]
    BY <1>6, <1>7
  <2>2. ASSUME NEW n \in acked', n \notin acked
        PROVE  /\ n = r.put /\ book'[n].sid = q.sid /\ book'[n].by = w
               /\ <<q.sid, "write">> \notin hurt' => HoldsAs(q.buf, book'[n], n)
    BY <1>6, <2>2 DEF Recorded
  <2>3. ~q.closed
    BY DEF Puttings
  <2>4. \/ writer[w].call = "put" /\ r.put = writer[w].put
        \/ r.put = puts + 1
    BY DEF Puttings
  <2> QED BY <1>4, <2>1, <2>2, <2>3, <2>4 DEF BookStep
<1>15. BufferStep(w)
  BY <1>4 DEF BufferStep, Puttings, Calls
<1> QED BY <1>12, <1>13, <1>14, <1>15 DEF Step

(* The offsets after the writes of the kinds in ks.                        *)
LEMMA AdvancedFields ==
  ASSUME NEW r \in Writer, NEW ks
  PROVE  LET q == Advanced(r, ks)
         IN  /\ q \in Writer
             /\ q.off = r.off + (IF "data" \in ks THEN SdkRecordSize(r.size) ELSE 0)
             /\ q.moff = r.moff + (IF "meta" \in ks THEN MetaLine ELSE 0)
             /\ q.held = r.held /\ q.shut = r.shut /\ q.closed = r.closed
             /\ q.sid = r.sid /\ q.raw = r.raw /\ q.buf = r.buf /\ q.size = r.size
<1>1. SdkRecordSize(r.size) \in Nat /\ MetaLine \in Nat
  <2>1. SdkEntrySize("data", r.size) \in Nat
    BY SizesTyped DEF Writer, Kinds
  <2> QED BY <2>1, LineAssumption, IdxAssumption DEF SdkEntrySize
<1>2. PICK a \in Nat : a = r.off + (IF "data" \in ks THEN SdkRecordSize(r.size) ELSE 0)
  BY <1>1 DEF Writer
<1>3. PICK b \in Nat : b = r.moff + (IF "meta" \in ks THEN MetaLine ELSE 0)
  BY <1>1 DEF Writer
<1>4. Advanced(r, ks) = [r EXCEPT !.off = a, !.moff = b]
  BY <1>2, <1>3 DEF Advanced, Writer
<1> QED BY <1>2, <1>3, <1>4 DEF Writer

(* A record in all three files.                                            *)
LEMMA WriteStep ==
  ASSUME IInv, NEW w \in Writers, NEW r, Puttings(w, r),
         r.raw + r.size <= MaxData, Write(w, r)
  PROVE  Step(w)
<1> DEFINE n == r.put
           buf == [k \in Kinds |-> Appended(r.buf[k], n, SdkEntrySize(k, r.size))]
           q == Returned([Advanced(r, Kinds) EXCEPT !.buf = buf, !.raw = @ + r.size])
<1>1. /\ r \in Writer /\ r.held /\ r.shut = {} /\ Becomes(w, q)
      /\ StackOK(r) /\ n \in Puts /\ r.size \in Nat
      /\ "data" \in Kinds /\ "meta" \in Kinds /\ "idx" \in Kinds
  BY Caller DEF Write, Puttings, Calls, Writer, Kinds
<1>2. ASSUME NEW k \in Kinds
      PROVE  /\ buf[k] \in Blob /\ buf[k].there = r.buf[k].there
             /\ buf[k].len = r.buf[k].len + SdkEntrySize(k, r.size)
             /\ buf[k].recs = r.buf[k].recs \cup {[at |-> r.buf[k].len, put |-> n]}
  <2>1. r.buf[k] \in Blob /\ SdkEntrySize(k, r.size) \in Nat
    BY <1>1, SizesTyped DEF Writer
  <2> QED BY <1>1, <2>1, AppendedTyped
<1>3. /\ q \in Writer /\ q.pc = "idle" /\ q.call = "none" /\ q.held = r.held
      /\ q.shut = r.shut /\ q.closed = r.closed /\ q.sid = r.sid
      /\ q.buf = buf /\ q.raw = r.raw + r.size
      /\ q.off = r.off + SdkRecordSize(r.size) /\ q.moff = r.moff + MetaLine
  <2> DEFINE a == Advanced(r, Kinds)
             p == [a EXCEPT !.buf = buf, !.raw = @ + r.size]
  <2>1. /\ a \in Writer /\ a.held = r.held /\ a.shut = r.shut /\ a.closed = r.closed
        /\ a.sid = r.sid /\ a.raw = r.raw
        /\ a.off = r.off + SdkRecordSize(r.size) /\ a.moff = r.moff + MetaLine
    BY <1>1, AdvancedFields
  <2>2. buf \in [Kinds -> Blob] /\ r.raw + r.size \in Nat
    BY <1>1, <1>2 DEF Writer
  <2> HIDE DEF a, buf
  <2>3. /\ p \in Writer /\ p.held = a.held /\ p.shut = a.shut /\ p.closed = a.closed
        /\ p.sid = a.sid /\ p.raw = r.raw + r.size /\ p.buf = buf
        /\ p.off = a.off /\ p.moff = a.moff
    BY <2>1, <2>2 DEF Writer
  <2>4. q = Returned(p)
    BY DEF q, p, a
  <2> HIDE DEF p, q
  <2> QED BY <2>1, <2>3, <2>4, ReturnedFields
<1> HIDE DEF q
<1>4. Indexed(q.buf)
  <2> SUFFICES ASSUME NEW e \in buf["idx"].recs \ {MagicHeader}, NEW k \in {"data", "meta"}
               PROVE  \E g \in buf[k].recs : g.put = e.put
    BY <1>3 DEF Indexed
  <2>1. k \in Kinds /\ Indexed(r.buf)
    BY <1>1 DEF Kinds, StackOK
  <2>2. CASE e \in r.buf["idx"].recs
    BY <1>1, <1>2, <2>1, <2>2 DEF Indexed
  <2>3. CASE e \notin r.buf["idx"].recs
    <3>1. e.put = n
      BY <1>1, <1>2, <2>3
    <3>2. [at |-> r.buf[k].len, put |-> n] \in buf[k].recs
      BY <1>2, <2>1
    <3> QED BY <3>1, <3>2
  <2> QED BY <2>2, <2>3
<1>5. ASSUME InStep(r) PROVE InStep(q) /\ HoldsAs(q.buf, Recorded(r, w), n)
  <2>1. \A k \in Kinds : MagicHeader \in buf[k].recs
    BY <1>2, <1>5 DEF InStep
  <2>2. buf["data"].len = q.off /\ buf["meta"].len = q.moff
    BY <1>1, <1>2, <1>3, <1>5 DEF InStep, SdkEntrySize, EntrySize
  <2>3. /\ r.off = r.buf["data"].len /\ r.moff = r.buf["meta"].len
    BY <1>5 DEF InStep
  <2>4. \A k \in Kinds : [at |-> r.buf[k].len, put |-> n] \in buf[k].recs
    BY <1>2
  <2>5. /\ [at |-> r.off, put |-> n] \in buf["data"].recs
        /\ [at |-> r.moff, put |-> n] \in buf["meta"].recs
    BY <1>1, <2>3, <2>4
  <2>6. [at |-> r.buf["idx"].len, put |-> n].put = n
    OBVIOUS
  <2>7. \E e \in buf["idx"].recs : e.put = n
    BY <1>1, <2>4, <2>6
  <2> HIDE DEF buf
  <2> QED BY <1>3, <2>1, <2>2, <2>5, <2>7 DEF InStep, HoldsAs, Recorded
<1>6. <<r.sid, "write">> \notin hurt' => InStep(r)
  BY <1>1 DEF Write, StackOK, Hurt
<1>7. /\ disk' = Arrived(r.sid, q.buf) /\ acked' = acked \cup {n}
      /\ book' = [book EXCEPT ![r.put] = Recorded(r, w)]
      /\ hurt' = hurt /\ faults' = faults
  BY <1>3 DEF Write
<1>8. /\ hurt' \subseteq Sids \X {"write", "shut", "retried", "overwritten"}
      /\ faults' \in 0 .. MaxFaults
  BY <1>7 DEF IInv, TypesOK
<1>9. /\ \A k \in Kinds : r.buf[k].recs \subseteq q.buf[k].recs
      /\ q.buf["data"].there = r.buf["data"].there
  BY <1>1, <1>2, <1>3
<1> HIDE DEF buf
<1>10. q.raw <= MaxData /\ Becomes(w, q)
  BY <1>1, <1>3
<1> QED BY <1>1, <1>3, <1>4, <1>5, <1>6, <1>7, <1>8, <1>9, <1>10, WroteStep

(* A write that fails.                                                     *)
LEMMA WriteFailsStep ==
  ASSUME IInv, NEW w \in Writers, NEW r, Puttings(w, r), WriteFails(w, r)
  PROVE  Step(w)
<1> DEFINE n == r.put
<1>1. /\ r \in Writer /\ r.held /\ r.shut = {} /\ backend = "file" /\ Fault
      /\ StackOK(r) /\ n \in Puts /\ r.size \in Nat /\ r.sid \in Sids
      /\ "data" \in Kinds /\ "meta" \in Kinds /\ "idx" \in Kinds
      /\ acked' = acked /\ book' = [book EXCEPT ![n] = Recorded(r, w)]
  BY Caller DEF WriteFails, Puttings, Calls, Writer, Kinds, StackOK
<1>2. PICK k \in Kinds : \E part \in Parts(SdkEntrySize(k, r.size)) :
        LET done == Before(WriteOrder, k)
            buf == [j \in Kinds |->
                      IF j \in done \cup {k}
                        THEN PartlyAppended(r.buf[j], n, SdkEntrySize(j, r.size),
                               IF j = k THEN part ELSE SdkEntrySize(j, r.size))
                        ELSE r.buf[j]]
        IN  /\ disk' = Arrived(r.sid, buf)
            /\ Becomes(w, Returned([Advanced(r, done) EXCEPT !.buf = buf]))
            /\ hurt' = IF part > 0 THEN hurt \cup {<<r.sid, "write">>} ELSE hurt
  BY DEF WriteFails
<1> DEFINE done == Before(WriteOrder, k)
<1>3. PICK part \in Parts(SdkEntrySize(k, r.size)) :
        LET buf == [j \in Kinds |->
                      IF j \in done \cup {k}
                        THEN PartlyAppended(r.buf[j], n, SdkEntrySize(j, r.size),
                               IF j = k THEN part ELSE SdkEntrySize(j, r.size))
                        ELSE r.buf[j]]
        IN  /\ disk' = Arrived(r.sid, buf)
            /\ Becomes(w, Returned([Advanced(r, done) EXCEPT !.buf = buf]))
            /\ hurt' = IF part > 0 THEN hurt \cup {<<r.sid, "write">>} ELSE hurt
  BY <1>2
<1> DEFINE buf == [j \in Kinds |->
                     IF j \in done \cup {k}
                       THEN PartlyAppended(r.buf[j], n, SdkEntrySize(j, r.size),
                              IF j = k THEN part ELSE SdkEntrySize(j, r.size))
                       ELSE r.buf[j]]
           q == Returned([Advanced(r, done) EXCEPT !.buf = buf])
<1>4. /\ disk' = Arrived(r.sid, buf) /\ Becomes(w, q)
      /\ hurt' = IF part > 0 THEN hurt \cup {<<r.sid, "write">>} ELSE hurt
  BY <1>3
<1> HIDE DEF q
<1>5. \A j \in Kinds : SdkEntrySize(j, r.size) \in Nat /\ SdkEntrySize(j, r.size) > 0
                       /\ r.buf[j] \in Blob
  BY <1>1, SizesTyped DEF Writer
<1>6. part \in Nat
  BY <1>5 DEF Parts
<1>7. \/ k = "data" /\ done = {}
      \/ k = "meta" /\ done = {"data"}
      \/ k = "idx" /\ done = {"data", "meta"}
  BY BeforeWrite DEF Kinds
<1> HIDE DEF done
<1>8. ASSUME NEW j \in Kinds
      PROVE  /\ buf[j] \in Blob /\ buf[j].there = r.buf[j].there
             /\ r.buf[j].recs \subseteq buf[j].recs
             /\ j \in done =>
                  /\ buf[j].len = r.buf[j].len + SdkEntrySize(j, r.size)
                  /\ buf[j].recs = r.buf[j].recs \cup {[at |-> r.buf[j].len, put |-> n]}
             /\ j \notin done /\ j # k => buf[j] = r.buf[j]
             /\ j = k => /\ buf[j].recs \subseteq
                              r.buf[j].recs \cup {[at |-> r.buf[j].len, put |-> n]}
                         /\ part = 0 => buf[j].len = r.buf[j].len
  <2>a. PICK z \in Nat : z = SdkEntrySize(j, r.size) /\ z > 0
    BY <1>5
  <2>b. PICK b \in Blob : b = r.buf[j]
    BY <1>5
  <2>c. n \in Puts /\ z \in Nat /\ b \in Blob /\ b.len \in Nat
    BY <1>1, <2>a, <2>b DEF Blob
  <2>1. CASE j \in done
    <3>1. j # k
      BY <1>7, <2>1
    <3>2. buf[j] = Appended(b, n, z)
      BY <2>1, <2>a, <2>b, <3>1 DEF PartlyAppended
    <3> HIDE DEF buf, n
    <3>3. /\ buf[j] \in Blob /\ buf[j].there = b.there
          /\ buf[j].len = b.len + z
          /\ buf[j].recs = b.recs \cup {[at |-> b.len, put |-> n]}
      <4> DEFINE c == Appended(b, n, z)
      <4>1. /\ c \in Blob /\ c.there = b.there /\ c.len = b.len + z
            /\ c.recs = b.recs \cup {[at |-> b.len, put |-> n]}
        BY <2>c, AppendedTyped, Zenon
      <4> QED BY <3>2, <4>1
    <3> QED BY <2>1, <2>a, <2>b, <3>1, <3>3
  <2>2. CASE j = k
    <3>1. j \notin done
      BY <1>7, <2>2
    <3>2. buf[j] = PartlyAppended(b, n, z, part)
      BY <2>2, <2>a, <2>b
    <3> HIDE DEF buf, n
    <3>3. PICK y \in Nat : y = part
      BY <1>6
    <3>4. y \in Nat /\ buf[j] = PartlyAppended(b, n, z, y)
      BY <3>2, <3>3
    <3>5. /\ buf[j] \in Blob /\ buf[j].there = b.there
          /\ b.recs \subseteq buf[j].recs
          /\ y # z => buf[j].recs = b.recs /\ buf[j].len = b.len + y
      <4> DEFINE c == PartlyAppended(b, n, z, y)
      <4>1. /\ c \in Blob /\ c.there = b.there /\ b.recs \subseteq c.recs
            /\ y # z => c.recs = b.recs /\ c.len = b.len + y
        BY <2>c, <3>4, PartlyTyped, ZenonT(40)
      <4> QED BY <3>4, <4>1
    <3>a. y = z => buf[j].recs = b.recs \cup {[at |-> b.len, put |-> n]}
      <4>1. y = z => buf[j] = Appended(b, n, z)
        BY <3>4 DEF PartlyAppended
      <4>2. Appended(b, n, z).recs = b.recs \cup {[at |-> b.len, put |-> n]}
        BY <2>c, AppendedTyped, Zenon
      <4> QED BY <4>1, <4>2
    <3>b. part = 0 => buf[j].len = b.len
      BY <2>a, <2>c, <3>3, <3>5
    <3>6. buf[j].recs \subseteq b.recs \cup {[at |-> b.len, put |-> n]}
      BY <3>5, <3>a
    <3> QED BY <2>2, <2>b, <3>1, <3>5, <3>6, <3>b
  <2>3. CASE j \notin done /\ j # k
    BY <1>5, <2>3
  <2> QED BY <2>1, <2>2, <2>3
<1>b. buf \in [Kinds -> Blob]
  BY <1>8
<1> HIDE DEF buf
<1>9. /\ q \in Writer /\ q.pc = "idle" /\ q.call = "none" /\ q.held = r.held
      /\ q.shut = r.shut /\ q.closed = r.closed /\ q.sid = r.sid
      /\ q.buf = buf /\ q.raw = r.raw
      /\ q.off = r.off + (IF "data" \in done THEN SdkRecordSize(r.size) ELSE 0)
      /\ q.moff = r.moff + (IF "meta" \in done THEN MetaLine ELSE 0)
  <2> DEFINE a == Advanced(r, done)
             p == [a EXCEPT !.buf = buf]
  <2>1. /\ a \in Writer /\ a.held = r.held /\ a.shut = r.shut /\ a.closed = r.closed
        /\ a.sid = r.sid /\ a.raw = r.raw
        /\ a.off = r.off + (IF "data" \in done THEN SdkRecordSize(r.size) ELSE 0)
        /\ a.moff = r.moff + (IF "meta" \in done THEN MetaLine ELSE 0)
    <3>1. r \in Writer
      BY <1>1
    <3> HIDE DEF done, buf, p
    <3> QED BY <3>1, AdvancedFields, ZenonT(40)
  <2>2. q = Returned(p)
    BY DEF q, p, a
  <2> HIDE DEF a
  <2>3. /\ p \in Writer /\ p.held = a.held /\ p.shut = a.shut /\ p.closed = a.closed
        /\ p.sid = a.sid /\ p.raw = r.raw /\ p.buf = buf
        /\ p.off = a.off /\ p.moff = a.moff
    BY <1>b, <2>1 DEF Writer
  <2> HIDE DEF p, q
  <2> QED BY <2>1, <2>2, <2>3, ReturnedFields
<1> HIDE DEF q
<1>10. Indexed(q.buf)
  <2> SUFFICES ASSUME NEW e \in buf["idx"].recs \ {MagicHeader}, NEW j \in {"data", "meta"}
               PROVE  \E g \in buf[j].recs : g.put = e.put
    BY <1>9 DEF Indexed
  <2>1. j \in Kinds /\ Indexed(r.buf)
    BY <1>1 DEF Kinds, StackOK
  <2>2. CASE e \in r.buf["idx"].recs
    BY <1>1, <1>8, <2>1, <2>2 DEF Indexed, StackOK
  <2>3. CASE e \notin r.buf["idx"].recs
    <3>1. "idx" \notin done
      BY <1>7
    <3>2. k = "idx"
      BY <1>1, <1>8, <2>3, <3>1
    <3>3. e = [at |-> r.buf["idx"].len, put |-> n]
      BY <1>1, <1>8, <2>3, <3>2
    <3>4. [at |-> r.buf[j].len, put |-> n] \in buf[j].recs
      BY <1>7, <1>8, <2>1, <3>2
    <3> QED BY <3>3, <3>4
  <2> QED BY <2>2, <2>3
<1>11. ASSUME <<r.sid, "write">> \notin hurt' PROVE InStep(q)
  <2>1. part = 0
    BY <1>4, <1>6, <1>11
  <2>2. InStep(r)
    BY <1>1, <1>4, <1>11, <2>1 DEF StackOK, Hurt
  <2>3. \A j \in Kinds : MagicHeader \in buf[j].recs
    BY <1>8, <2>2 DEF InStep
  <2>4. /\ r.off = r.buf["data"].len /\ r.moff = r.buf["meta"].len
        /\ r.off \in Nat /\ r.moff \in Nat
    BY <1>1, <2>2 DEF InStep, Writer
  <2>5. buf["data"].len = q.off
    <3>1. "data" \in done => buf["data"].len = r.off + SdkRecordSize(r.size)
      BY <1>1, <1>8, <2>4 DEF SdkEntrySize
    <3>2. "data" \notin done => buf["data"].len = r.off
      BY <1>1, <1>8, <2>1, <2>4
    <3> QED BY <1>9, <2>4, <3>1, <3>2
  <2>6. buf["meta"].len = q.moff
    <3>1. "meta" \in done => buf["meta"].len = r.moff + MetaLine
      BY <1>1, <1>8, <2>4 DEF SdkEntrySize, EntrySize
    <3>2. "meta" \notin done => buf["meta"].len = r.moff
      BY <1>1, <1>8, <2>1, <2>4
    <3> QED BY <1>9, <2>4, <3>1, <3>2
  <2> QED BY <1>9, <2>3, <2>5, <2>6 DEF InStep
<1>12. /\ hurt \subseteq hurt'
       /\ hurt' \subseteq Sids \X {"write", "shut", "retried", "overwritten"}
       /\ faults' \in 0 .. MaxFaults
  BY <1>1, <1>4, FaultTyped DEF IInv, TypesOK
<1>13. /\ \A j \in Kinds : r.buf[j].recs \subseteq q.buf[j].recs
       /\ q.buf["data"].there = r.buf["data"].there
       /\ disk' = Arrived(r.sid, q.buf)
  BY <1>1, <1>4, <1>8, <1>9
<1>14. q.raw <= MaxData
  BY <1>1, <1>9 DEF StackOK
<1> QED BY <1>1, <1>4, <1>9, <1>10, <1>11, <1>12, <1>13, <1>14, WroteStep

(* A put on files that are closed.                                         *)
LEMMA WriteClosedStep ==
  ASSUME IInv, NEW w \in Writers, NEW r, Puttings(w, r), WriteClosed(w, r)
  PROVE  Step(w)
<1> DEFINE q == Returned(r)
<1>1. /\ w \in Living /\ writer[w] \in Writer /\ CallOK(writer[w]) /\ StackOK(writer[w])
      /\ StackOK(r) /\ r.sid \in Uses(w) /\ r \in Writer /\ r.held
  BY Caller DEF WriteClosed, Puttings, Calls
<1>2. /\ q \in Writer /\ q.pc = "idle" /\ q.call = "none" /\ q.held = r.held
      /\ q.shut = r.shut /\ q.closed = r.closed /\ q.sid = r.sid
      /\ q.buf = r.buf /\ q.raw = r.raw /\ q.off = r.off /\ q.moff = r.moff
  BY <1>1, ReturnedFields
<1>3. Becomes(w, q) /\ UNCHANGED <<disk, book, acked, hurt, faults>>
  BY DEF WriteClosed
<1> HIDE DEF q
<1>4. /\ writer'[w] = q /\ \A v \in Writers : v # w => writer'[v] = writer[v]
      /\ writer' \in [Writers -> Writer \cup {Dead}]
  BY <1>2, <1>3, BecomesFields DEF IInv
<1>5. /\ backend' = backend /\ nextId' = nextId /\ nextId \in Nat
      /\ puts \in Nat /\ puts' \in {puts, puts + 1} /\ puts' \in 0 .. MaxPuts
  BY DEF Puttings, Calls, IInv, TypesOK
<1>6. TypesOK(Writer)'
  <2>1. acked \subseteq 1 .. puts'
    BY <1>5 DEF IInv, TypesOK
  <2> QED BY <1>3, <1>4, <1>5, <2>1 DEF IInv, TypesOK
<1>7. CallOK(writer[w])'
  BY <1>2, <1>4 DEF CallOK
<1>8. StackOK(writer[w])'
  <2>1. \A why : Hurt(writer[w].sid, why)' = Hurt(r.sid, why)
    BY <1>2, <1>3, <1>4 DEF Hurt
  <2>2. Indexed(writer[w].buf)' = Indexed(r.buf) /\ InStep(writer[w])' = InStep(r)
    BY <1>2, <1>4 DEF Indexed, InStep
  <2>3. writer'[w].held /\ writer'[w].shut = r.shut /\ writer'[w].raw = r.raw
        /\ writer'[w].sid = r.sid /\ writer'[w].buf = r.buf
    BY <1>1, <1>2, <1>4
  <2>4. disk' = disk /\ backend' = backend /\ nextId' = nextId
    BY <1>3, <1>5
  <2> HIDE DEF q
  <2> QED BY <1>1, <2>1, <2>2, <2>3, <2>4 DEF StackOK
<1>9. Uses(w)' \subseteq Uses(w)
  BY <1>1, <1>2, <1>4 DEF Uses, At
<1>10. WriterStep(w)
  BY <1>1, <1>2, <1>3, <1>4, <1>5, <1>6, <1>7, <1>8, <1>9, DeadOrAlive DEF WriterStep
<1> QED BY <1>1, <1>2, <1>3, <1>4, <1>5, <1>10, QuietStep DEF Quiet, Puttings, Calls

(* A put on files that are nil.                                            *)
LEMMA WritePanicsStep ==
  ASSUME IInv, NEW w \in Writers, NEW r, Calls(w, r), WritePanics(w, r)
  PROVE  Step(w)
<1>1. /\ writer'[w] = Dead /\ \A v \in Writers : v # w => writer'[v] = writer[v]
      /\ writer' \in [Writers -> Writer \cup {Dead}]
      /\ UNCHANGED <<disk, book, acked, hurt, faults>>
  BY BecomesFields DEF IInv, WritePanics
<1>2. /\ backend' = backend /\ nextId' = nextId /\ nextId \in Nat
      /\ puts \in Nat /\ puts' \in {puts, puts + 1} /\ puts' \in 0 .. MaxPuts
      /\ writer[w].pc # "dead"
  BY DEF Calls, IInv, TypesOK
<1>3. TypesOK(Writer)'
  <2>1. acked \subseteq 1 .. puts'
    BY <1>2 DEF IInv, TypesOK
  <2> QED BY <1>1, <1>2, <2>1 DEF IInv, TypesOK
<1>4. WriterStep(w)
  BY <1>1, <1>2, <1>3, DeadOrAlive DEF WriterStep
<1> QED BY <1>1, <1>2, <1>4, QuietStep, DeadOrAlive DEF Quiet

(* Whatever becomes of the writes of a put.                                *)
LEMMA WritesStep ==
  ASSUME IInv, NEW w \in Writers, NEW r, Puttings(w, r),
         r.raw + r.size <= MaxData, Writes(w, r)
  PROVE  Step(w)
BY WriteStep, WriteFailsStep, WriteClosedStep, WritePanicsStep DEF Writes, Puttings
-----------------------------------------------------------------------------
(* Closing a stack.                                                        *)

Closings(w, r) ==
  /\ Calls(w, r) /\ r.pc = "idle"
  /\ Puttings(w, r) \/ (r.call = "close" /\ puts' = puts)
  /\ UNCHANGED <<book, acked>>

(* What PutObject makes of the buffers of the kinds in ks.                 *)
LEMMA UploadedDisk ==
  ASSUME TypesOK(Writer), NEW r \in Writer, r.held => r.sid \in Sids,
         NEW ks \in SUBSET Kinds
  PROVE  /\ Uploaded(r, ks) \in [Sids -> [Kinds -> Blob]]
         /\ \A t \in Sids : t # r.sid => Uploaded(r, ks)[t] = disk[t]
         /\ backend = "file" \/ ~r.held => Uploaded(r, ks) = disk
         /\ backend = "s3" /\ r.held =>
              \A k \in Kinds : Uploaded(r, ks)[r.sid][k] =
                IF k \in ks \ r.shut THEN r.buf[k] ELSE disk[r.sid][k]
<1>1. CASE backend = "s3" /\ r.held
  <2> DEFINE f == [k \in Kinds |-> IF k \in ks \ r.shut THEN r.buf[k] ELSE disk[r.sid][k]]
  <2>1. Uploaded(r, ks) = [disk EXCEPT ![r.sid] = f]
    BY <1>1 DEF Uploaded
  <2>2. disk \in [Sids -> [Kinds -> Blob]] /\ r.sid \in Sids /\ r.buf \in [Kinds -> Blob]
    BY <1>1 DEF TypesOK, Writer
  <2>3. f \in [Kinds -> Blob]
    BY <2>2
  <2>4. \A k \in Kinds : f[k] = IF k \in ks \ r.shut THEN r.buf[k] ELSE disk[r.sid][k]
    OBVIOUS
  <2> HIDE DEF f
  <2> QED BY <1>1, <2>1, <2>2, <2>3, <2>4
<1>2. CASE ~(backend = "s3" /\ r.held)
  BY <1>2 DEF Uploaded, TypesOK
<1> QED BY <1>1, <1>2

(* What a caller that closes its stack knows.                              *)
LEMMA Closer ==
  ASSUME IInv, NEW w \in Writers, NEW r, Closings(w, r)
  PROVE  /\ w \in Living /\ writer[w] \in Writer /\ r \in Writer
         /\ StackOK(writer[w]) /\ StackOK(r)
         /\ r.held => r.sid \in Uses(w) /\ r.sid \in Sids
         /\ r.shut # {} => r.held
         /\ backend' = backend /\ backend \in {"file", "s3"}
         /\ nextId' = nextId /\ nextId \in Nat
         /\ puts' \in {puts, puts + 1} /\ puts' \in 0 .. MaxPuts
         /\ acked' = acked /\ acked \subseteq 1 .. puts' /\ book' = book
<1>1. /\ w \in Living /\ writer[w] \in Writer /\ r \in Writer
      /\ StackOK(writer[w]) /\ StackOK(r)
      /\ r.held => r.sid \in Uses(w)
  BY Caller DEF Closings, Calls
<1>2. r.held => r.sid \in Sids
  BY <1>1 DEF Uses
<1>3. r.shut # {} => r.held
  BY <1>1 DEF StackOK
<1>4. /\ backend' = backend /\ backend \in {"file", "s3"}
      /\ nextId' = nextId /\ nextId \in Nat
      /\ puts' \in {puts, puts + 1} /\ puts' \in 0 .. MaxPuts
      /\ acked' = acked /\ book' = book /\ puts \in Nat /\ acked \subseteq 1 .. puts
  BY DEF Closings, Calls, IInv, TypesOK
<1>5. acked \subseteq 1 .. puts'
  BY <1>4
<1> QED BY <1>1, <1>2, <1>3, <1>4, <1>5

(* Closing publishes data and meta before idx.                             *)
LEMMA UploadedStep ==
  ASSUME IInv, NEW w \in Writers, NEW r, Closings(w, r),
         NEW ks \in SUBSET Kinds, "idx" \in ks => ks = Kinds,
         disk' = Uploaded(r, ks),
         r.shut # {} => <<r.sid, "retried">> \in hurt'
  PROVE  /\ disk' \in [Sids -> [Kinds -> Blob]] /\ DiskStep(w)
         /\ backend = "file" => disk' = disk
         /\ backend = "s3" /\ r.held =>
              /\ \A k \in Kinds \ (r.shut \cup ks) : disk'[r.sid][k] = Nothing
              /\ ks = Kinds /\ r.shut = {} => disk'[r.sid] = r.buf
<1>1. /\ r \in Writer /\ StackOK(r)
      /\ r.held => r.sid \in Uses(w) /\ r.sid \in Sids
      /\ r.shut # {} => r.held
      /\ backend \in {"file", "s3"}
  BY Closer
<1>2. /\ disk' \in [Sids -> [Kinds -> Blob]]
      /\ \A t \in Sids : t # r.sid => disk'[t] = disk[t]
      /\ backend = "file" \/ ~r.held => disk' = disk
      /\ backend = "s3" /\ r.held =>
           \A k \in Kinds : disk'[r.sid][k] =
             IF k \in ks \ r.shut THEN r.buf[k] ELSE disk[r.sid][k]
  BY <1>1, UploadedDisk DEF IInv
<1>3. ASSUME backend = "s3", r.held
      PROVE  /\ \A k \in Kinds \ (r.shut \cup ks) : disk'[r.sid][k] = Nothing
             /\ \A k \in Kinds : disk[r.sid][k].recs \subseteq disk'[r.sid][k].recs
             /\ ks = Kinds /\ r.shut = {} => disk'[r.sid] = r.buf
             /\ r.shut = {} => Indexed(disk'[r.sid])
  <2>1. r.sid \in Sids /\ Indexed(r.buf) /\ r.buf \in [Kinds -> Blob]
        /\ \A k \in Kinds \ r.shut : disk[r.sid][k] = Nothing
    BY <1>1, <1>3 DEF StackOK, Writer
  <2>2. \A k \in Kinds \ (r.shut \cup ks) : disk'[r.sid][k] = Nothing
    BY <1>2, <1>3, <2>1
  <2>3. \A k \in Kinds : disk[r.sid][k].recs \subseteq disk'[r.sid][k].recs
    BY <1>2, <1>3, <2>1, HeadedTyped
  <2>4. ASSUME ks = Kinds, r.shut = {} PROVE disk'[r.sid] = r.buf
    <3>1. \A k \in Kinds : disk'[r.sid][k] = r.buf[k]
      BY <1>2, <1>3, <2>4
    <3>2. disk'[r.sid] \in [Kinds -> Blob]
      BY <1>2, <2>1
    <3> QED BY <2>1, <3>1, <3>2
  <2>5. ASSUME r.shut = {} PROVE Indexed(disk'[r.sid])
    <3>1. CASE "idx" \in ks
      BY <2>1, <2>4, <2>5, <3>1
    <3>2. CASE "idx" \notin ks
      <4>1. disk'[r.sid]["idx"].recs = {}
        BY <2>2, <2>5, <3>2, HeadedTyped DEF Kinds
      <4> QED BY <4>1 DEF Indexed
    <3> QED BY <3>1, <3>2
  <2> QED BY <2>2, <2>3, <2>4, <2>5
<1>4. DiskStep(w)
  <2> SUFFICES ASSUME NEW s \in Sids, disk'[s] # disk[s]
               PROVE  /\ s \in Uses(w) /\ backend = "s3"
                      /\ \A k \in Kinds : disk[s][k].recs \subseteq disk'[s][k].recs
                      /\ ~Hurt(s, "retried")' => Indexed(disk'[s])
    BY DEF DiskStep
  <2>1. s = r.sid /\ backend = "s3" /\ r.held
    BY <1>1, <1>2
  <2> QED BY <1>1, <1>3, <2>1 DEF Hurt
<1> QED BY <1>2, <1>3, <1>4

(* The open stack is closed, for a rotation or for Close.                  *)
LEMMA ShutStep ==
  ASSUME IInv, NEW w \in Writers, NEW r, Closings(w, r), Shut(w, r)
  PROVE  Step(w)
<1> DEFINE left == [r EXCEPT !.held = FALSE, !.shut = {}]
           q == IF r.call = "put" THEN [left EXCEPT !.pc = "resolve"] ELSE Returned(left)
<1>1. /\ w \in Living /\ writer[w] \in Writer /\ r \in Writer
      /\ StackOK(writer[w]) /\ StackOK(r)
      /\ r.held => r.sid \in Uses(w) /\ r.sid \in Sids
      /\ r.shut # {} => r.held
      /\ backend' = backend /\ backend \in {"file", "s3"}
      /\ nextId' = nextId /\ nextId \in Nat
      /\ puts' \in {puts, puts + 1} /\ puts' \in 0 .. MaxPuts
      /\ acked' = acked /\ acked \subseteq 1 .. puts' /\ book' = book
  BY Closer
<1>2. /\ disk' = Uploaded(r, Kinds) /\ Becomes(w, q) /\ faults' = faults
      /\ hurt' = IF r.shut # {} THEN hurt \cup {<<r.sid, "retried">>} ELSE hurt
  BY DEF Shut
<1>3. /\ left \in Writer /\ ~left.held /\ left.shut = {} /\ left.raw = r.raw
      /\ left.call = r.call /\ left.put = r.put /\ left.size = r.size
      /\ left.closed = r.closed
  BY <1>1 DEF Writer
<1> HIDE DEF left
<1>4. /\ q \in Writer /\ ~q.held /\ q.shut = {} /\ q.raw = r.raw
      /\ \/ q.pc = "idle" /\ q.call = "none"
         \/ /\ q.pc = "resolve" /\ q.call = "put" /\ r.call = "put" /\ q.put = r.put
            /\ q.size = r.size /\ q.closed = r.closed
  <2>1. CASE r.call = "put"
    BY <1>3, <2>1 DEF Writer
  <2>2. CASE r.call # "put"
    BY <1>3, <2>2, ReturnedFields
  <2> QED BY <2>1, <2>2
<1> HIDE DEF q
<1>5. /\ writer'[w] = q /\ \A v \in Writers : v # w => writer'[v] = writer[v]
      /\ writer' \in [Writers -> Writer \cup {Dead}]
  BY <1>2, <1>4, BecomesFields DEF IInv
<1>6. r.shut # {} => <<r.sid, "retried">> \in hurt'
  BY <1>2
<1>7. /\ disk' \in [Sids -> [Kinds -> Blob]] /\ DiskStep(w)
      /\ backend = "s3" /\ r.held /\ r.shut = {} => disk'[r.sid] = r.buf
  BY <1>2, <1>6, UploadedStep
<1>8. hurt \subseteq hurt'
      /\ hurt' \subseteq Sids \X {"write", "shut", "retried", "overwritten"}
  BY <1>1, <1>2 DEF IInv, TypesOK
<1>9. TypesOK(Writer)'
  BY <1>1, <1>2, <1>5, <1>7, <1>8 DEF IInv, TypesOK
<1>10. r.call = "put" =>
         /\ r.put \in 1 .. puts' /\ r.put \notin acked' /\ r.size <= MaxData /\ ~r.closed
         /\ \/ writer[w].call = "put" /\ r.put = writer[w].put
            \/ r.put = puts + 1 /\ puts' = puts + 1
  BY <1>1 DEF Closings, Puttings
<1>11. CallOK(writer[w])'
  BY <1>4, <1>5, <1>10 DEF CallOK
<1>12. StackOK(writer[w])'
  BY <1>1, <1>4, <1>5 DEF StackOK
<1>13. Uses(w)' = {}
  BY <1>4, <1>5 DEF Uses, At
<1>14. WriterStep(w)
  BY <1>1, <1>4, <1>5, <1>8, <1>9, <1>10, <1>11, <1>12, <1>13, DeadOrAlive DEF WriterStep
<1>15. BookStep(w)
  BY <1>1 DEF BookStep
<1>16. BufferStep(w)
  BY <1>7 DEF BufferStep, Closings, Calls
<1> QED BY <1>7, <1>14, <1>15, <1>16 DEF Step

(* Closing one of the files fails.                                         *)
LEMMA ShutFailsStep ==
  ASSUME IInv, NEW w \in Writers, NEW r, Closings(w, r), ShutFails(w, r)
  PROVE  Step(w)
<1>1. /\ w \in Living /\ writer[w] \in Writer /\ r \in Writer
      /\ StackOK(writer[w]) /\ StackOK(r)
      /\ r.held /\ r.sid \in Uses(w) /\ r.sid \in Sids
      /\ backend' = backend /\ backend \in {"file", "s3"}
      /\ nextId' = nextId /\ nextId \in Nat
      /\ puts' \in {puts, puts + 1} /\ puts' \in 0 .. MaxPuts
      /\ acked' = acked /\ acked \subseteq 1 .. puts' /\ book' = book
  BY Closer DEF ShutFails
<1>2. ASSUME NEW p \in Writer, p.held, p.shut \in SUBSET Kinds, r.shut \subseteq p.shut,
             p.sid = r.sid, p.buf = r.buf, p.raw = r.raw, p.off = r.off, p.moff = r.moff,
             Becomes(w, Returned(p)),
             p.shut # {} => <<r.sid, "shut">> \in hurt',
             hurt \subseteq hurt',
             hurt' \subseteq Sids \X {"write", "shut", "retried", "overwritten"},
             faults' \in 0 .. MaxFaults,
             disk' \in [Sids -> [Kinds -> Blob]],
             backend = "file" => disk' = disk,
             backend = "s3" => \A k \in Kinds \ p.shut : disk'[r.sid][k] = Nothing
      PROVE  WriterStep(w)
  <2> DEFINE q == Returned(p)
  <2>1. /\ q \in Writer /\ q.pc = "idle" /\ q.call = "none" /\ q.held
        /\ q.shut = p.shut /\ q.sid = r.sid /\ q.buf = r.buf /\ q.raw = r.raw
        /\ q.off = r.off /\ q.moff = r.moff
    BY <1>2, ReturnedFields
  <2>2. Becomes(w, q)
    BY <1>2
  <2> HIDE DEF q
  <2>3. /\ writer'[w] = q /\ \A v \in Writers : v # w => writer'[v] = writer[v]
        /\ writer' \in [Writers -> Writer \cup {Dead}]
    BY <2>1, <2>2, BecomesFields DEF IInv
  <2>4. TypesOK(Writer)'
    BY <1>1, <1>2, <2>3 DEF IInv, TypesOK
  <2>5. CallOK(writer[w])'
    BY <2>1, <2>3 DEF CallOK
  <2>6. StackOK(writer[w])'
    <3>1. /\ <<r.sid, "write">> \notin hurt' => InStep(r)
          /\ Indexed(r.buf)
          /\ backend = "file" => disk[r.sid] = r.buf /\ r.buf["data"].there
          /\ backend = "s3" => r.sid < nextId
          /\ r.raw <= MaxData
      BY <1>1, <1>2 DEF StackOK, Hurt
    <3>2. Indexed(writer[w].buf)' /\ InStep(writer[w])' = InStep(r)
      BY <2>1, <2>3, <3>1 DEF Indexed, InStep
    <3>3. \A why : Hurt(writer[w].sid, why)' <=> <<r.sid, why>> \in hurt'
      BY <2>1, <2>3 DEF Hurt
    <3> QED BY <1>1, <1>2, <2>1, <2>3, <3>1, <3>2, <3>3 DEF StackOK
  <2>7. Uses(w)' \subseteq Uses(w)
    BY <1>1, <2>1, <2>3 DEF Uses, At
  <2> QED BY <1>1, <1>2, <2>1, <2>3, <2>4, <2>5, <2>6, <2>7, DeadOrAlive DEF WriterStep
<1>3. CASE /\ backend = "file" /\ r.shut # {} /\ Becomes(w, Returned(r))
           /\ UNCHANGED <<disk, hurt, faults>>
  <2>1. WriterStep(w)
    <3>1. r.shut # {} => <<r.sid, "shut">> \in hurt'
      BY <1>1, <1>3 DEF StackOK, Hurt
    <3>2. r.shut \in SUBSET Kinds
      BY <1>1 DEF Writer
    <3> QED BY <1>1, <1>2, <1>3, <3>1, <3>2 DEF IInv, TypesOK
  <2>2. DiskStep(w) /\ BookStep(w) /\ BufferStep(w)
    BY <1>1, <1>3 DEF DiskStep, BookStep, BufferStep
  <2> QED BY <2>1, <2>2 DEF Step
<1>4. CASE /\ backend = "file" => r.shut = {}
           /\ Fault
           /\ \E k \in Kinds \ r.shut :
                LET done == Before(ShutOrder, k)
                IN  /\ disk' \in {Uploaded(r, done), Uploaded(r, done \cup {k})}
                    /\ Becomes(w, Returned([r EXCEPT !.shut = @ \cup done \cup {k}]))
                    /\ hurt' = hurt \cup {<<r.sid, "shut">>}
                         \cup (IF r.shut # {} THEN {<<r.sid, "retried">>} ELSE {})
  <2>1. PICK k \in Kinds \ r.shut :
          LET done == Before(ShutOrder, k)
          IN  /\ disk' \in {Uploaded(r, done), Uploaded(r, done \cup {k})}
              /\ Becomes(w, Returned([r EXCEPT !.shut = @ \cup done \cup {k}]))
              /\ hurt' = hurt \cup {<<r.sid, "shut">>}
                   \cup (IF r.shut # {} THEN {<<r.sid, "retried">>} ELSE {})
    BY <1>4
  <2> DEFINE done == Before(ShutOrder, k)
             p == [r EXCEPT !.shut = @ \cup done \cup {k}]
  <2>2. \/ k = "data" /\ done = {}
        \/ k = "meta" /\ done = {"data"}
        \/ k = "idx" /\ done = {"data", "meta"}
    BY BeforeWrite DEF Kinds, ShutOrder, WriteOrder
  <2>3. PICK ks \in {done, done \cup {k}} : disk' = Uploaded(r, ks)
    BY <2>1
  <2>4. ks \in SUBSET Kinds /\ ("idx" \in ks => ks = Kinds) /\ done \in SUBSET Kinds
    BY <2>2, <2>3 DEF Kinds
  <2>5. Becomes(w, Returned(p))
    BY <2>1
  <2> HIDE DEF done
  <2>6. /\ p \in Writer /\ p.held /\ p.shut = r.shut \cup done \cup {k}
        /\ p.sid = r.sid /\ p.buf = r.buf /\ p.raw = r.raw /\ p.off = r.off
        /\ p.moff = r.moff
    <3> DEFINE shut == r.shut \cup done \cup {k}
    <3>1. shut \in SUBSET Kinds
      BY <1>1, <2>4 DEF Writer
    <3>2. p = [r EXCEPT !.shut = shut]
      BY <1>1 DEF Writer
    <3> HIDE DEF shut, p
    <3>3. p \in Writer /\ p.held /\ p.shut = shut
          /\ p.sid = r.sid /\ p.buf = r.buf /\ p.raw = r.raw /\ p.off = r.off
          /\ p.moff = r.moff
      BY <1>1, <3>1, <3>2 DEF Writer
    <3> QED BY <3>3 DEF shut
  <2> HIDE DEF p
  <2>7. /\ hurt \subseteq hurt' /\ <<r.sid, "shut">> \in hurt'
        /\ hurt' \subseteq Sids \X {"write", "shut", "retried", "overwritten"}
        /\ r.shut # {} => <<r.sid, "retried">> \in hurt'
        /\ faults' \in 0 .. MaxFaults
    BY <1>1, <1>4, <2>1, FaultTyped DEF IInv, TypesOK
  <2>8. /\ disk' \in [Sids -> [Kinds -> Blob]] /\ DiskStep(w)
        /\ backend = "file" => disk' = disk
        /\ backend = "s3" =>
             \A j \in Kinds \ (r.shut \cup ks) : disk'[r.sid][j] = Nothing
    BY <1>1, <2>3, <2>4, <2>7, UploadedStep
  <2>9. r.shut \subseteq p.shut /\ ks \subseteq p.shut /\ p.shut \in SUBSET Kinds
    BY <2>3, <2>6 DEF Writer
  <2>10. backend = "s3" => \A j \in Kinds \ p.shut : disk'[r.sid][j] = Nothing
    BY <2>8, <2>9
  <2>11. WriterStep(w)
    BY <1>2, <2>5, <2>6, <2>7, <2>8, <2>9, <2>10
  <2>12. BookStep(w)
    BY <1>1 DEF BookStep
  <2>13. BufferStep(w)
    BY <2>7 DEF BufferStep, Closings, Calls
  <2> QED BY <2>8, <2>11, <2>12, <2>13 DEF Step
<1> QED BY <1>3, <1>4 DEF ShutFails

(* Closing, however it ends.                                               *)
LEMMA ShutsStep ==
  ASSUME IInv, NEW w \in Writers, NEW r, Calls(w, r), r.pc = "idle",
         Puttings(w, r) \/ (r.call = "close" /\ puts' = puts), Shuts(w, r)
  PROVE  Step(w)
BY ShutStep, ShutFailsStep DEF Shuts, Closings

-----------------------------------------------------------------------------
(* The calls.                                                              *)

(* Put, up to its rotation or its end.                                     *)
LEMMA PutStep ==
  ASSUME IInv, NEW w \in Writers, NEW n \in Sizes, Put(w, n) PROVE Step(w)
<1> DEFINE o == writer[w]
           r == [o EXCEPT !.call = "put", !.size = n, !.put = puts + 1]
<1>1. /\ o \in Writer /\ o.pc = "idle" /\ n \in Nat /\ puts \in Nat /\ MaxPuts \in Nat
      /\ acked \subseteq 1 .. puts /\ o.raw \in Nat /\ MaxData \in Nat
  BY DeadOrAlive, SizesAssumption, BoundsAssumption
     DEF Put, At, IInv, TypesOK, Writer
<1>2. /\ r \in Writer /\ r.pc = "idle" /\ r.call = "put" /\ r.size = n
      /\ r.put = puts + 1 /\ r.held = o.held /\ r.shut = o.shut /\ r.buf = o.buf
      /\ r.sid = o.sid /\ r.off = o.off /\ r.moff = o.moff /\ r.raw = o.raw
      /\ r.closed = o.closed
  <2> DEFINE m == puts + 1
  <2>1. m \in Nat /\ r = [o EXCEPT !.call = "put", !.size = n, !.put = m]
    BY <1>1
  <2> HIDE DEF m, o, r
  <2>2. /\ r \in Writer /\ r.pc = "idle" /\ r.call = "put" /\ r.size = n
        /\ r.put = m /\ r.held = o.held /\ r.shut = o.shut /\ r.buf = o.buf
        /\ r.sid = o.sid /\ r.off = o.off /\ r.moff = o.moff /\ r.raw = o.raw
        /\ r.closed = o.closed
    BY <1>1, <2>1 DEF Writer
  <2> QED BY <2>2 DEF m
<1>3. /\ ~r.closed /\ n <= MaxData /\ puts < MaxPuts /\ puts' = puts + 1
      /\ IF NeedsRotation(r, n) THEN Shuts(w, r) ELSE Writes(w, r)
      /\ UNCHANGED <<backend, nextId>>
  BY DEF Put
<1> HIDE DEF r
<1>4. Calls(w, r)
  BY <1>1, <1>2, <1>3 DEF Calls
<1>5. Puttings(w, r)
  BY <1>1, <1>2, <1>3, <1>4 DEF Puttings
<1>6. ~NeedsRotation(r, n) => r.raw + r.size <= MaxData
  BY <1>1, <1>2 DEF NeedsRotation
<1> QED BY <1>2, <1>3, <1>4, <1>5, <1>6, WritesStep, ShutsStep

(* The rest of a put that has rotated.                                     *)
LEMMA PutGoesOnStep ==
  ASSUME IInv, NEW w \in Writers, PutGoesOn(w) PROVE Step(w)
<1> DEFINE r == writer[w]
<1>1. /\ r \in Writer /\ r.pc = "write" /\ CallOK(r) /\ puts \in 0 .. MaxPuts
      /\ r.size \in Nat /\ MaxData \in Nat
      /\ Writes(w, r) /\ UNCHANGED <<backend, puts, nextId>>
  BY DeadOrAlive, SizesAssumption DEF PutGoesOn, At, IInv, Living, TypesOK, Writer
<1>2. /\ r.call = "put" /\ r.put \in 1 .. puts /\ r.put \notin acked
      /\ r.size <= MaxData /\ ~r.closed /\ r.raw = 0
  BY <1>1 DEF CallOK, Writer
<1>3. Calls(w, r)
  BY <1>1 DEF Calls
<1>4. Puttings(w, r)
  BY <1>1, <1>2, <1>3 DEF Puttings
<1>5. r.raw + r.size <= MaxData
  BY <1>1, <1>2
<1> QED BY <1>1, <1>4, <1>5, WritesStep

(* Close.                                                                  *)
LEMMA CloseStep ==
  ASSUME IInv, NEW w \in Writers, Close(w) PROVE Step(w)
<1> DEFINE o == writer[w]
           r == [o EXCEPT !.call = "close", !.closed = TRUE]
<1>1. /\ o \in Writer /\ o.pc = "idle" /\ puts \in 0 .. MaxPuts
      /\ Shuts(w, r) /\ UNCHANGED <<backend, puts, nextId>>
  BY DeadOrAlive DEF Close, At, IInv, TypesOK
<1>2. /\ r \in Writer /\ r.pc = "idle" /\ r.call = "close"
      /\ r.held = o.held /\ r.shut = o.shut /\ r.buf = o.buf
      /\ r.sid = o.sid /\ r.off = o.off /\ r.moff = o.moff /\ r.raw = o.raw
  BY <1>1 DEF Writer
<1> HIDE DEF r
<1>3. Calls(w, r)
  BY <1>1, <1>2 DEF Calls
<1> QED BY <1>1, <1>2, <1>3, ShutsStep

(* Every step is one of some writer.                                       *)
LEMMA NextStep ==
  ASSUME IInv, Next PROVE \E w \in Writers : Step(w)
<1>1. PICK w \in Writers :
        \/ Resolve(w) \/ ResolveFails(w)
        \/ Create(w) \/ CreateFails(w) \/ HeaderFails(w)
        \/ \E n \in Sizes : Put(w, n)
        \/ PutGoesOn(w)
        \/ Close(w)
        \/ Die(w)
  BY DEF Next
<1>2. Step(w)
  BY <1>1, ResolveStep, ResolveFailsStep, CreateStep, CreateFailsStep, HeaderFailsStep,
     PutStep, PutGoesOnStep, CloseStep, DieStep
<1> QED BY <1>2

(* Nothing has been opened, written or acknowledged at first.              *)
LEMMA InitIInv == Init => IInv
<1> SUFFICES ASSUME Init PROVE IInv
  OBVIOUS
<1>1. Fresh \in Writer /\ Fresh.pc = "new" /\ Fresh.call = "none" /\ ~Fresh.held
      /\ Fresh.shut = {} /\ Fresh.raw = 0
  BY HeadedTyped DEF Fresh, Writer
<1>2. /\ backend \in {"file", "s3"}
      /\ disk = [s \in Sids |-> [k \in Kinds |-> Nothing]]
      /\ writer = [w \in Writers |-> Fresh]
      /\ puts = 0 /\ acked = {} /\ hurt = {} /\ nextId = 1 /\ faults = 0
  BY DEF Init, InitWith
<1>3. book \in [Puts -> Booked]
  BY DEF Init, InitWith, Booked
<1>4. TypesOK(Writer)
  BY <1>1, <1>2, <1>3, HeadedTyped, BoundsAssumption DEF TypesOK
<1>5. \A w \in Writers : writer[w] = Fresh
  BY <1>2
<1>6. \A w \in Living : CallOK(writer[w]) /\ StackOK(writer[w])
  BY <1>1, <1>5, SizesAssumption DEF Living, CallOK, StackOK
<1>7. Apart
  BY <1>1, <1>5 DEF Apart, Living, Uses, At
<1>8. DiskOK /\ BookOK
  BY <1>2 DEF DiskOK, BookOK
<1>9. IndexAfterData /\ AckedKept
  <2>1. \A s \in Sids : disk[s]["idx"].recs = {}
    BY <1>2, HeadedTyped DEF Kinds
  <2> QED BY <1>2, <2>1 DEF IndexAfterData, IndexedDataThere, AckedKept
<1> QED BY <1>4, <1>6, <1>7, <1>8, <1>9 DEF IInv

(* A stuttering step keeps the invariant.                                  *)
LEMMA StutterIInv ==
  ASSUME IInv, UNCHANGED vars PROVE IInv'
<1>1. UNCHANGED <<backend, disk, writer, book, puts, acked, hurt, nextId, faults>>
  BY DEF vars
<1>2. TypesOK(Writer)'
  BY <1>1 DEF IInv, TypesOK
<1>3. (\A w \in Living : CallOK(writer[w]) /\ StackOK(writer[w]))'
  BY <1>1 DEF IInv, Living, At, CallOK, StackOK, InStep, Indexed, Hurt
<1>4. Apart' /\ DiskOK' /\ BookOK'
  BY <1>1 DEF IInv, Apart, Uses, Living, At, DiskOK, BookOK
<1>5. IndexAfterData'
  BY <1>1 DEF IInv, IndexAfterData, IndexedDataThere, Hurt
<1>6. AckedKept'
  <2>1. AckedKept
    BY DEF IInv
  <2>2. \A n \in acked : (Published(n) => Published(n)') /\ (Buffered(n) => Buffered(n)')
    BY <1>1 DEF Published, Buffered, Holds
  <2> QED BY <1>1, <2>1, <2>2 DEF AckedKept, At, Hurt
<1> QED BY <1>2, <1>3, <1>4, <1>5, <1>6 DEF IInv

-----------------------------------------------------------------------------
(* The invariant holds in every behaviour.                                 *)
THEOREM SpecIInv == Spec => []IInv
<1>1. Init => IInv
  BY InitIInv
<1>2. IInv /\ [Next]_vars => IInv'
  BY NextStep, StepKeeps, StutterIInv
<1> QED BY <1>1, <1>2, PTL DEF Spec

(* The state has its type in every behaviour: a closed file among those a  *)
(* writer holds is the result of a failed rotation or Close, and no stack  *)
(* gets more than max_data_bytes of payload.                               *)
THEOREM SpecTypeOK == Spec => []TypeOK
<1>1. IInv => TypeOK
  <2> SUFFICES ASSUME IInv PROVE TypeOK
    OBVIOUS
  <2>1. \A w \in {v \in Writers : ~At(v, "dead")} : CallOK(writer[w]) /\ StackOK(writer[w])
    BY DEF IInv, Living
  <2> QED BY <2>1 DEF TypeOK, IInv, CallOK, StackOK
<1> QED BY <1>1, SpecIInv, PTL

(* An index never lists a record without payload or meta line, but for the *)
(* stacks whose closing was tried again on S3.                             *)
THEOREM SpecIndexAfterData == Spec => []IndexAfterData
<1>1. IInv => IndexAfterData
  BY DEF IInv
<1> QED BY <1>1, SpecIInv, PTL

(* What a put acknowledged stays readable at its offsets, or in buffers    *)
(* that Close still publishes, but for a process that dies and for stacks  *)
(* where a write or a PutObject failed.                                    *)
THEOREM SpecAckedKept == Spec => []AckedKept
<1>1. IInv => AckedKept
  BY DEF IInv
<1> QED BY <1>1, SpecIInv, PTL

(* No record ever leaves the directory or bucket, nor does one move: what  *)
(* is published once stays so, whichever writers, failures and retries     *)
(* follow.                                                                 *)
THEOREM SpecNothingRemoved ==
  Spec => [][\A s \in Sids, k \in Kinds : disk[s][k].recs \subseteq disk'[s][k].recs]_vars
<1> DEFINE Grows == \A s \in Sids, k \in Kinds : disk[s][k].recs \subseteq disk'[s][k].recs
<1>1. IInv /\ [Next]_vars => [Grows]_vars
  <2> SUFFICES ASSUME IInv, Next PROVE Grows
    OBVIOUS
  <2>1. PICK w \in Writers : Step(w)
    BY NextStep
  <2> QED BY <2>1 DEF Step, DiskStep
<1> QED BY <1>1, SpecIInv, PTL DEF Spec
=============================================================================
