----------------------------- MODULE BstProofs -----------------------------
(***************************************************************************)
(* TypeOK, LSComplete, StatRight and SourcesKept hold for any clients,     *)
(* stacks, records, locations and failures.                                *)
(***************************************************************************)
EXTENDS Bst, FiniteSetTheorems, TLAPS

Typed ==
  /\ phase \in [Sids -> {"free", "open", "readable", "lost"}]
  /\ contents \in [Sids -> SUBSET Items]
  /\ \A s \in Sids : IsFiniteSet(contents[s])
  /\ sources \in [Sids -> [there : BOOLEAN, locations : SUBSET Locations]]
  /\ net \subseteq Request
  /\ client \in [Clients -> Client]
  /\ known \in [Sids -> [Locations -> {"in", "out", "?"}]]
  /\ runs \in 0 .. MaxRuns

(* Where a command can be. *)
AtPlace(r) ==
  /\ r.cmd = "ls" => r.pc \in {"list", "show", "ok", "exit", "panic"}
  /\ r.cmd = "stat" => r.pc \in {"list", "ok", "exit", "panic"}
  /\ r.cmd = "get" => r.pc \in {"fetch", "ok", "exit", "panic"}
  /\ r.pc = "call" => r.cmd = "bind" /\ r.call \in Request

(* An LS has listed the due stacks it has passed, and shown those no       *)
(* longer on its list; what it lists and shows is readable.                *)
LSOK(r, readable, items) ==
  r.cmd = "ls" =>
    /\ r.due \cup r.todo \subseteq readable
    /\ \A line \in r.lines : line[1] \in readable /\ line[2] \in items[line[1]]
    /\ r.pc = "list" => \A s \in r.due : s <= r.at => s \in r.todo
    /\ r.pc = "show" => \A s \in r.due \ r.todo : {s} \X items[s] \subseteq r.lines
    /\ r.pc = "ok" => \A s \in r.due : {s} \X items[s] \subseteq r.lines

(* A Get of a record that was readable finds it. *)
GetOK(r, readable, items) ==
  r.cmd = "get" /\ r.due # {} =>
    /\ \E s \in readable : r.ask \cap ({s} \X items[s]) # {}
    /\ r.failed = {} => r.pc # "exit" /\ (r.pc = "ok" => r.lines = r.ask)

(* A Stat has a row of every due stack it has passed and could read.       *)
StatOK(r, readable, items) ==
  r.cmd = "stat" =>
    /\ r.due \subseteq readable
    /\ \A row \in r.rows : row[1] \in readable /\ row[2] = FullSize(items[row[1]])
    /\ r.pc = "list" => \A s \in r.due \ r.failed :
                         s <= r.at => \E row \in r.rows : row[1] = s
    /\ r.pc = "ok" => \A s \in r.due \ r.failed : \E row \in r.rows : row[1] = s

CommandOK(r, readable, items) ==
  /\ AtPlace(r) /\ LSOK(r, readable, items) /\ GetOK(r, readable, items)
  /\ StatOK(r, readable, items)

CommandsOK == \A c \in Clients : CommandOK(client[c], Readable, contents)

(* The request q has had its effect on the documents. *)
Done(q, documents) ==
  IF q.kind = "bind"
    THEN documents[q.s].there /\ q.l \in documents[q.s].locations
    ELSE q.l \notin documents[q.s].locations

(* Nothing on its way can undo what a waiting client has asked for, if it  *)
(* is clean, and once its request is carried out it stays so.              *)
CallsOK ==
  \A c \in Clients :
    client[c].pc = "call" /\ client[c].clean =>
      /\ \A q \in net : ~Opposite(q, client[c].call)
      /\ client[c].call \notin net => Done(client[c].call, sources)

(* Nothing on its way can undo what is known. *)
KnownOK ==
  \A s \in Sids, l \in Locations :
    /\ known[s][l] = "in" =>
         /\ sources[s].there /\ l \in sources[s].locations
         /\ \A q \in net : ~(q.kind = "unbind" /\ q.s = s /\ q.l = l)
    /\ known[s][l] = "out" =>
         /\ l \notin sources[s].locations
         /\ \A q \in net : ~(q.kind = "bind" /\ q.s = s /\ q.l = l)

(* The Controller has counted every stack there is. *)
CountedOK ==
  /\ nextId \in Nat
  /\ \A s \in Sids : phase[s] # "free" => s < nextId
  /\ faults \in 0 .. MaxFaults

IInv == Typed /\ CountedOK /\ CommandsOK /\ CallsOK /\ KnownOK

-----------------------------------------------------------------------------
(* Sums of finitely many records. *)

(* Among the subsets of a finite set there is a smallest one of any kind:  *)
(* what induction over finite sets comes down to.                          *)
LEMMA SmallestSubset ==
  ASSUME NEW S, IsFiniteSet(S), NEW B \in SUBSET (SUBSET S), B # {}
  PROVE  \E s \in B : \A t \in B : t \subseteq s => t = s
<1>1. IsWellFoundedOn(StrictSubsetOrdering(S), FiniteSubsetsOf(S))
  BY FS_StrictSubsetOrderingWellFounded
<1>2. FiniteSubsetsOf(S) = SUBSET S
  BY FS_FiniteSubsetsOfFinite
<1>3. \E s \in B : \A t \in B : ~(<<t, s>> \in StrictSubsetOrdering(S))
  BY <1>1, <1>2, WFMin
<1> QED BY <1>3 DEF StrictSubsetOrdering

(* Sum takes one record after the other off the set; Partial sums are what *)
(* is left to it of each subset (bs_opendal_reader.rs:188-194).            *)
Pick(s) == CHOOSE x \in s : TRUE
Rest(s) == s \ {Pick(s)}
Plus(g, s) == IF s = {} THEN 0 ELSE Pick(s)[2] + g[Rest(s)]
Partial(g, S) == g = [s \in SUBSET S |-> Plus(g, s)]

(* What Sum is, in terms of partial sums (FiniteSetsExt!MapThenSumSet).    *)
LEMMA SumPartial ==
  ASSUME NEW S
  PROVE  Sum(S) = (CHOOSE g : Partial(g, S))[S]
BY DEF Sum, MapThenSumSet, MapThenFoldSet, Partial, Plus, Rest, Pick

(* Taking one off leaves a smaller set.                                    *)
LEMMA RestSmaller ==
  ASSUME NEW S, NEW s \in SUBSET S, s # {}
  PROVE  /\ Rest(s) \in SUBSET S /\ Rest(s) \subseteq s /\ Rest(s) # s
         /\ Pick(s) \in S /\ Pick(s) \in s
BY DEF Rest, Pick

(* Partial sums of a set and of a larger one agree.                        *)
LEMMA PartialUnique ==
  ASSUME NEW S, IsFiniteSet(S), NEW T \in SUBSET S, NEW g, NEW h,
         Partial(g, S), Partial(h, T)
  PROVE  \A s \in SUBSET T : g[s] = h[s]
<1> DEFINE B == {s \in SUBSET T : g[s] # h[s]}
<1> SUFFICES ASSUME B # {} PROVE FALSE
  OBVIOUS
<1>1. IsFiniteSet(T) /\ B \in SUBSET (SUBSET T)
  BY FS_Subset
<1> HIDE DEF B
<1>2. PICK s \in B : \A t \in B : t \subseteq s => t = s
  BY <1>1, SmallestSubset
<1>3. s \in SUBSET T /\ s \in SUBSET S
  BY <1>1
<1>4. g[s] = Plus(g, s) /\ h[s] = Plus(h, s)
  BY <1>3 DEF Partial
<1>5. CASE s = {}
  BY <1>2, <1>4, <1>5 DEF Plus, B
<1>6. CASE s # {}
  <2>1. Rest(s) \in SUBSET T /\ Rest(s) \notin B
    BY <1>2, <1>3, <1>6, RestSmaller
  <2>2. g[Rest(s)] = h[Rest(s)]
    BY <2>1 DEF B
  <2> QED BY <1>2, <1>4, <1>6, <2>2 DEF Plus, B
<1> QED BY <1>5, <1>6

(* There are partial sums, and they are numbers.                           *)
LEMMA PartialExists ==
  ASSUME NEW S, IsFiniteSet(S), \A x \in S : x[2] \in Nat
  PROVE  \E g \in [SUBSET S -> Nat] : Partial(g, S)
<1> DEFINE B == {T \in SUBSET S : ~\E g \in [SUBSET T -> Nat] : Partial(g, T)}
<1> SUFFICES ASSUME B # {} PROVE FALSE
  OBVIOUS
<1>1. B \in SUBSET (SUBSET S)
  OBVIOUS
<1> HIDE DEF B
<1>2. PICK T \in B : \A U \in B : U \subseteq T => U = T
  BY <1>1, SmallestSubset
<1>3. T \in SUBSET S /\ IsFiniteSet(T)
  BY <1>1, FS_Subset
<1> DEFINE G(U) == CHOOSE g \in [SUBSET U -> Nat] : Partial(g, U)
           sum(s) == IF s = {} THEN 0 ELSE Pick(s)[2] + G(Rest(s))[Rest(s)]
           g == [s \in SUBSET T |-> sum(s)]
<1>4. ASSUME NEW U \in SUBSET T, U # T
      PROVE  G(U) \in [SUBSET U -> Nat] /\ Partial(G(U), U)
  <2>1. U \notin B /\ U \in SUBSET S
    BY <1>2, <1>3, <1>4
  <2>2. \E h \in [SUBSET U -> Nat] : Partial(h, U)
    BY <2>1 DEF B
  <2> QED BY <2>2
<1> HIDE DEF G
<1>5. ASSUME NEW s \in SUBSET T, s # {}
      PROVE  /\ Rest(s) \in SUBSET T /\ Rest(s) # T
             /\ Pick(s)[2] \in Nat
             /\ G(Rest(s)) \in [SUBSET Rest(s) -> Nat]
             /\ Partial(G(Rest(s)), Rest(s))
  <2>1. Rest(s) \subseteq s /\ Rest(s) # s /\ Pick(s) \in s
    BY <1>5, RestSmaller
  <2>2. Rest(s) \in SUBSET T /\ Rest(s) # T /\ Pick(s) \in S
    BY <1>3, <1>5, <2>1
  <2> QED BY <1>4, <2>2
<1>6. ASSUME NEW s \in SUBSET T PROVE sum(s) \in Nat
  <2>1. CASE s = {}
    BY <2>1
  <2>2. CASE s # {}
    <3>1. Pick(s)[2] \in Nat /\ G(Rest(s)) \in [SUBSET Rest(s) -> Nat]
      BY <1>5, <2>2
    <3>2. G(Rest(s))[Rest(s)] \in Nat
      BY <3>1
    <3> QED BY <2>2, <3>1, <3>2
  <2> QED BY <2>1, <2>2
<1>7. ASSUME NEW U \in SUBSET T, U # T PROVE sum(U) = G(U)[U]
  <2>1. G(U)[U] = Plus(G(U), U)
    BY <1>4, <1>7 DEF Partial
  <2>2. CASE U = {}
    BY <2>1, <2>2 DEF Plus
  <2>3. CASE U # {}
    <3>1. /\ Rest(U) \in SUBSET U /\ Partial(G(Rest(U)), Rest(U))
          /\ Partial(G(U), U) /\ IsFiniteSet(U)
      BY <1>3, <1>4, <1>5, <1>7, <2>3, RestSmaller, FS_Subset
    <3>2. G(U)[Rest(U)] = G(Rest(U))[Rest(U)]
      BY <3>1, PartialUnique
    <3> QED BY <2>1, <2>3, <3>2 DEF Plus
  <2> QED BY <2>2, <2>3
<1>8. \A s \in SUBSET T : sum(s) = Plus(g, s)
  <2> SUFFICES ASSUME NEW s \in SUBSET T, s # {} PROVE sum(s) = Plus(g, s)
    BY DEF Plus
  <2>1. g[Rest(s)] = sum(Rest(s)) /\ sum(Rest(s)) = G(Rest(s))[Rest(s)]
    BY <1>5, <1>7
  <2> QED BY <2>1 DEF Plus
<1>9. g \in [SUBSET T -> Nat] /\ Partial(g, T)
  <2>1. g \in [SUBSET T -> Nat]
    BY <1>6
  <2>2. g = [s \in SUBSET T |-> Plus(g, s)]
    BY <1>8
  <2> QED BY <2>1, <2>2 DEF Partial
<1> QED BY <1>2, <1>9 DEF B

(* The sizes of finitely many records have a sum                           *)
(* (bs_opendal_reader.rs:188-194).                                         *)
LEMMA SumNat ==
  ASSUME NEW S, IsFiniteSet(S), \A x \in S : x[2] \in Nat
  PROVE  Sum(S) \in Nat
<1>1. PICK g \in [SUBSET S -> Nat] : Partial(g, S)
  BY PartialExists
<1> DEFINE h == CHOOSE f : Partial(f, S)
<1>2. Partial(h, S)
  BY <1>1
<1> HIDE DEF h
<1>3. h[S] = g[S]
  BY <1>1, <1>2, PartialUnique
<1> QED BY <1>1, <1>3, SumPartial DEF h

(* What list_al shows is a u32, and the sum of the sizes as long as that   *)
(* is one (bs_opendal_reader.rs:188-194).                                  *)
LEMMA FullSizeOK ==
  ASSUME Typed, NEW s \in Sids
  PROVE  /\ FullSize(contents[s]) \in 0 .. Span - 1
         /\ Sum(contents[s]) < Span => FullSize(contents[s]) = Sum(contents[s])
<1>1. IsFiniteSet(contents[s]) /\ \A x \in contents[s] : x[2] \in Nat
  <2>1. IsFiniteSet(contents[s]) /\ contents[s] \subseteq Ids \X Sizes
    BY DEF Typed, Items
  <2>2. \A x \in Ids \X Sizes : x[2] \in Nat
    <3>1. Sizes \subseteq Nat
      BY SpanAssumption
    <3> QED BY <3>1
  <2> QED BY <2>1, <2>2
<1>2. Sum(contents[s]) \in Nat
  BY <1>1, SumNat
<1>3. ASSUME NEW n \in Nat, NEW m \in Nat \ {0}
      PROVE  n % m \in 0 .. m - 1 /\ (n < m => n % m = n)
  OBVIOUS
<1>4. FullSize(contents[s]) = Sum(contents[s]) % Span
  BY DEF FullSize
<1> QED BY <1>2, <1>3, <1>4, SpanAssumption

-----------------------------------------------------------------------------
(* Typed. *)

(* A step of a client concerns no other (main.rs:61-199).                  *)
LEMMA BecomesAlone ==
  ASSUME Typed, NEW c \in Clients, NEW r, Becomes(c, r)
  PROVE  /\ client'[c] = r
         /\ \A d \in Clients : d # c => client'[d] = client[d]
         /\ r \in Client => client' \in [Clients -> Client]
BY DEF Typed, Becomes

(* A client has the fields of a process.                                   *)
LEMMA AtClient ==
  ASSUME Typed, NEW c \in Clients
  PROVE  client[c] \in Client
BY DEF Typed

(* A new process has done nothing yet.                                     *)
LEMMA NewShape == New \in Client
BY BoundsAssumption DEF New, Client, Sids

(* The Controller changes one stack's document at most
   (server.rs:81-135).                                                     *)
LEMMA AppliedTyped ==
  ASSUME Typed, NEW q \in net
  PROVE  Applied(q) \in [Sids -> [there : BOOLEAN, locations : SUBSET Locations]]
<1>1. /\ sources \in [Sids -> [there : BOOLEAN, locations : SUBSET Locations]]
      /\ q.s \in Sids /\ q.l \in Locations
  BY DEF Typed, Request
<1>2. /\ sources[q.s].locations \cup {q.l} \in SUBSET Locations
      /\ sources[q.s].locations \ {q.l} \in SUBSET Locations
  BY <1>1
<1>3. [sources EXCEPT ![q.s].locations = @ \ {q.l}]
        \in [Sids -> [there : BOOLEAN, locations : SUBSET Locations]]
  BY <1>1, <1>2
<1>4. [sources EXCEPT ![q.s] = [there |-> TRUE, locations |-> @.locations \cup {q.l}]]
        \in [Sids -> [there : BOOLEAN, locations : SUBSET Locations]]
  BY <1>1, <1>2
<1> QED BY <1>3, <1>4 DEF Applied, Registered

(* The steps of a command that only reads the bucket (main.rs:86-175).     *)
Reads(c) ==
  \/ ListNext(c) \/ StatNext(c) \/ StatOverflows(c)
  \/ ListEnds(c) \/ ListFails(c)
  \/ Show(c) \/ ShowFails(c) \/ ShowEnds(c)
  \/ Fetch(c) \/ FetchFails(c)

Starts(c) ==
  \/ \E cmd \in {"ls", "stat"}, path \in {"s3", "other"} : RunReader(c, cmd, path)
  \/ \E s \in Sids, n \in Items, path \in {"s3", "other"} : RunGet(c, s, n, path)

(* Each further step of ls, stat and get changes only the client.          *)
LEMMA ReadsShape ==
  ASSUME Typed, NEW c \in Clients, Reads(c)
  PROVE  /\ client' \in [Clients -> Client]
         /\ OnlyReads /\ runs' = runs
<1> DEFINE r == client[c]
<1>0. /\ r \in Client
      /\ \A q : Becomes(c, q) /\ q \in Client => client' \in [Clients -> Client]
      /\ \A pc \in {"ok", "exit", "panic", "show"} : [r EXCEPT !.pc = pc] \in Client
  <2>1. r \in Client
    BY AtClient
  <2>2. \A pc \in {"ok", "exit", "panic", "show"} : [r EXCEPT !.pc = pc] \in Client
    BY <2>1 DEF Client
  <2> QED BY <2>1, <2>2, BecomesAlone
<1>1. CASE ListNext(c)
  <2>1. r.at + 1 \in 0 .. MaxSid
    BY <1>0, <1>1, BoundsAssumption DEF ListNext, Client
  <2>2. [r EXCEPT !.at = r.at + 1, !.todo = @ \cup ({r.at + 1} \cap Readable)] \in Client
    BY <1>0, <2>1, ZenonT(40) DEF Client, Readable
  <2> QED BY <1>0, <1>1, <2>2 DEF ListNext, OnlyReads
<1>2. CASE StatNext(c)
  <2> DEFINE s == r.at + 1
  <2>1. s \in 0 .. MaxSid /\ s \in Sids
    BY <1>0, <1>2, BoundsAssumption DEF StatNext, Client, Sids
  <2>2. FullSize(contents[s]) \in (0 .. Span - 1)
    BY <2>1, FullSizeOK
  <2> DEFINE none == [r EXCEPT !.at = s]
             rows == r.rows \cup {<<s, FullSize(contents[s])>>}
             row == [r EXCEPT !.at = s, !.rows = rows]
  <2>3. /\ none \in Client
        /\ rows \in SUBSET (Sids \X (0 .. Span - 1))
    <3>1. r.rows \in SUBSET (Sids \X (0 .. Span - 1))
      BY <1>0 DEF Client
    <3>2. rows \in SUBSET (Sids \X (0 .. Span - 1))
      BY <2>1, <2>2, <3>1
    <3> HIDE DEF r, s
    <3>3. none \in Client
      BY <1>0, <2>1, SMTT(30) DEF Client
    <3> QED BY <3>2, <3>3
  <2>4. [none EXCEPT !.failed = @ \cup {s}] \in Client
    <3> HIDE DEF none
    <3> QED BY <2>1, <2>3 DEF Client
  <2>5. row \in Client
    <3>1. rows \in SUBSET (Sids \X (0 .. Span - 1))
      BY <2>3
    <3> HIDE DEF rows
    <3> QED BY <1>0, <2>1, <3>1, ZenonT(40) DEF Client
  <2>6. OnlyReads /\ runs' = runs
    BY <1>2 DEF StatNext, OnlyReads
  <2>7. \/ Becomes(c, row) \/ Becomes(c, none)
        \/ Becomes(c, [none EXCEPT !.failed = @ \cup {s}])
    BY <1>2 DEF StatNext
  <2> HIDE DEF row, none
  <2> QED BY <1>0, <2>3, <2>4, <2>5, <2>6, <2>7
<1>3. CASE StatOverflows(c) \/ ListEnds(c) \/ ListFails(c) \/ ShowEnds(c)
  BY <1>0, <1>3 DEF StatOverflows, ListEnds, ListFails, ShowEnds, Goes, OnlyReads
<1>4. CASE Show(c) \/ ShowFails(c)
  <2>1. ASSUME NEW s \in First(r.todo)
        PROVE  /\ [r EXCEPT !.todo = @ \ {s}, !.lines = @ \cup Lines(s)] \in Client
               /\ [r EXCEPT !.pc = "exit"] \in Client
    <3>1. s \in Sids /\ Lines(s) \subseteq Sids \X Items
      BY <1>0, <2>1 DEF First, Client, Lines, Typed
    <3> QED BY <1>0, <3>1, ZenonT(40) DEF Client
  <2> QED BY <1>0, <1>4, <2>1 DEF Show, ShowFails, NotListed, OnlyReads
<1>5. CASE Fetch(c)
  <2>1. [r EXCEPT !.pc = "ok", !.lines = r.ask] \in Client
    BY <1>0, ZenonT(40) DEF Client
  <2> QED BY <1>0, <1>5, <2>1 DEF Fetch, Goes, OnlyReads
<1>6. CASE FetchFails(c)
  <2>1. {a[1] : a \in r.ask} \subseteq Sids
    BY <1>0 DEF Client
  <2>2. ASSUME NEW pc \in {"exit", "ok"}, NEW ids \in SUBSET Sids
        PROVE  [r EXCEPT !.pc = pc, !.failed = ids] \in Client
    <3>1. r \in Client
      BY <1>0
    <3> HIDE DEF r
    <3>2. [r EXCEPT !.failed = ids] \in Client
      BY <3>1 DEF Client
    <3> QED BY <3>1, <3>2 DEF Client
  <2> QED BY <1>0, <1>6, <2>1, <2>2 DEF FetchFails, OnlyReads
<1> QED BY <1>1, <1>2, <1>3, <1>4, <1>5, <1>6 DEF Reads

(* Starting a command that reads changes the client and counts the run.    *)
LEMMA StartsShape ==
  ASSUME Typed, NEW c \in Clients, Starts(c)
  PROVE  /\ client' \in [Clients -> Client]
         /\ OnlyReads /\ runs' \in 0 .. MaxRuns
<1>0. Readable \subseteq Sids
  BY DEF Readable
<1>1. ASSUME NEW cmd \in {"ls", "stat"}, NEW path, RunReader(c, cmd, path)
      PROVE  client' \in [Clients -> Client] /\ OnlyReads /\ runs' \in 0 .. MaxRuns
  <2> DEFINE pc == IF Opened(path) THEN "list" ELSE "panic"
             r == [New EXCEPT !.cmd = cmd, !.pc = pc, !.due = Readable]
  <2>1. Becomes(c, r) /\ OnlyReads /\ runs' \in 0 .. MaxRuns /\ pc \in {"list", "panic"}
    BY <1>1, BoundsAssumption DEF RunReader, Run, Typed
  <2> HIDE DEF pc
  <2>2. r \in Client
    BY <1>0, <2>1, NewShape DEF Client
  <2> QED BY <2>1, <2>2, BecomesAlone
<1>2. ASSUME NEW s \in Sids, NEW n \in Items, NEW path, RunGet(c, s, n, path)
      PROVE  client' \in [Clients -> Client] /\ OnlyReads /\ runs' \in 0 .. MaxRuns
  <2> DEFINE pc == IF Opened(path) THEN "fetch" ELSE "panic"
             ask == {<<s, n>>}
             due == {s} \cap Readable
             r == [New EXCEPT !.cmd = "get", !.ask = ask, !.pc = pc, !.due = due]
  <2>1. /\ Becomes(c, r) /\ OnlyReads /\ runs' \in 0 .. MaxRuns
        /\ pc \in {"fetch", "panic"} /\ due \subseteq Sids /\ ask \subseteq Sids \X Items
    BY <1>2, BoundsAssumption DEF RunGet, Run, Typed
  <2> HIDE DEF pc, ask, due
  <2>2. r \in Client
    BY <2>1, NewShape DEF Client
  <2> QED BY <2>1, <2>2, BecomesAlone
<1> QED BY <1>1, <1>2 DEF Starts

(* Bind starts, fails or ends (main.rs:176-199, bs_opendal.rs:106-129).    *)
LEMMA BindTyped ==
  ASSUME Typed, NEW c \in Clients,
         \/ \E kind \in {"bind", "unbind"}, s \in Sids, l \in Locations :
              RunBind(c, kind, s, l)
         \/ Replied(c)
         \/ CallFails(c)
  PROVE  Typed'
<1>0. /\ client[c] \in Client
      /\ \A d \in Clients : client[d] \in Client
      /\ \A r \in Client : Becomes(c, r) => client' \in [Clients -> Client]
      /\ \A r \in Client : \A pc \in {"ok", "exit"} : [r EXCEPT !.pc = pc] \in Client
      /\ \A r \in Client : [r EXCEPT !.clean = FALSE] \in Client
  <2>1. \A r \in Client : \A pc \in {"ok", "exit"} : [r EXCEPT !.pc = pc] \in Client
    BY DEF Client
  <2>2. \A r \in Client : [r EXCEPT !.clean = FALSE] \in Client
    BY ZenonT(40) DEF Client
  <2> QED BY <2>1, <2>2, BecomesAlone, AtClient
<1>1. ASSUME NEW kind \in {"bind", "unbind"}, NEW s \in Sids, NEW l \in Locations,
             RunBind(c, kind, s, l)
      PROVE  Typed'
  <2> DEFINE q == [run |-> runs + 1, kind |-> kind, s |-> s, l |-> l]
             clean == \A p \in net : ~Opposite(p, q)
             r == [New EXCEPT !.cmd = "bind", !.pc = "call", !.call = q, !.clean = clean]
             crossed(x) == x.pc = "call" /\ Opposite(q, x.call)
  <2>0. q \in Request /\ runs' \in 0 .. MaxRuns
    <3>0. runs \in 0 .. MaxRuns
      BY DEF Typed
    <3>1. runs < MaxRuns /\ runs' = runs + 1
      BY <1>1 DEF RunBind
    <3>2. runs + 1 \in 1 .. MaxRuns /\ runs + 1 \in 0 .. MaxRuns
      BY <3>0, <3>1, BoundsAssumption
    <3> QED BY <3>1, <3>2 DEF Request
  <2>1. /\ net' = net \cup {q}
        /\ known' = [known EXCEPT ![s][l] = "?"]
        /\ client' = [d \in Clients |->
                        IF d = c THEN r
                        ELSE IF crossed(client[d]) THEN [client[d] EXCEPT !.clean = FALSE]
                        ELSE client[d]]
        /\ UNCHANGED <<phase, contents, sources>>
    BY <1>1 DEF RunBind
  <2> HIDE DEF q
  <2>2. clean \in BOOLEAN
    OBVIOUS
  <2> HIDE DEF clean
  <2>3. r \in Client
    BY <2>0, <2>2, NewShape DEF Client
  <2> HIDE DEF r, crossed
  <2>4. client' \in [Clients -> Client]
    BY <1>0, <2>1, <2>3
  <2>5. known' \in [Sids -> [Locations -> {"in", "out", "?"}]]
    BY <2>1 DEF Typed
  <2> QED BY <2>0, <2>1, <2>4, <2>5 DEF Typed
<1>2. CASE Replied(c)
  <2> DEFINE q == client[c].call
             verdict == IF ~client[c].clean THEN "?"
                        ELSE IF q.kind = "bind" THEN "in" ELSE "out"
  <2>1. /\ client' \in [Clients -> Client]
        /\ known' = [known EXCEPT ![q.s][q.l] = verdict]
        /\ UNCHANGED <<phase, contents, sources, net, runs>>
    BY <1>0, <1>2 DEF Replied, Goes
  <2>2. verdict \in {"in", "out", "?"}
    OBVIOUS
  <2> HIDE DEF verdict
  <2> QED BY <2>1, <2>2 DEF Typed
<1>3. CASE CallFails(c)
  BY <1>0, <1>3 DEF CallFails, Goes, OnlyReads, Typed
<1> QED BY <1>1, <1>2, <1>3

(* The Controller carries a request out, or fails (server.rs:81-135).      *)
LEMMA HandleTyped ==
  ASSUME Typed, NEW q \in net, Handle(q) \/ HandleFails(q)
  PROVE  Typed'
<1>1. /\ net' = net \ {q} /\ sources' \in {sources, Applied(q)}
      /\ UNCHANGED <<phase, contents, known, runs>>
  BY DEF Handle, HandleFails
<1>2. client' \in [Clients -> Client]
  <2>1. \A r \in Client : [r EXCEPT !.pc = "exit"] \in Client
    BY DEF Client
  <2> QED BY <2>1, AtClient DEF Handle, HandleFails, Typed
<1> QED BY <1>1, <1>2, AppliedTyped DEF Typed

(* Stacks move on as StackStore lets them (server.rs:49-78).               *)
Stacks == NextStackId \/ \E s \in Sids : Write(s)

(* The writers of stacks never change what can be read already.            *)
LEMMA StacksTyped ==
  ASSUME Typed, Stacks
  PROVE  /\ Typed'
         /\ \A s \in Readable : s \in Readable' /\ contents'[s] = contents[s]
         /\ UNCHANGED <<sources, net, client, known>>
<1>1. ASSUME NEW s \in Sids,
             \/ Store!Begin(s)
             \/ \E n \in Items : Store!TakeIn(s, n)
             \/ Store!Publish(s)
             \/ Store!Lose(s)
             \/ UNCHANGED stacks
      PROVE  /\ phase' \in [Sids -> {"free", "open", "readable", "lost"}]
             /\ contents' \in [Sids -> SUBSET Items]
             /\ \A t \in Sids : IsFiniteSet(contents'[t])
             /\ \A t \in Readable : t \in Readable' /\ contents'[t] = contents[t]
  <2>1. ASSUME NEW from \in {"free", "open"}, NEW to \in {"open", "readable", "lost"},
               Store!Moves(s, from, to), UNCHANGED contents
        PROVE  /\ phase' \in [Sids -> {"free", "open", "readable", "lost"}]
               /\ \A t \in Readable : t \in Readable'
    BY <2>1 DEF Store!Moves, Typed, Readable
  <2>2. CASE Store!Begin(s) \/ Store!Publish(s) \/ Store!Lose(s)
    BY <2>1, <2>2 DEF Store!Begin, Store!Publish, Store!Lose, Typed
  <2>3. ASSUME NEW n \in Items, Store!TakeIn(s, n)
        PROVE  /\ contents' \in [Sids -> SUBSET Items]
               /\ \A t \in Sids : IsFiniteSet(contents'[t])
               /\ \A t \in Readable : contents'[t] = contents[t]
               /\ phase' = phase
    <3>1. contents' = [contents EXCEPT ![s] = @ \cup {n}] /\ s \notin Readable
      BY <2>3 DEF Store!TakeIn, Readable
    <3>2. \A t \in Sids : contents'[t] \in {contents[t], contents[t] \cup {n}}
      BY <3>1 DEF Typed
    <3>3. \A t \in Sids : IsFiniteSet(contents[t]) /\ IsFiniteSet(contents[t] \cup {n})
      BY FS_AddElement DEF Typed
    <3> QED BY <2>3, <3>1, <3>2, <3>3 DEF Store!TakeIn, Typed
  <2>4. CASE UNCHANGED stacks
    BY <2>4 DEF stacks, Typed, Readable
  <2> QED BY <1>1, <2>2, <2>3, <2>4 DEF Readable, Typed
<1>2. UNCHANGED <<sources, net, client, known, runs>>
  BY DEF Stacks, NextStackId, Write
<1>3. \E s \in Sids : \/ Store!Begin(s)
                      \/ \E n \in Items : Store!TakeIn(s, n)
                      \/ Store!Publish(s)
                      \/ Store!Lose(s)
                      \/ UNCHANGED stacks
  BY DEF Stacks, NextStackId, Write
<1> QED BY <1>1, <1>2, <1>3 DEF Typed

(* The steps of the whole system.                                          *)
LEMMA NextCases ==
  ASSUME [Next]_vars
  PROVE  \/ UNCHANGED vars
         \/ Stacks
         \/ \E q \in net : Handle(q) \/ HandleFails(q)
         \/ \E c \in Clients :
              \/ Starts(c) \/ Reads(c)
              \/ \E kind \in {"bind", "unbind"}, s \in Sids, l \in Locations :
                   RunBind(c, kind, s, l)
              \/ Replied(c) \/ CallFails(c)
BY DEF Next, Stacks, Starts, Reads

(* Every step keeps the types.                                             *)
LEMMA NextTyped ==
  ASSUME Typed, [Next]_vars
  PROVE  Typed'
<1>1. CASE UNCHANGED vars
  BY <1>1 DEF vars, Typed
<1>2. ASSUME NEW c \in Clients, Starts(c) \/ Reads(c) PROVE Typed'
  BY <1>2, ReadsShape, StartsShape DEF OnlyReads, Typed
<1> QED BY <1>1, <1>2, NextCases, StacksTyped, HandleTyped, BindTyped

-----------------------------------------------------------------------------
(* CountedOK. *)

(* A stack begins only as the Controller counts it (server.rs:49-78).      *)
LEMMA NextCountedOK ==
  ASSUME Typed, CountedOK, [Next]_vars
  PROVE  CountedOK'
<1>0. nextId \in Nat /\ faults \in 0 .. MaxFaults /\ MaxFaults \in Nat
  BY BoundsAssumption DEF CountedOK
<1>1. CASE UNCHANGED vars
  BY <1>1 DEF vars, CountedOK
<1>2. CASE NextStackId
  <2>1. /\ nextId \in Sids /\ nextId' = nextId + 1 /\ faults' = faults
        /\ Store!Begin(nextId) \/ UNCHANGED stacks
    BY <1>2 DEF NextStackId, Counted
  <2>2. \A s \in Sids : phase'[s] # "free" => phase[s] # "free" \/ s = nextId
    BY <2>1 DEF Store!Begin, Store!Moves, stacks, Typed
  <2> QED BY <1>0, <2>1, <2>2 DEF CountedOK, Sids
<1>3. ASSUME NEW t \in Sids, Write(t) PROVE CountedOK'
  <2>1. nextId' = nextId /\ faults' = faults
    BY <1>3 DEF Write
  <2>2. \A s \in Sids : phase'[s] # "free" => phase[s] # "free"
    BY <1>3 DEF Write, Store!TakeIn, Store!Publish, Store!Lose, Store!Moves, Typed
  <2> QED BY <2>1, <2>2 DEF CountedOK
<1>4. ASSUME UNCHANGED <<phase, nextId>>, UNCHANGED faults \/ Fault
      PROVE  CountedOK'
  BY <1>0, <1>4 DEF CountedOK, Fault
<1>5. ASSUME NEW q \in net, Handle(q) \/ HandleFails(q) PROVE CountedOK'
  BY <1>4, <1>5 DEF Handle, HandleFails
<1>6. ASSUME NEW c \in Clients, Starts(c) \/ Reads(c) PROVE CountedOK'
  <2>1. UNCHANGED faults \/ Fault
    BY <1>6 DEF Starts, RunReader, RunGet, Run, Reads, ListNext, StatNext,
       StatOverflows, ListEnds, ListFails, Show, ShowFails, ShowEnds, Fetch,
       FetchFails
  <2> QED BY <1>4, <1>6, <2>1, ReadsShape, StartsShape DEF OnlyReads
<1>7. ASSUME NEW c \in Clients,
             \/ \E kind \in {"bind", "unbind"}, s \in Sids, l \in Locations :
                  RunBind(c, kind, s, l)
             \/ Replied(c) \/ CallFails(c)
      PROVE  CountedOK'
  BY <1>4, <1>7 DEF RunBind, Replied, CallFails, OnlyReads
<1> QED BY <1>1, <1>2, <1>3, <1>5, <1>6, <1>7, NextCases DEF Stacks

-----------------------------------------------------------------------------
(* CommandsOK. *)

(* What a command has found stays there, since readable stacks do.         *)
LEMMA CommandLater ==
  ASSUME NEW r \in Client, NEW readable, NEW items, NEW readable2, NEW items2,
         CommandOK(r, readable, items),
         \A s \in readable : s \in readable2 /\ items2[s] = items[s]
  PROVE  CommandOK(r, readable2, items2)
<1>1. LSOK(r, readable2, items2)
  BY DEF CommandOK, LSOK
<1>2. GetOK(r, readable2, items2)
  BY DEF CommandOK, GetOK
<1>3. StatOK(r, readable2, items2)
  BY DEF CommandOK, StatOK
<1> QED BY <1>1, <1>2, <1>3 DEF CommandOK

(* A step of one client, with the bucket as it is.                         *)
LEMMA OneClient ==
  ASSUME Typed, CommandsOK, NEW c \in Clients, NEW r, Becomes(c, r), OnlyReads,
         CommandOK(r, Readable, contents)
  PROVE  CommandsOK'
<1>1. Readable' = Readable /\ contents' = contents
  BY DEF OnlyReads, Readable
<1> QED BY <1>1, BecomesAlone DEF CommandsOK

(* A command that ends in an error promises nothing, but for Get.          *)
LEMMA ExitOK ==
  ASSUME NEW r \in Client, CommandOK(r, Readable, contents),
         r.cmd = "get" => FALSE, r.pc # "call" \/ r.cmd = "bind",
         NEW pc \in {"exit", "panic"}, r.cmd = "bind" => pc = "exit"
  PROVE  CommandOK([r EXCEPT !.pc = pc], Readable, contents)
<1> DEFINE q == [r EXCEPT !.pc = pc]
<1>1. /\ q.pc = pc /\ q.cmd = r.cmd /\ q.due = r.due /\ q.todo = r.todo
      /\ q.lines = r.lines /\ q.rows = r.rows
  BY DEF Client
<1> HIDE DEF q
<1> QED BY <1>1 DEF CommandOK, AtPlace, LSOK, GetOK, StatOK

(* A command that has just started has shown nothing.                      *)
LEMMA StartsCommands ==
  ASSUME Typed, CommandsOK, NEW c \in Clients, Starts(c)
  PROVE  CommandsOK'
<1>1. ASSUME NEW cmd \in {"ls", "stat"}, NEW path, RunReader(c, cmd, path)
      PROVE  CommandsOK'
  <2> DEFINE pc == IF Opened(path) THEN "list" ELSE "panic"
             r == [New EXCEPT !.cmd = cmd, !.pc = pc, !.due = Readable]
  <2>1. Becomes(c, r) /\ OnlyReads /\ pc \in {"list", "panic"}
    BY <1>1 DEF RunReader, Run
  <2>2. /\ r.cmd = cmd /\ r.pc = pc /\ r.due = Readable /\ r.todo = {}
        /\ r.lines = {} /\ r.rows = {} /\ r.at = 0
    BY DEF New
  <2> HIDE DEF r, pc
  <2>3. CommandOK(r, Readable, contents)
    BY <2>1, <2>2 DEF CommandOK, AtPlace, LSOK, GetOK, StatOK, Readable, Sids
  <2> QED BY <2>1, <2>3, OneClient
<1>2. ASSUME NEW s \in Sids, NEW n \in Items, NEW path, RunGet(c, s, n, path)
      PROVE  CommandsOK'
  <2> DEFINE pc == IF Opened(path) THEN "fetch" ELSE "panic"
             r == [New EXCEPT !.cmd = "get", !.ask = {<<s, n>>}, !.pc = pc,
                              !.due = {s} \cap Readable]
  <2>1. Becomes(c, r) /\ OnlyReads /\ pc \in {"fetch", "panic"} /\ n \in contents[s]
    BY <1>2 DEF RunGet, Run
  <2>2. /\ r.cmd = "get" /\ r.pc = pc /\ r.due = {s} \cap Readable
        /\ r.ask = {<<s, n>>}
    BY DEF New
  <2> HIDE DEF r, pc
  <2>3. r.due # {} => s \in Readable /\ r.ask \cap ({s} \X contents[s]) # {}
    <3>1. <<s, n>> \in r.ask \cap ({s} \X contents[s])
      BY <2>1, <2>2
    <3> QED BY <2>2, <3>1
  <2>4. CommandOK(r, Readable, contents)
    BY <2>1, <2>2, <2>3 DEF CommandOK, AtPlace, LSOK, GetOK, StatOK
  <2> QED BY <2>1, <2>4, OneClient
<1> QED BY <1>1, <1>2 DEF Starts

(* Each step of ls, stat and get shows what its stack holds.               *)
LEMMA ReadsCommands ==
  ASSUME Typed, CommandsOK, NEW c \in Clients, Reads(c)
  PROVE  CommandsOK'
<1> DEFINE r == client[c]
<1>0. /\ r \in Client /\ CommandOK(r, Readable, contents)
      /\ OnlyReads
      /\ \A q : Becomes(c, q) /\ CommandOK(q, Readable, contents) => CommandsOK'
  <2>1. OnlyReads
    BY ReadsShape
  <2> QED BY <2>1, AtClient, OneClient DEF CommandsOK
<1>1. CASE ListNext(c)
  <2> DEFINE q == [r EXCEPT !.at = r.at + 1,
                            !.todo = @ \cup ({r.at + 1} \cap Readable)]
  <2>1. Becomes(c, q) /\ r.cmd = "ls" /\ r.pc = "list"
    BY <1>1 DEF ListNext, At
  <2>2. /\ q.cmd = "ls" /\ q.pc = "list" /\ q.due = r.due /\ q.lines = r.lines
        /\ q.at = r.at + 1 /\ q.todo = r.todo \cup ({r.at + 1} \cap Readable)
        /\ r.at \in Nat /\ r.due \subseteq Nat
    BY <1>0, <2>1 DEF Client, Sids
  <2> HIDE DEF q, r
  <2>3. CommandOK(q, Readable, contents)
    BY <1>0, <2>1, <2>2 DEF CommandOK, AtPlace, LSOK, GetOK, StatOK
  <2> QED BY <1>0, <2>1, <2>3
<1>2. CASE StatNext(c)
  <2> DEFINE s == r.at + 1
             rows == r.rows \cup {<<s, FullSize(contents[s])>>}
             none == [r EXCEPT !.at = s]
             row == [r EXCEPT !.at = s, !.rows = rows]
             failed == [none EXCEPT !.failed = @ \cup {s}]
  <2>1. /\ r.cmd = "stat" /\ r.pc = "list"
        /\ \/ s \in Readable /\ Becomes(c, row)
           \/ s \in Readable /\ Becomes(c, failed)
           \/ s \notin Readable /\ Becomes(c, none)
    BY <1>2 DEF StatNext, At
  <2>2. PICK q : /\ Becomes(c, q)
                 /\ q.cmd = "stat" /\ q.pc = "list" /\ q.due = r.due /\ q.at = s
                 /\ \/ /\ s \in Readable /\ q.failed = r.failed
                       /\ q.rows = r.rows \cup {<<s, FullSize(contents[s])>>}
                    \/ q.failed = r.failed \cup {s} /\ q.rows = r.rows
                    \/ s \notin Readable /\ q.failed = r.failed /\ q.rows = r.rows
    <3> HIDE DEF rows
    <3>1. /\ row.cmd = "stat" /\ row.pc = "list" /\ row.due = r.due
          /\ row.at = s /\ row.failed = r.failed /\ row.rows = rows
      BY <1>0, <2>1 DEF Client
    <3>2. /\ none.cmd = "stat" /\ none.pc = "list" /\ none.due = r.due
          /\ none.at = s /\ none.failed = r.failed /\ none.rows = r.rows
          /\ failed.cmd = "stat" /\ failed.pc = "list" /\ failed.due = r.due
          /\ failed.at = s /\ failed.failed = r.failed \cup {s}
          /\ failed.rows = r.rows
      BY <1>0, <2>1 DEF Client
    <3> HIDE DEF row, none, failed, s
    <3> QED BY <2>1, <3>1, <3>2 DEF rows
  <2>3. r.at \in Nat /\ r.due \subseteq Nat /\ StatOK(r, Readable, contents)
    BY <1>0 DEF Client, Sids, CommandOK
  <2> DEFINE size == FullSize(contents[s])
  <2>4. \A t \in r.due : t <= r.at + 1 => t <= r.at \/ t = s
    BY <2>3
  <2> HIDE DEF r, size
  <2>5. StatOK(q, Readable, contents)
    <3>1. /\ r.due \subseteq Readable
          /\ \A x \in r.rows : x[1] \in Readable /\ x[2] = FullSize(contents[x[1]])
          /\ \A t \in r.due \ r.failed : t <= r.at => \E x \in r.rows : x[1] = t
      BY <2>1, <2>3 DEF StatOK
    <3>2. \A x \in q.rows : x[1] \in Readable /\ x[2] = FullSize(contents[x[1]])
      BY <2>2, <3>1
    <3>3. ASSUME NEW t \in q.due \ q.failed, t <= q.at
          PROVE  \E x \in q.rows : x[1] = t
      <4>1. t \in r.due /\ (t <= r.at \/ t = s)
        BY <2>2, <2>4, <3>3
      <4>2. CASE t \in r.failed \/ t # s
        BY <2>2, <3>1, <3>3, <4>1, <4>2
      <4>3. CASE t = s /\ t \notin r.failed
        <5>1. q.rows = r.rows \cup {<<s, size>>}
          BY <2>2, <3>1, <3>3, <4>1, <4>3 DEF size
        <5>2. <<s, size>> \in q.rows /\ <<s, size>>[1] = t
          BY <4>3, <5>1
        <5> QED BY <5>2
      <4> QED BY <4>2, <4>3
    <3> QED BY <2>2, <3>1, <3>2, <3>3 DEF StatOK
  <2>6. CommandOK(q, Readable, contents)
    BY <2>2, <2>5 DEF CommandOK, AtPlace, LSOK, GetOK
  <2> QED BY <1>0, <2>2, <2>6
<1>3. CASE ListEnds(c)
  <2> DEFINE q == [r EXCEPT !.pc = IF r.cmd = "ls" THEN "show" ELSE "ok"]
  <2>1. Becomes(c, q) /\ r.pc = "list" /\ r.at = MaxSid
    BY <1>3 DEF ListEnds, Goes
  <2>2. /\ q.cmd = r.cmd /\ q.pc = (IF r.cmd = "ls" THEN "show" ELSE "ok")
        /\ q.due = r.due /\ q.todo = r.todo /\ q.lines = r.lines
        /\ q.rows = r.rows /\ q.failed = r.failed
        /\ \A s \in r.due : s <= r.at
        /\ r.cmd # "get"
    BY <1>0, <2>1, BoundsAssumption DEF Client, Sids, CommandOK, AtPlace
  <2> HIDE DEF q, r
  <2>3. CommandOK(q, Readable, contents)
    BY <1>0, <2>1, <2>2 DEF CommandOK, AtPlace, LSOK, GetOK, StatOK
  <2> QED BY <1>0, <2>1, <2>3
<1>4. CASE ListFails(c) \/ ShowFails(c) \/ StatOverflows(c)
  <2> DEFINE q(pc) == [r EXCEPT !.pc = pc]
  <2>1. PICK pc \in {"exit", "panic"} :
          /\ Becomes(c, q(pc)) /\ (r.cmd = "bind" => pc = "exit")
          /\ r.pc = "list" \/ (r.cmd = "ls" /\ r.pc = "show")
    BY <1>4 DEF ListFails, ShowFails, StatOverflows, Goes, NotListed, At
  <2>2. CommandOK(q(pc), Readable, contents)
    <3>1. r.cmd # "get" /\ r.pc # "call"
      BY <1>0, <2>1 DEF CommandOK, AtPlace
    <3> HIDE DEF r
    <3> QED BY <1>0, <2>1, <3>1, ExitOK
  <2> QED BY <1>0, <2>1, <2>2
<1>5. CASE Show(c)
  <2>1. PICK s \in First(r.todo) :
          Becomes(c, [r EXCEPT !.todo = @ \ {s}, !.lines = @ \cup Lines(s)])
    BY <1>5 DEF Show
  <2> DEFINE q == [r EXCEPT !.todo = @ \ {s}, !.lines = @ \cup Lines(s)]
  <2>2. r.cmd = "ls" /\ r.pc = "show" /\ s \in r.todo
    BY <1>5 DEF Show, At, First
  <2>3. /\ q.cmd = "ls" /\ q.pc = "show" /\ q.due = r.due
        /\ q.todo = r.todo \ {s} /\ q.lines = r.lines \cup ({s} \X contents[s])
    BY <1>0, <2>2 DEF Client, Lines
  <2> HIDE DEF q, r
  <2>4. s \in Readable
    BY <1>0, <2>2 DEF CommandOK, LSOK
  <2>5. CommandOK(q, Readable, contents)
    BY <1>0, <2>2, <2>3, <2>4 DEF CommandOK, AtPlace, LSOK, GetOK, StatOK
  <2> QED BY <1>0, <2>1, <2>5 DEF q
<1>6. CASE ShowEnds(c)
  <2> DEFINE q == [r EXCEPT !.pc = "ok"]
  <2>1. Becomes(c, q) /\ r.cmd = "ls" /\ r.pc = "show" /\ r.todo = {}
    BY <1>6 DEF ShowEnds, Goes, At
  <2>2. /\ q.cmd = "ls" /\ q.pc = "ok" /\ q.due = r.due
        /\ q.todo = r.todo /\ q.lines = r.lines
    BY <1>0, <2>1 DEF Client
  <2> HIDE DEF q, r
  <2>3. CommandOK(q, Readable, contents)
    BY <1>0, <2>1, <2>2 DEF CommandOK, AtPlace, LSOK, GetOK, StatOK
  <2> QED BY <1>0, <2>1, <2>3
<1>7. CASE Fetch(c)
  <2>1. PICK q : /\ Becomes(c, q)
                 /\ q.cmd = "get" /\ q.due = r.due /\ q.ask = r.ask
                 /\ q.failed = r.failed
                 /\ \/ q.pc = "ok" /\ q.lines = r.ask
                    \/ /\ r.ask \cap UNION {Lines(s) : s \in Readable} = {}
                       /\ q.pc = "exit"
    <3>1. r.cmd = "get"
      BY <1>7 DEF Fetch, At
    <3>2. /\ [r EXCEPT !.pc = "ok", !.lines = r.ask].cmd = "get"
          /\ [r EXCEPT !.pc = "ok", !.lines = r.ask].due = r.due
          /\ [r EXCEPT !.pc = "ok", !.lines = r.ask].ask = r.ask
          /\ [r EXCEPT !.pc = "ok", !.lines = r.ask].failed = r.failed
          /\ [r EXCEPT !.pc = "ok", !.lines = r.ask].pc = "ok"
          /\ [r EXCEPT !.pc = "ok", !.lines = r.ask].lines = r.ask
          /\ [r EXCEPT !.pc = "exit"].cmd = "get"
          /\ [r EXCEPT !.pc = "exit"].due = r.due
          /\ [r EXCEPT !.pc = "exit"].ask = r.ask
          /\ [r EXCEPT !.pc = "exit"].failed = r.failed
          /\ [r EXCEPT !.pc = "exit"].pc = "exit"
      BY <1>0, <3>1 DEF Client
    <3> QED BY <1>7, <3>2 DEF Fetch, Goes
  <2>2. r.due # {} => \E s \in Readable : r.ask \cap Lines(s) # {}
    BY <1>0, <2>1, <1>7 DEF CommandOK, GetOK, Lines, Fetch, At
  <2>3. r.due # {} => r.ask \cap UNION {Lines(s) : s \in Readable} # {}
    BY <2>2
  <2> HIDE DEF r
  <2>4. CommandOK(q, Readable, contents)
    BY <2>1, <2>2, <2>3 DEF CommandOK, AtPlace, LSOK, GetOK, StatOK, Lines
  <2> QED BY <1>0, <2>1, <2>4
<1>8. CASE FetchFails(c)
  <2>1. PICK pc \in {"exit", "ok"} :
          Becomes(c, [r EXCEPT !.pc = pc, !.failed = {a[1] : a \in r.ask}])
    BY <1>8 DEF FetchFails
  <2> DEFINE failed == {a[1] : a \in r.ask}
             q == [r EXCEPT !.pc = pc, !.failed = failed]
  <2>2. r.cmd = "get" /\ (r.ask # {} => failed # {})
    BY <1>8 DEF FetchFails, At
  <2>3. Becomes(c, q)
    BY <2>1
  <2> HIDE DEF failed
  <2>4. /\ q.cmd = "get" /\ q.pc = pc /\ q.due = r.due /\ q.ask = r.ask
        /\ q.failed = failed
    BY <1>0, <2>2 DEF Client
  <2> HIDE DEF q, r
  <2>5. CommandOK(q, Readable, contents)
    BY <1>0, <2>2, <2>4 DEF CommandOK, AtPlace, LSOK, GetOK, StatOK
  <2> QED BY <1>0, <2>3, <2>5
<1> QED BY <1>1, <1>2, <1>3, <1>4, <1>5, <1>6, <1>7, <1>8 DEF Reads

(* Bind and the Controller change no command that reads the bucket.        *)
LEMMA OthersCommands ==
  ASSUME Typed, CommandsOK, UNCHANGED <<phase, contents>>,
         \A d \in Clients :
           \/ client'[d].cmd = "bind" /\ client'[d].pc \in {"call", "ok", "exit"}
              /\ (client'[d].pc = "call" => client'[d].call \in Request)
           \/ client'[d] = client[d]
  PROVE  CommandsOK'
<1>1. Readable' = Readable /\ contents' = contents
  BY DEF Readable
<1>2. ASSUME NEW r, r.cmd = "bind", r.pc \in {"call", "ok", "exit"},
             r.pc = "call" => r.call \in Request
      PROVE  CommandOK(r, Readable, contents)
  BY <1>2 DEF CommandOK, AtPlace, LSOK, GetOK, StatOK
<1> QED BY <1>1, <1>2 DEF CommandsOK

(* What the Bind of request q by client c does to the clients.             *)
Binds(c, q) ==
  /\ net' = net \cup {q}
  /\ client'[c].cmd = "bind" /\ client'[c].pc = "call" /\ client'[c].call = q
  /\ client'[c].clean => \A p \in net : ~Opposite(p, q)
  /\ \A d \in Clients : d # c =>
       /\ client'[d].cmd = client[d].cmd /\ client'[d].pc = client[d].pc
       /\ client'[d].call = client[d].call
       /\ IF client[d].pc = "call" /\ Opposite(q, client[d].call)
            THEN ~client'[d].clean ELSE client'[d] = client[d]

(* A bind or unbind sends one request and waits for it.                    *)
LEMMA BindSteps ==
  ASSUME Typed, CommandsOK, NEW c \in Clients,
         NEW kind \in {"bind", "unbind"}, NEW s \in Sids, NEW l \in Locations,
         RunBind(c, kind, s, l)
  PROVE  \E q \in Request : q.kind = kind /\ q.s = s /\ q.l = l /\ Binds(c, q)
<1> DEFINE q == [run |-> runs + 1, kind |-> kind, s |-> s, l |-> l]
           clean == \A p \in net : ~Opposite(p, q)
           r == [New EXCEPT !.cmd = "bind", !.pc = "call", !.call = q, !.clean = clean]
           crossed(x) == x.pc = "call" /\ Opposite(q, x.call)
<1>1. q \in Request /\ q.kind = kind /\ q.s = s /\ q.l = l
  <2>0. runs \in 0 .. MaxRuns
    BY DEF Typed
  <2>1. runs < MaxRuns
    BY DEF RunBind
  <2>2. runs + 1 \in 1 .. MaxRuns
    BY <2>0, <2>1, BoundsAssumption
  <2> QED BY <2>2 DEF Request
<1>2. /\ net' = net \cup {q}
      /\ client' = [d \in Clients |->
                      IF d = c THEN r
                      ELSE IF crossed(client[d]) THEN [client[d] EXCEPT !.clean = FALSE]
                      ELSE client[d]]
  BY DEF RunBind
<1> HIDE DEF q
<1>3. r.cmd = "bind" /\ r.pc = "call" /\ r.call = q /\ r.clean = clean
  BY DEF New
<1>4. ASSUME NEW x \in Client
      PROVE  /\ [x EXCEPT !.clean = FALSE].cmd = x.cmd
             /\ [x EXCEPT !.clean = FALSE].pc = x.pc
             /\ [x EXCEPT !.clean = FALSE].call = x.call
             /\ [x EXCEPT !.clean = FALSE].clean = FALSE
  BY <1>4 DEF Client
<1> HIDE DEF r
<1>5. client'[c] = r
  BY <1>2
<1>6. ASSUME NEW d \in Clients, d # c
      PROVE  /\ client'[d].cmd = client[d].cmd /\ client'[d].pc = client[d].pc
             /\ client'[d].call = client[d].call
             /\ IF crossed(client[d]) THEN ~client'[d].clean ELSE client'[d] = client[d]
  <2>1. client[d] \in Client
    BY AtClient
  <2>2. client'[d] = IF crossed(client[d]) THEN [client[d] EXCEPT !.clean = FALSE]
                                           ELSE client[d]
    BY <1>2, <1>6
  <2> QED BY <1>4, <2>1, <2>2
<1>7. Binds(c, q)
  BY <1>2, <1>3, <1>5, <1>6 DEF Binds
<1> QED BY <1>1, <1>7

(* A call ends: with a reply, or without.                                  *)
LEMMA CallEnds ==
  ASSUME Typed, CommandsOK, NEW c \in Clients, Replied(c) \/ CallFails(c)
  PROVE  /\ client[c].pc = "call" /\ client[c].cmd = "bind"
         /\ client[c].call \in Request
         /\ client'[c].cmd = "bind" /\ client'[c].pc \in {"ok", "exit"}
         /\ \A d \in Clients : d # c => client'[d] = client[d]
<1>1. /\ client[c].pc = "call"
      /\ \E pc \in {"ok", "exit"} : Becomes(c, [client[c] EXCEPT !.pc = pc])
  BY DEF Replied, CallFails, Goes
<1>2. client[c] \in Client /\ client[c].cmd = "bind" /\ client[c].call \in Request
  BY <1>1, AtClient DEF CommandsOK, CommandOK, AtPlace
<1>3. \A pc \in {"ok", "exit"} : /\ [client[c] EXCEPT !.pc = pc].pc = pc
                               /\ [client[c] EXCEPT !.pc = pc].cmd = "bind"
  BY <1>2 DEF Client
<1>4. PICK pc \in {"ok", "exit"} : Becomes(c, [client[c] EXCEPT !.pc = pc])
  BY <1>1
<1> DEFINE r == [client[c] EXCEPT !.pc = pc]
<1>5. r.pc \in {"ok", "exit"} /\ r.cmd = "bind"
  BY <1>3
<1> HIDE DEF r
<1>6. Becomes(c, r)
  BY <1>4 DEF r
<1>7. client'[c] = r /\ \A d \in Clients : d # c => client'[d] = client[d]
  BY <1>6, BecomesAlone
<1> QED BY <1>1, <1>2, <1>5, <1>7

(* The Controller answers nobody but the client that waits for q.          *)
LEMMA HandleSteps ==
  ASSUME Typed, CommandsOK, NEW q \in net, Handle(q) \/ HandleFails(q)
  PROVE  /\ net' = net \ {q} /\ UNCHANGED known
         /\ \/ sources' = sources /\ HandleFails(q)
            \/ sources' = Applied(q)
         /\ \A d \in Clients :
              \/ client'[d] = client[d]
              \/ client'[d].cmd = "bind" /\ client'[d].pc = "exit"
         /\ HandleFails(q) => \A d \in Clients :
              client'[d].pc = "call" => client'[d].call # q
<1>1. CASE Handle(q) /\ ~HandleFails(q)
  BY <1>1 DEF Handle
<1>2. CASE HandleFails(q)
  <2>1. /\ net' = net \ {q} /\ UNCHANGED known
        /\ sources' \in {sources, Applied(q)}
        /\ client' = [d \in Clients |->
                        IF client[d].pc = "call" /\ client[d].call = q
                          THEN [client[d] EXCEPT !.pc = "exit"] ELSE client[d]]
    BY <1>2 DEF HandleFails
  <2>2. ASSUME NEW d \in Clients, client[d].pc = "call", client[d].call = q
        PROVE  client'[d].cmd = "bind" /\ client'[d].pc = "exit"
    <3>1. client[d] \in Client /\ client[d].cmd = "bind"
      BY <2>2, AtClient DEF CommandsOK, CommandOK, AtPlace
    <3>2. client'[d] = [client[d] EXCEPT !.pc = "exit"]
      BY <2>1, <2>2
    <3> QED BY <3>1, <3>2 DEF Client
  <2>3. ASSUME NEW d \in Clients, ~(client[d].pc = "call" /\ client[d].call = q)
        PROVE  client'[d] = client[d]
    BY <2>1, <2>3
  <2> QED BY <1>2, <2>1, <2>2, <2>3
<1> QED BY <1>1, <1>2

(* Later steps do not falsify what a command has shown.                    *)
LEMMA NextCommandsOK ==
  ASSUME Typed, CommandsOK, [Next]_vars
  PROVE  CommandsOK'
<1>1. CASE UNCHANGED vars
  BY <1>1, OthersCommands DEF vars
<1>2. CASE Stacks
  BY <1>2, StacksTyped, CommandLater, AtClient DEF CommandsOK
<1>3. ASSUME NEW q \in net, Handle(q) \/ HandleFails(q) PROVE CommandsOK'
  BY <1>3, HandleSteps, OthersCommands DEF Handle, HandleFails
<1>4. ASSUME NEW c \in Clients, Replied(c) \/ CallFails(c) PROVE CommandsOK'
  BY <1>4, CallEnds, OthersCommands DEF Replied, CallFails, OnlyReads
<1>5. ASSUME NEW c \in Clients, NEW kind \in {"bind", "unbind"}, NEW s \in Sids,
             NEW l \in Locations, RunBind(c, kind, s, l)
      PROVE  CommandsOK'
  <2>0. PICK q \in Request : Binds(c, q)
    BY <1>5, BindSteps
  <2>1. UNCHANGED <<phase, contents>>
    BY <1>5 DEF RunBind
  <2>2. ASSUME NEW d \in Clients
        PROVE  \/ /\ client'[d].cmd = "bind" /\ client'[d].pc \in {"call", "ok", "exit"}
                  /\ client'[d].pc = "call" => client'[d].call \in Request
               \/ client'[d] = client[d]
    <3>1. client[d].pc = "call" => client[d].cmd = "bind" /\ client[d].call \in Request
      BY DEF CommandsOK, CommandOK, AtPlace
    <3>2. CASE d = c
      BY <2>0, <3>2 DEF Binds
    <3>3. CASE d # c
      <4>1. /\ client'[d].cmd = client[d].cmd /\ client'[d].pc = client[d].pc
            /\ client'[d].call = client[d].call
            /\ IF client[d].pc = "call" /\ Opposite(q, client[d].call)
                 THEN ~client'[d].clean ELSE client'[d] = client[d]
        BY <2>0, <3>3 DEF Binds
      <4>2. CASE client[d].pc = "call"
        BY <3>1, <4>1, <4>2
      <4>3. CASE client[d].pc # "call"
        BY <4>1, <4>3
      <4> QED BY <4>2, <4>3
    <3> QED BY <3>2, <3>3
  <2> QED BY <2>1, <2>2, OthersCommands
<1> QED BY <1>1, <1>2, <1>3, <1>4, <1>5, NextCases, StartsCommands, ReadsCommands

-----------------------------------------------------------------------------
(* CallsOK and KnownOK. *)

(* What a request does to the location it is about, and to the others
   (server.rs:81-135).                                                     *)
LEMMA AppliedEffect ==
  ASSUME Typed, NEW q \in net, sources' = Applied(q)
  PROVE  /\ Done(q, sources')
         /\ \A s \in Sids : sources[s].there => sources'[s].there
         /\ \A s \in Sids : \A l \in Locations : s # q.s \/ l # q.l =>
              (l \in sources'[s].locations <=> l \in sources[s].locations)
<1>1. /\ sources \in [Sids -> [there : BOOLEAN, locations : SUBSET Locations]]
      /\ q.s \in Sids /\ q.l \in Locations /\ q.kind \in {"bind", "unbind"}
  BY DEF Typed, Request
<1>2. CASE q.kind = "bind"
  <2>1. sources' = [sources EXCEPT ![q.s] =
          [there |-> TRUE, locations |-> sources[q.s].locations \cup {q.l}]]
    BY <1>2 DEF Applied, Registered
  <2> QED BY <1>1, <1>2, <2>1 DEF Done
<1>3. CASE q.kind = "unbind"
  <2>1. sources' = [sources EXCEPT ![q.s].locations = sources[q.s].locations \ {q.l}]
    BY <1>3 DEF Applied
  <2> QED BY <1>1, <1>3, <2>1 DEF Done
<1> QED BY <1>1, <1>2, <1>3

(* A request that has had its effect keeps it, unless its opposite comes.  *)
LEMMA DoneStays ==
  ASSUME Typed, NEW q \in net, sources' = Applied(q), NEW p \in Request,
         ~Opposite(q, p), Done(p, sources)
  PROVE  Done(p, sources')
<1>1. /\ p.s \in Sids /\ p.l \in Locations /\ p.kind \in {"bind", "unbind"}
      /\ q.kind \in {"bind", "unbind"}
  BY DEF Typed, Request
<1>2. CASE q.s # p.s \/ q.l # p.l
  BY <1>1, <1>2, AppliedEffect DEF Done
<1>3. CASE q.s = p.s /\ q.l = p.l
  <2>1. q.kind = p.kind
    BY <1>3 DEF Opposite
  <2> QED BY <1>3, <2>1, AppliedEffect DEF Done
<1> QED BY <1>2, <1>3

(* A command that reads the bucket waits for no request.                   *)
LEMMA NoCall ==
  ASSUME Typed, NEW c \in Clients, Starts(c) \/ Reads(c)
  PROVE  client'[c].pc # "call"
<1> DEFINE r == client[c]
<1>0. /\ r \in Client
      /\ \A q : Becomes(c, q) => client'[c] = q
      /\ \A pc : [r EXCEPT !.pc = pc].pc = pc
  BY AtClient, BecomesAlone DEF Client
<1>1. ASSUME NEW cmd, NEW path, RunReader(c, cmd, path) PROVE client'[c].pc # "call"
  <2> DEFINE pc == IF Opened(path) THEN "list" ELSE "panic"
             q == [New EXCEPT !.cmd = cmd, !.pc = pc, !.due = Readable]
  <2>1. client'[c] = q /\ pc # "call"
    BY <1>0, <1>1 DEF RunReader, Run
  <2> HIDE DEF pc
  <2> QED BY <2>1 DEF New
<1>2. ASSUME NEW s, NEW n, NEW path, RunGet(c, s, n, path) PROVE client'[c].pc # "call"
  <2> DEFINE pc == IF Opened(path) THEN "fetch" ELSE "panic"
             q == [New EXCEPT !.cmd = "get", !.ask = {<<s, n>>}, !.pc = pc,
                              !.due = {s} \cap Readable]
  <2>1. client'[c] = q /\ pc # "call"
    BY <1>0, <1>2 DEF RunGet, Run
  <2> HIDE DEF pc
  <2> QED BY <2>1 DEF New
<1>3. CASE ListNext(c)
  <2>1. \A todo : [r EXCEPT !.at = r.at + 1, !.todo = todo].pc = r.pc
    BY <1>0 DEF Client
  <2> QED BY <1>0, <1>3, <2>1, ZenonT(40) DEF ListNext, At
<1>4. CASE StatNext(c)
  <2> DEFINE rows == r.rows \cup {<<r.at + 1, FullSize(contents[r.at + 1])>>}
             none == [r EXCEPT !.at = r.at + 1]
             row == [r EXCEPT !.at = r.at + 1, !.rows = rows]
             failed == [none EXCEPT !.failed = @ \cup {r.at + 1}]
  <2>1. (Becomes(c, row) \/ Becomes(c, none) \/ Becomes(c, failed)) /\ r.pc = "list"
    BY <1>4 DEF StatNext, At
  <2> HIDE DEF rows
  <2>2. row.pc = r.pc /\ none.pc = r.pc /\ failed.pc = r.pc
    BY <1>0 DEF Client
  <2> HIDE DEF row, none, failed
  <2> QED BY <1>0, <2>1, <2>2
<1>5. CASE StatOverflows(c) \/ ListEnds(c) \/ ListFails(c) \/ ShowEnds(c)
  BY <1>0, <1>5 DEF StatOverflows, ListEnds, ListFails, ShowEnds, Goes
<1>6. CASE Show(c) \/ ShowFails(c)
  <2>1. \A todo, lines : [r EXCEPT !.todo = todo, !.lines = lines].pc = r.pc
    BY <1>0 DEF Client
  <2> QED BY <1>0, <1>6, <2>1, ZenonT(40) DEF Show, ShowFails, NotListed, At
<1>7. CASE Fetch(c)
  <2>1. [r EXCEPT !.pc = "ok", !.lines = r.ask].pc = "ok"
    BY <1>0 DEF Client
  <2> QED BY <1>0, <1>7, <2>1 DEF Fetch, Goes
<1>8. CASE FetchFails(c)
  <2> DEFINE failed == {a[1] : a \in r.ask}
  <2>1. PICK pc \in {"exit", "ok"} :
          client'[c] = [r EXCEPT !.pc = pc, !.failed = failed]
    BY <1>0, <1>8 DEF FetchFails
  <2> HIDE DEF failed
  <2> QED BY <1>0, <2>1 DEF Client
<1> QED BY <1>1, <1>2, <1>3, <1>4, <1>5, <1>6, <1>7, <1>8 DEF Starts, Reads

(* A clean call has no opposite request beside it.                         *)
LEMMA NextCallsOK ==
  ASSUME Typed, CommandsOK, CallsOK, [Next]_vars
  PROVE  CallsOK'
<1>1. ASSUME UNCHANGED <<sources, net>>,
             \A d \in Clients : client'[d] = client[d] \/ client'[d].pc # "call"
      PROVE  CallsOK'
  BY <1>1 DEF CallsOK
<1>2. CASE UNCHANGED vars
  BY <1>1, <1>2 DEF vars
<1>3. CASE Stacks
  BY <1>1, <1>3, StacksTyped
<1>4. ASSUME NEW c \in Clients, Starts(c) \/ Reads(c) \/ Replied(c) \/ CallFails(c)
      PROVE  CallsOK'
  <2>1. CASE Starts(c) \/ Reads(c)
    <3>1. UNCHANGED <<sources, net>>
      BY <2>1, ReadsShape, StartsShape DEF OnlyReads
    <3>2. \A d \in Clients : d # c => client'[d] = client[d]
      BY <2>1, BecomesAlone DEF Starts, RunReader, RunGet, Run, Reads, ListNext,
         StatNext, StatOverflows, ListEnds, ListFails, Show, ShowFails, ShowEnds,
         Fetch, FetchFails, Goes
    <3>3. client'[c].pc # "call"
      BY <2>1, NoCall
    <3> QED BY <1>1, <3>1, <3>2, <3>3
  <2>2. CASE Replied(c) \/ CallFails(c)
    BY <1>1, <2>2, CallEnds DEF Replied, CallFails, OnlyReads
  <2> QED BY <1>4, <2>1, <2>2
<1>5. ASSUME NEW q \in net, Handle(q) \/ HandleFails(q) PROVE CallsOK'
  <2> SUFFICES ASSUME NEW d \in Clients, client'[d].pc = "call", client'[d].clean
               PROVE  /\ \A p \in net' : ~Opposite(p, client'[d].call)
                      /\ client'[d].call \notin net' =>
                           Done(client'[d].call, sources')
    BY DEF CallsOK
  <2>1. /\ client'[d] = client[d] /\ net' = net \ {q}
        /\ \/ sources' = sources /\ client[d].call # q
           \/ sources' = Applied(q)
    BY <1>5, HandleSteps
  <2>2. /\ \A p \in net : ~Opposite(p, client[d].call)
        /\ client[d].call \notin net => Done(client[d].call, sources)
        /\ client[d].call \in Request
    BY <2>1 DEF CallsOK, CommandsOK, CommandOK, AtPlace
  <2>3. CASE sources' = sources /\ client[d].call # q
    BY <2>1, <2>2, <2>3
  <2>4. CASE sources' = Applied(q)
    <3>1. CASE client[d].call = q
      BY <2>1, <2>2, <2>4, <3>1, AppliedEffect
    <3>2. CASE client[d].call # q
      BY <2>1, <2>2, <2>4, <3>2, DoneStays
    <3> QED BY <3>1, <3>2
  <2> QED BY <2>1, <2>3, <2>4
<1>6. ASSUME NEW c \in Clients, NEW kind \in {"bind", "unbind"}, NEW s \in Sids,
             NEW l \in Locations, RunBind(c, kind, s, l)
      PROVE  CallsOK'
  <2>1. PICK q \in Request : Binds(c, q)
    BY <1>6, BindSteps
  <2> SUFFICES ASSUME NEW d \in Clients, client'[d].pc = "call", client'[d].clean
               PROVE  /\ \A p \in net' : ~Opposite(p, client'[d].call)
                      /\ client'[d].call \notin net' =>
                           Done(client'[d].call, sources')
    BY DEF CallsOK
  <2>2. CASE d = c
    BY <2>1, <2>2 DEF Binds, Opposite
  <2>3. CASE d # c
    <3>1. /\ client'[d] = client[d] /\ ~Opposite(q, client[d].call)
          /\ net' = net \cup {q} /\ sources' = sources
      BY <1>6, <2>1, <2>3 DEF Binds, RunBind
    <3> QED BY <3>1 DEF CallsOK
  <2> QED BY <2>2, <2>3
<1> QED BY <1>2, <1>3, <1>4, <1>5, <1>6, NextCases

(* What has been answered cannot be undone by anything on its way.         *)
LEMMA NextKnownOK ==
  ASSUME Typed, CommandsOK, CallsOK, KnownOK, [Next]_vars
  PROVE  KnownOK'
<1>1. ASSUME UNCHANGED <<sources, net, known>> PROVE KnownOK'
  BY <1>1 DEF KnownOK
<1>2. CASE UNCHANGED vars
  BY <1>1, <1>2 DEF vars
<1>3. CASE Stacks
  BY <1>1, <1>3, StacksTyped
<1>4. ASSUME NEW c \in Clients, Starts(c) \/ Reads(c) \/ CallFails(c) PROVE KnownOK'
  BY <1>1, <1>4, ReadsShape, StartsShape DEF CallFails, OnlyReads
<1>5. ASSUME NEW q \in net, Handle(q) \/ HandleFails(q) PROVE KnownOK'
  <2>1. /\ net' = net \ {q} /\ known' = known
        /\ sources' \in {sources, Applied(q)}
    BY <1>5, HandleSteps
  <2>2. CASE sources' = sources
    BY <2>1, <2>2 DEF KnownOK
  <2>3. CASE sources' = Applied(q)
    <3> SUFFICES ASSUME NEW s \in Sids, NEW l \in Locations
                 PROVE  /\ known[s][l] = "in" =>
                             sources'[s].there /\ l \in sources'[s].locations
                        /\ known[s][l] = "out" => l \notin sources'[s].locations
      BY <2>1 DEF KnownOK
    <3>1. /\ known[s][l] = "in" => sources[s].there /\ l \in sources[s].locations
          /\ known[s][l] = "out" => l \notin sources[s].locations
          /\ q.s = s /\ q.l = l =>
               /\ known[s][l] = "in" => q.kind # "unbind"
               /\ known[s][l] = "out" => q.kind # "bind"
          /\ q.kind \in {"bind", "unbind"}
      BY DEF KnownOK, Typed, Request
    <3>2. CASE s # q.s \/ l # q.l
      BY <2>3, <3>1, <3>2, AppliedEffect
    <3>3. CASE s = q.s /\ l = q.l
      <4>1. Done(q, sources')
        BY <2>3, AppliedEffect
      <4> QED BY <3>1, <3>3, <4>1 DEF Done
    <3> QED BY <3>2, <3>3
  <2> QED BY <2>1, <2>2, <2>3
<1>6. ASSUME NEW c \in Clients, NEW kind \in {"bind", "unbind"}, NEW s \in Sids,
             NEW l \in Locations, RunBind(c, kind, s, l)
      PROVE  KnownOK'
  <2>1. PICK q \in Request : q.s = s /\ q.l = l /\ net' = net \cup {q}
    BY <1>6, BindSteps DEF Binds
  <2>2. sources' = sources /\ known' = [known EXCEPT ![s][l] = "?"]
    BY <1>6 DEF RunBind
  <2>3. ASSUME NEW t \in Sids, NEW m \in Locations
        PROVE  IF t = s /\ m = l THEN known'[t][m] = "?" ELSE known'[t][m] = known[t][m]
    BY <2>2 DEF Typed
  <2> QED BY <2>1, <2>2, <2>3 DEF KnownOK
<1>7. ASSUME NEW c \in Clients, Replied(c) PROVE KnownOK'
  <2> DEFINE q == client[c].call
             verdict == IF ~client[c].clean THEN "?"
                        ELSE IF q.kind = "bind" THEN "in" ELSE "out"
  <2>1. /\ known' = [known EXCEPT ![q.s][q.l] = verdict]
        /\ client[c].pc = "call" /\ q \notin net
        /\ UNCHANGED <<sources, net>>
    BY <1>7 DEF Replied
  <2>2. q \in Request /\ q.s \in Sids /\ q.l \in Locations
        /\ q.kind \in {"bind", "unbind"}
    BY <1>7, CallEnds DEF Request
  <2>3. client[c].clean =>
          Done(q, sources) /\ \A p \in net : ~Opposite(p, q)
    BY <2>1 DEF CallsOK
  <2>4. ASSUME NEW t \in Sids, NEW m \in Locations
        PROVE  IF t = q.s /\ m = q.l THEN known'[t][m] = verdict
                                    ELSE known'[t][m] = known[t][m]
    <3> HIDE DEF verdict
    <3> QED BY <2>1, <2>2 DEF Typed
  <2> HIDE DEF q
  <2>5. /\ verdict = "in" =>
             /\ sources[q.s].there /\ q.l \in sources[q.s].locations
             /\ \A p \in net : ~(p.kind = "unbind" /\ p.s = q.s /\ p.l = q.l)
        /\ verdict = "out" =>
             /\ q.l \notin sources[q.s].locations
             /\ \A p \in net : ~(p.kind = "bind" /\ p.s = q.s /\ p.l = q.l)
    BY <2>2, <2>3 DEF Done, Opposite
  <2> HIDE DEF verdict
  <2> QED BY <2>1, <2>4, <2>5 DEF KnownOK
<1> QED BY <1>2, <1>3, <1>4, <1>5, <1>6, <1>7, NextCases

-----------------------------------------------------------------------------
(* The inductive invariant holds at the start.                             *)
LEMMA InitIInv == Init => IInv
<1> SUFFICES ASSUME Init PROVE IInv
  OBVIOUS
<1>1. Typed /\ CountedOK
  BY NewShape, FS_EmptySet, BoundsAssumption DEF Init, Store!Init, Typed, CountedOK
<1>2. CommandsOK
  BY DEF Init, CommandsOK, CommandOK, AtPlace, LSOK, GetOK, StatOK, New
<1>3. CallsOK /\ KnownOK
  BY DEF Init, CallsOK, KnownOK, New
<1> QED BY <1>1, <1>2, <1>3 DEF IInv

(* Every step keeps the inductive invariant.                               *)
LEMMA NextIInv ==
  ASSUME IInv, [Next]_vars
  PROVE  IInv'
BY NextTyped, NextCountedOK, NextCommandsOK, NextCallsOK, NextKnownOK DEF IInv

(* The inductive invariant holds throughout.                               *)
LEMMA SpecIInv == Spec => []IInv
<1>1. IInv /\ [Next]_vars => IInv'
  BY NextIInv
<1> QED BY <1>1, InitIInv, PTL DEF Spec

(* The variables keep their types, and every stack there is has an id the  *)
(* Controller has counted past, for any number of stacks and clients       *)
(* (server.rs:49-78).                                                      *)
THEOREM SpecTypeOK == Spec => []TypeOK
<1>1. IInv => TypeOK
  BY DEF IInv, Typed, CountedOK, TypeOK
<1> QED BY <1>1, SpecIInv, PTL

(* Stat shows every stack that was there when it began, but those it could *)
(* not read, with the size of its payloads wherever that fits in the 32    *)
(* bits they are added in, for any bucket, writers and failures            *)
(* (main.rs:86-105).                                                       *)
THEOREM SpecStatRight == Spec => []StatRight
<1>1. IInv => StatRight
  <2> SUFFICES ASSUME IInv, NEW c \in Clients, At(c, "stat", "ok")
               PROVE  /\ \A s \in client[c].due \ client[c].failed :
                           \E row \in client[c].rows : row[1] = s
                      /\ \A row \in client[c].rows :
                           /\ row[1] \in Readable
                           /\ Sum(contents[row[1]]) < Span =>
                                row[2] = Sum(contents[row[1]])
    BY DEF StatRight
  <2>1. StatOK(client[c], Readable, contents) /\ Typed
    BY DEF IInv, CommandsOK, CommandOK
  <2>2. /\ \A s \in client[c].due \ client[c].failed :
             \E row \in client[c].rows : row[1] = s
        /\ \A row \in client[c].rows :
             row[1] \in Readable /\ row[2] = FullSize(contents[row[1]])
    BY <2>1 DEF StatOK, At
  <2>3. \A s \in Readable :
          Sum(contents[s]) < Span => FullSize(contents[s]) = Sum(contents[s])
    BY <2>1, FullSizeOK DEF Readable
  <2> QED BY <2>2, <2>3
<1> QED BY <1>1, SpecIInv, PTL

(* LS shows every stack that was there when it began, with all its records *)
(* and nothing half written, and Get finds what was readable, for any      *)
(* bucket, writers and failures (main.rs:106-175).                         *)
THEOREM SpecLSComplete == Spec => []LSComplete
<1>1. IInv => LSComplete
  <2> SUFFICES ASSUME IInv, NEW c \in Clients
               PROVE  LET r == client[c]
                      IN  /\ At(c, "ls", "ok") =>
                               /\ \A s \in r.due : Lines(s) \subseteq r.lines
                               /\ \A line \in r.lines :
                                    line[1] \in Readable /\ line[2] \in contents[line[1]]
                          /\ r.cmd = "get" /\ r.due # {} /\ r.failed = {} =>
                               /\ r.pc # "exit"
                               /\ r.pc = "ok" => r.lines = r.ask
    BY DEF LSComplete
  <2>1. LSOK(client[c], Readable, contents) /\ GetOK(client[c], Readable, contents)
    BY DEF IInv, CommandsOK, CommandOK
  <2> QED BY <2>1 DEF LSOK, GetOK, At, Lines
<1> QED BY <1>1, SpecIInv, PTL

(* A location whose Bind returned Ok stays in the Controller's document    *)
(* until it is cancelled, and is not in it again after that, for any       *)
(* clients and locations and in whatever order requests arrive             *)
(* (server.rs:81-130).                                                     *)
THEOREM SpecSourcesKept == Spec => []SourcesKept
<1>1. IInv => SourcesKept
  BY DEF IInv, KnownOK, SourcesKept
<1> QED BY <1>1, SpecIInv, PTL
=============================================================================
