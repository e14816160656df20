-------------------------------- MODULE Bst --------------------------------
(***************************************************************************)
(* Users of a bucket of stacks: the commands of bst (bin/bst/src/bin/      *)
(* main.rs) through the Handler and the reader of the core crate           *)
(* (core/src/sdk/bs_opendal.rs, bs_opendal_reader.rs), while writers go on *)
(* and the Controller (services/controller/src/server.rs) hands out stack  *)
(* ids and keeps the locations bound to stacks.                            *)
(*                                                                         *)
(* Of the writers only their promise is here, StackStore, which            *)
(* OpendalWriter implements.  A client is a place to run one command after *)
(* another from.                                                           *)
(***************************************************************************)
EXTENDS Integers, FiniteSets, FiniteSetsExt

CONSTANTS
  Clients,    \* the shells commands are run in
  Ids, Sizes, \* puts: which one it is, and the size of its payload
  Locations,  \* strings given to bind
  MaxSid,     \* bound on stack ids
  Span,       \* 2^32: size_data and the sum of list_al are u32
  MaxRuns,    \* bound on commands
  MaxFaults   \* bound on failed requests

Sids == 1 .. MaxSid
Items == Ids \X Sizes

ASSUME SpanAssumption == Span \in Nat \ {0} /\ Sizes \subseteq 0 .. Span - 1
ASSUME BoundsAssumption ==
  MaxSid \in Nat /\ MaxRuns \in Nat /\ MaxFaults \in Nat

VARIABLES
  phase, contents,  \* the stacks in the bucket: see StackStore
  nextId,           \* the Controller's next_stack_id
  sources,          \* sources[s]: the Controller's document on stack s
  net,              \* requests to the Controller that are on their way
  client,           \* client[c]: the command run last, and how far it is
  known,            \* known[s][l]: whether l is bound to s, as callers can
                    \* tell from the replies they got: "in", "out" or "?"
  runs, faults

Store == INSTANCE StackStore WITH Stacks <- Sids

stacks == <<phase, contents>>
vars == <<phase, contents, nextId, sources, net, client, known, runs, faults>>

Request == [run : 1 .. MaxRuns, kind : {"bind", "unbind"},
            s : Sids, l : Locations]
NoRequest == [run |-> 0]

(* at: the ids the listing has passed; todo: ids listed and not yet shown; *)
(* lines, rows: what LS and Get wrote, what Stat wrote; due: the stacks    *)
(* that were readable when the command began; failed: stacks a request     *)
(* about failed; ask: what Get is to fetch.  call, clean: the request of a *)
(* Bind, and whether no opposite one has been on its way meanwhile.        *)
Client ==
  [pc : {"idle", "list", "show", "fetch", "call", "ok", "exit", "panic"},
   cmd : {"none", "ls", "stat", "get", "bind"},
   at : 0 .. MaxSid, todo : SUBSET Sids,
   lines : SUBSET (Sids \X Items), rows : SUBSET (Sids \X (0 .. Span - 1)),
   due : SUBSET Sids, failed : SUBSET Sids, ask : SUBSET (Sids \X Items),
   call : Request \cup {NoRequest}, clean : BOOLEAN]

New == [pc |-> "idle", cmd |-> "none", at |-> 0, todo |-> {},
        lines |-> {}, rows |-> {}, due |-> {}, failed |-> {}, ask |-> {},
        call |-> NoRequest, clean |-> FALSE]

Init ==
  /\ Store!Init
  /\ nextId = 1
  /\ sources = [s \in Sids |-> [there |-> FALSE, locations |-> {}]]
  /\ net = {}
  /\ client = [c \in Clients |-> New]
  /\ known = [s \in Sids |-> [l \in Locations |-> "out"]]
  /\ runs = 0
  /\ faults = 0

-----------------------------------------------------------------------------
At(c, cmd, pc) == client[c].cmd = cmd /\ client[c].pc = pc
Becomes(c, r) == client' = [client EXCEPT ![c] = r]
Goes(c, pc) == Becomes(c, [client[c] EXCEPT !.pc = pc])
Fault == faults < MaxFaults /\ faults' = faults + 1

Readable == {s \in Sids : phase[s] = "readable"}
Lines(s) == {s} \X contents[s]

(* What a command leaves alone that asks the bucket, and nothing else. *)
OnlyReads == UNCHANGED <<phase, contents, nextId, sources, net, known>>

(* A new process. *)
Run(c, r) ==
  /\ client[c].pc \in {"idle", "ok", "exit", "panic"}
  /\ runs < MaxRuns
  /\ runs' = runs + 1
  /\ Becomes(c, r)
  /\ UNCHANGED faults

-----------------------------------------------------------------------------
(* The writers, and the Controller that gives them their ids. *)

(* Mutant of Counted: find_one_and_update without its $inc. *)
Uncounted(n) == n

Counted(n) == n + 1

(* The document as it was before the update is answered; the reply may be  *)
(* lost, or the id be for a stack elsewhere.                               *)
NextStackId ==
  /\ nextId \in Sids
  /\ nextId' = Counted(nextId)
  /\ Store!Begin(nextId) \/ UNCHANGED stacks
  /\ UNCHANGED <<sources, net, client, known, runs, faults>>

Write(s) ==
  /\ \/ \E n \in Items : Store!TakeIn(s, n)
     \/ Store!Publish(s)
     \/ Store!Lose(s)
  /\ UNCHANGED <<nextId, sources, net, client, known, runs, faults>>

-----------------------------------------------------------------------------
(* LS and Stat. *)

(* open_reader: whatever is no "s3://bucket/..." is a panic, for the       *)
(* scheme, in parse_s3_url or at the unwrap of its error.                  *)
Opened(path) == path = "s3"

RunReader(c, cmd, path) ==
  /\ Run(c, [New EXCEPT !.cmd = cmd,
                        !.pc = IF Opened(path) THEN "list" ELSE "panic",
                        !.due = Readable])
  /\ OnlyReads

(* list goes through the names of the bucket page by page: what becomes    *)
(* readable behind it is not found.                                        *)
ListNext(c) ==
  LET r == client[c]
      s == r.at + 1
  IN  /\ At(c, "ls", "list")
      /\ r.at < MaxSid
      /\ Becomes(c, [r EXCEPT !.at = s, !.todo = @ \cup ({s} \cap Readable)])
      /\ OnlyReads /\ UNCHANGED <<runs, faults>>

Sum(items) == MapThenSumSet(LAMBDA n : n[2], items)

(* Mutant of FullSize: size_meta is summed, 2 for each record. *)
MetaSize(items) == (2 * Cardinality(items)) % Span

(* The sum wraps in a release build. *)
FullSize(items) == Sum(items) % Span

(* list_al reads the index of each stack as it goes.  A stack it fails to  *)
(* read is left out.                                                       *)
StatNext(c) ==
  LET r == client[c]
      s == r.at + 1
      row == [r EXCEPT !.at = s, !.rows = @ \cup {<<s, FullSize(contents[s])>>}]
      none == [r EXCEPT !.at = s]
  IN  /\ At(c, "stat", "list")
      /\ r.at < MaxSid
      /\ \/ s \in Readable /\ Becomes(c, row) /\ UNCHANGED faults
         \/ s \in Readable /\ Fault
              /\ Becomes(c, [none EXCEPT !.failed = @ \cup {s}])
         \/ s \notin Readable /\ Becomes(c, none) /\ UNCHANGED faults
      /\ OnlyReads /\ UNCHANGED runs

(* A debug build panics where the sum overflows. *)
StatOverflows(c) ==
  LET s == client[c].at + 1
  IN  /\ At(c, "stat", "list")
      /\ s \in Readable
      /\ Sum(contents[s]) >= Span
      /\ Goes(c, "panic")
      /\ OnlyReads /\ UNCHANGED <<runs, faults>>

ListEnds(c) ==
  /\ client[c].pc = "list" /\ client[c].at = MaxSid
  /\ Goes(c, IF client[c].cmd = "ls" THEN "show" ELSE "ok")
  /\ OnlyReads /\ UNCHANGED <<runs, faults>>

ListFails(c) ==
  /\ client[c].pc = "list"
  /\ Fault
  /\ Goes(c, "exit")
  /\ OnlyReads /\ UNCHANGED runs

(* list_stack for each id, in the order of the list. *)
First(ids) == {s \in ids : \A t \in ids : s <= t}

Show(c) ==
  LET r == client[c]
  IN  /\ At(c, "ls", "show")
      /\ \E s \in First(r.todo) :
           Becomes(c, [r EXCEPT !.todo = @ \ {s}, !.lines = @ \cup Lines(s)])
      /\ OnlyReads /\ UNCHANGED <<runs, faults>>

(* Mutant of NotListed: LS goes on to the next stack, as list_al does. *)
NextListed(r, s) == [r EXCEPT !.todo = @ \ {s}]

(* list_stack fails: exit(1). *)
NotListed(r, s) == [r EXCEPT !.pc = "exit"]

ShowFails(c) ==
  /\ At(c, "ls", "show")
  /\ Fault
  /\ \E s \in First(client[c].todo) : Becomes(c, NotListed(client[c], s))
  /\ OnlyReads /\ UNCHANGED runs

ShowEnds(c) ==
  /\ At(c, "ls", "show") /\ client[c].todo = {}
  /\ Goes(c, "ok")
  /\ OnlyReads /\ UNCHANGED <<runs, faults>>

-----------------------------------------------------------------------------
(* Get, of an index_id a put has returned. *)
RunGet(c, s, n, path) ==
  /\ n \in contents[s]
  /\ Run(c, [New EXCEPT !.cmd = "get", !.ask = {<<s, n>>},
                        !.pc = IF Opened(path) THEN "fetch" ELSE "panic",
                        !.due = {s} \cap Readable])
  /\ OnlyReads

(* The data file is there before the stack is readable, and perhaps when   *)
(* it never will be.                                                       *)
Fetch(c) ==
  LET r == client[c]
  IN  /\ At(c, "get", "fetch")
      /\ \/ Becomes(c, [r EXCEPT !.pc = "ok", !.lines = r.ask])
         \/ r.ask \cap UNION {Lines(s) : s \in Readable} = {} /\ Goes(c, "exit")
      /\ OnlyReads /\ UNCHANGED <<runs, faults>>

(* A failed request is exit(1).  A target that takes in only part of the   *)
(* payload is none: what write returns is dropped.                         *)
FetchFails(c) ==
  LET r == client[c]
  IN  /\ At(c, "get", "fetch")
      /\ Fault
      /\ \E pc \in {"exit", "ok"} :
           Becomes(c, [r EXCEPT !.pc = pc, !.failed = {a[1] : a \in r.ask}])
      /\ OnlyReads /\ UNCHANGED runs

-----------------------------------------------------------------------------
(* Bind, with or without --cancel: bind_stack or unbind_stack. *)

Opposite(q, r) == q.kind # r.kind /\ q.s = r.s /\ q.l = r.l

(* The path is not looked at.  From here on nobody knows whether it is     *)
(* bound, until a reply comes.                                             *)
RunBind(c, kind, s, l) ==
  LET q == [run |-> runs + 1, kind |-> kind, s |-> s, l |-> l]
      crossed(r) == r.pc = "call" /\ Opposite(q, r.call)
  IN  /\ client[c].pc \in {"idle", "ok", "exit", "panic"}
      /\ runs < MaxRuns
      /\ runs' = runs + 1
      /\ net' = net \cup {q}
      /\ client' =
           [d \in Clients |->
              IF d = c
                THEN [New EXCEPT !.cmd = "bind", !.pc = "call", !.call = q,
                                 !.clean = \A p \in net : ~Opposite(p, q)]
              ELSE IF crossed(client[d]) THEN [client[d] EXCEPT !.clean = FALSE]
              ELSE client[d]]
      /\ known' = [known EXCEPT ![s][l] = "?"]
      /\ UNCHANGED <<phase, contents, nextId, sources, faults>>

(* Mutant of Registered: $set instead of $addToSet. *)
SetTo(locations, l) == {l}

Registered(locations, l) == locations \cup {l}

(* update_one: $addToSet makes the document when there is none, $pull does *)
(* not.                                                                    *)
Applied(q) ==
  IF q.kind = "bind"
    THEN [sources EXCEPT ![q.s] =
            [there |-> TRUE, locations |-> Registered(@.locations, q.l)]]
    ELSE [sources EXCEPT ![q.s].locations = @ \ {q.l}]

(* register_stack_source or de_register_stack_source, perhaps long after   *)
(* its caller is gone.                                                     *)
Handle(q) ==
  /\ net' = net \ {q}
  /\ sources' = Applied(q)
  /\ UNCHANGED <<phase, contents, nextId, client, known, runs, faults>>

(* MongoDB is not reached, or its reply is lost: the caller gets an error. *)
HandleFails(q) ==
  /\ Fault
  /\ net' = net \ {q}
  /\ sources' \in {sources, Applied(q)}
  /\ client' = [d \in Clients |->
                  IF client[d].pc = "call" /\ client[d].call = q
                    THEN [client[d] EXCEPT !.pc = "exit"] ELSE client[d]]
  /\ UNCHANGED <<phase, contents, nextId, known, runs>>

Replied(c) ==
  LET r == client[c]
  IN  /\ r.pc = "call" /\ r.call \notin net
      /\ Goes(c, "ok")
      /\ known' = [known EXCEPT ![r.call.s][r.call.l] =
                     IF ~r.clean THEN "?"
                     ELSE IF r.call.kind = "bind" THEN "in" ELSE "out"]
      /\ UNCHANGED <<phase, contents, nextId, sources, net, runs, faults>>

(* The connection breaks, wherever the request is by then. *)
CallFails(c) ==
  /\ client[c].pc = "call"
  /\ Fault
  /\ Goes(c, "exit")
  /\ OnlyReads /\ UNCHANGED runs

(* Bson's Display puts strings in quotes. *)
Quoted(l) == <<"quote", l, "quote">>

(* query_registered_source.  Without a document the answer is an error,    *)
(* which has no locations either.                                          *)
Answer(s) ==
  IF sources[s].there THEN {Quoted(l) : l \in sources[s].locations} ELSE {}

-----------------------------------------------------------------------------
Next ==
  \/ NextStackId
  \/ \E s \in Sids : Write(s)
  \/ \E q \in net : Handle(q) \/ HandleFails(q)
  \/ \E c \in Clients :
       \/ \E cmd \in {"ls", "stat"}, path \in {"s3", "other"} :
            RunReader(c, cmd, path)
       \/ ListNext(c) \/ StatNext(c) \/ StatOverflows(c)
       \/ ListEnds(c) \/ ListFails(c)
       \/ Show(c) \/ ShowFails(c) \/ ShowEnds(c)
       \/ \E s \in Sids, n \in Items, path \in {"s3", "other"} :
            RunGet(c, s, n, path)
       \/ Fetch(c) \/ FetchFails(c)
       \/ \E kind \in {"bind", "unbind"}, s \in Sids, l \in Locations :
            RunBind(c, kind, s, l)
       \/ Replied(c) \/ CallFails(c)

Spec == Init /\ [][Next]_vars

-----------------------------------------------------------------------------
(* Type invariant.  The Controller has counted every stack there is        *)
(* (server.rs:49-78).                                                      *)
TypeOK ==
  /\ phase \in [Sids -> {"free", "open", "readable", "lost"}]
  /\ contents \in [Sids -> SUBSET Items]
  /\ nextId \in Nat
  /\ \A s \in Sids : phase[s] # "free" => s < nextId
  /\ sources \in [Sids -> [there : BOOLEAN, locations : SUBSET Locations]]
  /\ net \subseteq Request
  /\ client \in [Clients -> Client]
  /\ known \in [Sids -> [Locations -> {"in", "out", "?"}]]
  /\ runs \in 0 .. MaxRuns /\ faults \in 0 .. MaxFaults

(* An LS that ends well has shown every stack that was readable when it    *)
(* began, with all its records, and nothing that is not in a readable      *)
(* stack, whatever is written meanwhile and whichever request fails; and   *)
(* a Get of such a record ends well with its payload unless a request or   *)
(* the write to its target fails (main.rs:106-175,                         *)
(* bs_opendal_reader.rs:145-168, 212-266).                                 *)
LSComplete ==
  \A c \in Clients :
    LET r == client[c]
    IN  /\ At(c, "ls", "ok") =>
             /\ \A s \in r.due : Lines(s) \subseteq r.lines
             /\ \A line \in r.lines :
                  line[1] \in Readable /\ line[2] \in contents[line[1]]
        /\ r.cmd = "get" /\ r.due # {} /\ r.failed = {} =>
             /\ r.pc # "exit"
             /\ r.pc = "ok" => r.lines = r.ask

(* A Stat that ends well has a row for every stack that was readable when  *)
(* it began, but those it could not read, and in it the size of all its    *)
(* payloads (types/stack.rs:11, "full_size sums all data").  Excepted are  *)
(* stacks of Span bytes or more, whose sum is more than the u32 it is      *)
(* added in: their row is off by a multiple of Span, or the debug build    *)
(* panics (main.rs:86-105, bs_opendal_reader.rs:171-208).                  *)
StatRight ==
  \A c \in Clients :
    LET r == client[c]
    IN  At(c, "stat", "ok") =>
          /\ \A s \in r.due \ r.failed : \E row \in r.rows : row[1] = s
          /\ \A row \in r.rows :
               /\ row[1] \in Readable
               /\ Sum(contents[row[1]]) < Span => row[2] = Sum(contents[row[1]])

(* A location whose Bind returned Ok is in the Controller's document on    *)
(* the stack until somebody cancels it, and one whose Bind --cancel        *)
(* returned Ok is not, whatever else is bound at the same time, unless an  *)
(* opposite call overlapped, or was given up and may still arrive          *)
(* (server.rs:81-130, bs_opendal.rs:106-129).                              *)
SourcesKept ==
  \A s \in Sids, l \in Locations :
    /\ known[s][l] = "in" => l \in sources[s].locations
    /\ known[s][l] = "out" => l \notin sources[s].locations

(* A query answers with the locations that were bound to the stack         *)
(* (controller.proto:17, "StackSource stores locations where the stack     *)
(* is"; docs/design.md:14).  Refuted: they come back in quotes             *)
(* (server.rs:159).                                                        *)
AnswersLocations ==
  \A s \in Sids, l \in Locations : known[s][l] = "in" => l \in Answer(s)
=============================================================================
