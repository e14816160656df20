# Bytestack in TLA+

TLA+ modules that model the core of Bytestack, TLC configurations that check
them on small instances, and TLAPS proofs of the properties that matter most.
Sources are named relative to the repository.

## 1. The system

Bytestack bundles many small files into *stacks*. A stack is three files,
`.data` (payloads, each padded to 4 KiB blocks), `.meta` (a JSON line for each
record) and `.idx` (a 16-byte header and a 28-byte index record for each record). Writers append; a
put returns an *index_id* `stack,offset cookie` by which a reader finds the
payload. A Controller hands out stack ids and decides how many data servers
("bservers") preload a stack.

| Component | State | Operations | Talks to | What makes it correct |
| --- | --- | --- | --- | --- |
| File format (`core/src/types`) | none | record sizes, padding, index_id | used by all | records are whole blocks; every SDK computes the same layout |
| Rust `LocalWriter` (`sdk/rust/src/writer.rs`) | three open files, two offsets kept by hand, payload count | `open`, `put`, rotation, `close` | the file system, other writers through it, the Controller | index never ahead of data; what is acknowledged is durable, is where its id says, has an id of its own; stacks have one writer |
| Rust `S3Writer` (`sdk/rust/src/writer_s3.rs`) | three buffers, offsets, payload count, `closed` | `open`, `put`, rotation, `close` | the bucket, the Controller | objects appear data first; acknowledged puts are in the buffers or in the bucket; nothing published is replaced |
| Controller, ids (`services/controller/src/server.rs`) | a counter in MongoDB | `next_stack_id` | the writers | no id twice |
| Controller, preloads (same file) | one document for each replica of a stack | `pre_load`, `locate_stack` | MongoDB transactions, bservers | as many replicas as asked for; deleted ones left alone; requests are answered |
| Controller, sources (same file) | a set of locations for each stack | register, de-register, query | the CLI, through the core `Handler` | what is registered stays, and is answered as it was given, until somebody takes it back |
| Core opendal writer (`core/src/sdk/bs_opendal_writer.rs`) | at most one `InnerWriter` under a mutex, payload count | `put`, rotation, `close` | the bucket, the Controller | a published index describes exactly what was acknowledged; ids have one put; what a close reports as done is published |
| Core opendal reader (`core/src/sdk/bs_opendal_reader.rs`) | none but that of its iterators | `list`, `list_stack`, iterators, `fetch` | the bucket, while writers fill it | index record, meta line and payload that come together are of one put; a fetch gets the put it asks for |
| Go writer (`sdk/golang/bytestack`) | files or in-memory buffers, offsets, payload count, `closed` | `Open`, `Put`, rotation, `Close` | a directory or the bucket, the clock or the Controller | an index lists only what is there; what is acknowledged is on disk or in buffers that will be uploaded |
| Python writers (`sdk/python/bytestack_sdk`) | buffered files or rewound `BytesIO`s, offsets, payload count | `open`, `put`, rotation, `close` | as the Go writer | as the Go writer |
| Core `Handler` (`core/src/sdk/bs_opendal.rs`) | none | `open_reader`, `open_writer`, `bind_stack`, `unbind_stack`, `preload` | the reader and writer, the Controller | as what it opens |
| `bst` (`bin/bst`) | none but that of the command that runs | `LS`, `Stat`, `Get`, `Bind`, `Preload` | the `Handler` | a listing misses nothing and shows no half stack; a get is the whole payload; a location whose bind ended well stays registered |
| Turbo service, generated code, examples | none of interest | | | |

Hard behaviours:

* several `LocalWriter`s race for one timestamp in one directory;
* a put is a sequence of awaited writes and syncs to three files: an I/O error,
  a dropped future or a crash may come between any two, and may leave part of
  a record;
* rotation closes a stack before the next is open, and either half may fail;
* uploads and Controller calls take effect and lose their replies;
* `pre_load` runs an optimistic protocol on MongoDB transactions, with retries;
* opendal writers become objects only when they are closed, and a core writer
  that fails drops them with everything acknowledged so far;
* readers find a stack by its index and read the other files by sizes alone;
* a write that fails half way leaves bytes that the offsets kept by hand do not
  count, and in Go and Python buffers whose bytes arrive later, or never;
* closing three files fails at one of them, and the caller closes again;
* a listing takes several requests while stacks appear; a request that its
  caller gave up is carried out later;
* loops whose exit depends on an answer: the timestamp loop, the delete loop,
  the commit loop, the cursor loops.

`PROJECT.json` lists each hazard at its line, with the properties that watch it.

## 2. Modules

| Module | What it is |
| --- | --- |
| `StackFormat` | sizes of headers, records and padding (`types/data.rs`, and the other formula of the Go and Python SDKs) |
| `LocalWriter` | the local writer, its calls step by step, several writers on one directory |
| `LocalWriterInv` | its inductive invariants: `IInv`, and `FilesIInv` for where the records are |
| `LocalWriterProofs` | the proofs of its safety properties |
| `S3Writer` | the S3 writer |
| `IndexId` | how an index_id is written and parsed (`types/index.rs`, `utils/index_id.rs`) |
| `OpendalWriter` | the core writer on an object store, several of them |
| `OpendalWriterInv` | its inductive invariant `IInv` |
| `OpendalReader` | the core reader beside those writers: it extends `OpendalWriter` with one variable |
| `OpendalReaderInv` | the inductive invariant `ReadIInv` of writers and reader together |
| `StackStore` | the abstract specification: what a store of stacks promises, whatever its writers do inside |
| `OpendalStore` | the refinement mapping from `OpendalWriter` to `StackStore` |
| `OpendalProofs` | the proofs about `OpendalWriter`, `OpendalReader` and the refinement |
| `S3WriterProofs` | the inductive invariant of `S3Writer` and the proofs of its properties |
| `SdkStack` | what the Go and the Python writers share: directory or bucket, record fields, the common properties |
| `GoWriter`, `PyWriter` | the writers of the two SDKs, over files and over S3 |
| `SdkStackProofs` | theorems about record sizes and the two padding formulas, and lemmas both writers need |
| `GoWriterProofs`, `PyWriterProofs` | the inductive invariants of the two writers and the proofs of their properties |
| `Bst` | the commands of `bst`, the `Handler`, and the Controller's id and source handlers, beside a `StackStore` |
| `BstProofs` | the inductive invariant of `Bst` and the proofs of its properties |
| `Preload` | `pre_load` and `locate_stack` against MongoDB |
| `PreloadInv`, `PreloadProofs` | its inductive invariant and the proofs of its safety properties |
| `MCS3Writer`, `MCOpendal`, `MCPreload`, `MCGoWriter`, `MCPyWriter`, `MCBst` | instances for TLC: symmetry and values a `.cfg` cannot express |

### LocalWriter

`writer[w]` is the struct (`have`: which `Option<File>` are `Some`; `sid`,
`off`, `moff`, `raw`: `file_stack_id`, `data_offset`, `meta_offset`,
`total_raw_bytes`) and the locals of the call in progress. `pc` and `kind` name
the next `await` whose outcome matters; `call` says to what it returns. So
`Write`/`Sync` with `kind = "data"` is `writer.rs:285-290`, and so on. The `?`
after each await is the action's `...Fails` twin; dropping the future has the
same effect as such a failure. `Create` and `Header` follow
`open_stack`, `Flush` follows `flush_and_close`, and a rotation is a `Put` that
starts with `Flush` and goes through the same opening steps as `Open`.

`file[s][k]` keeps the true content: length, synced prefix, and the position of
every whole record. `book[n]` keeps what the put *believed* when it computed its
records. Most properties compare the two. `skew` records which failed put left
bytes that the offsets do not count. `Remote` are the writers that were given a
Controller; the others take ids from the clock (`ResolveLocal`, `ProbeTaken`,
`ProbeFree`).

Records of an index file lie at the length of its header and whole records
behind it (`IdxPlace`; 16 + 28i in the code). Header and record have sizes of
their own in the model too, and in no instance is the header a multiple of the
record.

### S3Writer

A put that does not rotate has no await and is one step. A rotation or a close
is one `Upload` step for each object; a rotation goes on to `Resolve`. An upload
or an answer may fail with or without its effect. `spoiled` records the two
failures after which weaker promises hold: a rotation that uploaded and got no
id, and a close whose upload failed. In both the code loses acknowledged puts, so
`AckedKept` excepts their stacks by name; of all others it says that a put is in
the bucket, or in buffers that an upload still to come will find
(`UploadComes`: no close has begun, or one is uploading).

### OpendalWriter and OpendalReader

`open_writer` and `open_reader` accept only `s3://` URLs, so the store is an
object store: an opendal writer collects (`buf[k]`), and closing it makes the
object (`object[s][k]`). `writer[w]` is `BytestackOpendalWriter`: `inner` says
whether there is an `InnerWriter`, in the mutex or taken by the call in
progress, whose fields follow. `put` takes it out of the mutex; the `?` of any
later call drops it, which is `AfterFailure`, and `abandoned` records the stack.
`CreateFails` is the one error that `put` unwraps under the lock: the mutex is
poisoned, puts panic, and `close` does nothing and returns `Ok`. Closing goes
through data, meta and index in this order, one `CloseWriter` for each, both for
`close` and for a put that found the stack full.

`put` needs `&mut self`, so a writer runs one call at a time. Only `close` takes
`&self`, and holds the mutex across its awaits: a second close on another thread
waits for the first and then finds nothing to do, one polled by the same task
blocks its thread for ever. The model has no two closes of one writer.

`reader` is one caller of the reader, an iterator of it included. The three
iterators differ in what they read beside the index (`wanted`). `IterateNext`
reads at its own positions, which advance by the sizes in the index records, and
returns whatever put is there; `IterateRight` says that it is always the right
one, that what was returned is a beginning of the stack without a gap, and that it
is all of it at the end. A request that fails before there is an iterator is an
error (`IterateFails`); one that `next` makes is answered by `None` like the end
(`NextFails`), and the caller, who stops there, has a part of the stack for all of it.
`cut` records that, and is the one exception of `IterateRight`. `Fetch` goes through `FormatIndexId` and `ParseIndexId` and compares the
cookie as the code does.

### Preload

One stack's documents and the requests about it. `req[c].pc` walks through
`pre_load` and `mongo_adjust_preload_replicas`, one step for each MongoDB
operation. MongoDB is external and modelled by what the code relies on: snapshot
reads from the first operation on, a write conflict instead of a lost update,
transient errors, commits with unknown results. `DocState` keeps of a document
only whether the filter `state != Deleting` matches it. `excuse` records that
an adjustment was overtaken by one that locked nothing, or went on after a lost
reply; both are findings of their own, and the exactness property is stated for
the others.

### StackStore and OpendalStore

A stack is `free`, then `open`, then `readable` as a whole or `lost` as a whole;
while it is open it takes in items, each item once over all stacks. In
`OpendalStore` a stack is readable when its index object is there, because
`list` finds stacks by their indexes, and its contents are then computed from
the three objects, the way a reader would (`Readable`); before that they are the
puts acknowledged in it. So the refinement says that publication, three uploads
in the code, is one step for readers, and that acknowledging a put is the moment
its stack takes it in.

### GoWriter and PyWriter

Nobody but its writer touches the files of an open stack, so that a stretch of a
call between two points where another writer matters is one step: choosing an id
(`Resolve`), creating the files (`Create`, where `O_EXCL` decides a race), the
magic headers, the three writes of a put, the closing of the three files. A
failure within a stretch leaves any prefix of its effects, the last one in part
(`Parts`). Ids come from the clock with files and from the Controller with S3;
`IdFor` lets them be any free ones in the first case.

`disk[s][k]` is what is in the directory or bucket, `writer[w].buf[k]` what the
writer has written to its file objects. In Go each write to a file arrives at once;
in Python it stays in the file object until it is flushed, and beyond that if the
flush fails; with S3 everything stays in memory until an upload. `hurt` names the stacks that a failure
left in a state which a later call misreads; each property names the excuse it
needs and no other.

The SDKs differ where the code does. Go closes `data, meta, idx`, remembers for
each whether it was closed, and passes over it the next time, even if its
`PutObject` failed (`Shut`); it keeps its files when a header write fails after a
rotation (`HeaderFails`), and panics on nil files when it could not create them
(`WritePanics`). Python closes its buffers as it uploads them, and a rewound
`BytesIO` whose upload failed keeps its position, so that the next put overwrites
what it holds (`WrittenAt`).

### Bst

A client is a shell in which one command runs after another. `LS` and `Stat`
are a `list` of the bucket in several requests (`ListNext`), in the order of
ids, and then one more for each stack (`Show`; `StatNext` with `list_al`'s sums in 32 bits); `Get` is `Fetch`.
`Bind` sends a request that is on its way (`net`) until the Controller handles
it (`Handle`), which may be after the caller has given up (`CallFails`). The
stacks in the bucket change as `StackStore` allows, which `OpendalWriter`
implements, with `nextId` handing out each stack. `known` is what callers can
conclude from the replies they got, and `Opposite` requests that overlap make it
unknown. `SourcesKept` compares it with the Controller's documents (`sources`);
what a query makes of them is `Answer`, in the quotes of `Quoted`, and that this is
not what was bound is the run `Bst_sources`. `FullSize` wraps at 2^32 and
`StatOverflows` panics there; `StatRight` demands the true sum of every stack below
that and excepts the others.

## 3. Runs

All constants are small stand-ins. The alignment is 4, or 3 in `LocalWriter`, and
the record header 1. Payloads of 1 and 4 or 6 bytes fit a block with padding or spill
into the next one, those of 1 and 2 in `LocalWriter` fill a block with padding or
without; the limits make stacks rotate. The index header is shorter than an index
record. Callers may stop calling, so no run
checks deadlock.

| Run | Instance | Shows |
| --- | --- | --- |
| `LocalWriter` | 2 writers with a clock, 1 with the Controller, 3 stacks, 2 openings, 2 puts, 1 fault, fairness | index after data, durability, offsets, files in step, unique ids, one owner for each stack, durable records and sealed stacks stay; every call returns; `FilesIInv` is an invariant |
| `LocalWriter_offset` | violation | a failed put misplaces the index_ids of the next ones |
| `S3Writer_faults` | 2 writers, 4 puts, 2 faults | publication order, nothing acknowledged is dropped or replaced |
| `S3Writer_close` | violation | a failed close cannot be repeated |
| `Opendal_readers` | 2 writers, 3 puts, 1 reader, 1 fault | what is published is whole and stays, ids are unique, a close leaves nothing behind; iterators and fetches are right; the writers implement `StackStore`; `ReadIInv` is an invariant |
| `Opendal_close` | violation | after a failed put, close returns Ok with acknowledged puts lost |
| `Preload_requests` | 2 requests, 1 `locate_stack`, targets from -1 to the cap, 2 faults, fairness | adjustments are exact, deleting replicas are left alone, a request with a live transaction ends; `IInv` is an invariant |
| `Preload_race` | violation | two requests from zero add up |
| `GoWriter`, `PyWriter` | 2 writers over files or S3, 3 stacks, 3 puts, 2 faults | an index lists only what is there, and acknowledged puts are on disk or in buffers that will get there, but for the excuses each property names |
| `Bst_commands` | 2 shells, 2 stacks, 2 puts of 3 bytes with sums modulo 4, 2 locations, 2 commands, 2 faults | listings are complete and whole, sizes right as long as they fit in 32 bits, registered locations are kept |
| `Bst_sources` | violation | a query answers no location as it was bound |

The violation runs end in what their finding in `PROJECT.json` says. Also met
while modelling, without a run of their own:

* Controller. `locate_stack` and the end of `pre_load` read documents with a
  struct whose fields `InnerPreLoad` lacks, so that they return no assignment
  (`Decoded`). A negative target makes the delete loop endless
  (`LiveRequestEnds` excepts it). At the end of the cursor `locate_stack` does
  not leave its loop (`Spin`). A retry after a lost reply undoes its own inserts
  and reports success; a conflict is retried for ever in a transaction the
  server has aborted.
* Rust `LocalWriter`. A put that fails between its three files leaves a data or meta
  record without an index record, and sequential readers pair the wrong ones from
  then on (`FilesInStep` excepts such stacks).
* Rust `S3Writer`. A rotation that uploads its stack and then gets no id goes on
  with empty, headerless buffers and the old name; the next upload replaces the
  finished objects (`spoiled` with "rotation").
* Go. A rotation or `Close` repeated after a failed `PutObject` passes over that
  file and publishes the index without it. A put after a rotation that could not
  create its files panics. A failed header write leaves `metaOffset` at its old
  value. `os.Stat` with any error but "not exist" keeps the loop of
  `resolveStackIDs` going (`writer.go:263-269`).
* Python. A failed `put_object` leaves the `BytesIO` where it stood, and the next
  put overwrites the header or acknowledged records. After an upload that failed
  part of the way, its buffers are closed and every later call raises
  `ValueError`.
* Go and Python. After a failed local write the offsets lag behind the file, and
  the index_ids of later puts are off, as in the Rust `LocalWriter`.
* Core reader and `bst`. `list_al` adds up sizes in 32 bits while a stack may hold
  5 GiB: it wraps, or panics in a debug build (`StatOverflows`), although
  `types/stack.rs:11` says "full_size sums all data". The iterators' `next` answers
  `None` to a failed request as it does at the end (`NextFails`). `Get` drops
  what `File::write` returns (`main.rs:173`). `open_reader` panics for anything but
  an `s3://` URL.
* `max_data_bytes` counts payload bytes only, so that a data file grows beyond the
  5 GiB that `docs/RFC.md` 6.4 sets for it. Puts to any of the S3 writers are
  acknowledged from memory: that is by design, and `AckedKept` excepts dead
  writers.

Bounds. Every bound is a constant (`MaxSid`, `MaxPuts`, `MaxOpens`, `MaxDocs`,
`MaxTries`, `MaxFaults`) and limits only how often callers or failures act.
Two writers are enough for a race for one stack, since the property compares two
owners. In `LocalWriter` a third one takes its ids from the Controller, which may
lose a reply, and beside it two puts are one before a failure and one after it, in a
stack or on both sides of a rotation; two openings reopen a writer after its close or
failure; three stacks leave one to rotate into, and the proofs cover more of each. In
the runs with three and more puts there is one before, one during and one after a
failure or a rotation, and two faults give a failure and another in its aftermath. `MaxDocs`
leaves room for all the inserts of all the requests, or a liveness run would
report the bound. In `Opendal_readers` there is one cookie, so that any two
cookies collide; payloads of 1 and 6 bytes with a limit of 5 let a stack hold
two records, rotate, and hold one that is longer than the limit; two stack ids
let each writer have a stack, or one of them rotate or begin anew after a
failure; more ids than that only add writers that do not meet, and the proofs
cover them. `GoWriter` and `PyWriter` have a stack for each writer and one to
rotate into, and their two faults are a failure and the retry that meets it, or
a death in its aftermath. In `Bst_commands` two payloads of 3 bytes exceed the
modulus of 4, so that the sum wraps, and one does not, so that `StatRight` compares it; two stacks let one become readable behind the
listing's position and one ahead of it; two commands let a bind overlap its
opposite or a listing; the proofs cover more of each. The proofs need none of the
bounds.

Fairness. `LocalWriter!FairSpec` requires only that a call in progress is polled
and its file or remote operation returns, with success or with an error
(weak fairness of `Step(w)`; a failure disables the step it replaces). No call,
failure or clock value is fair. `Preload!FairSpec` says the same of a request
received, plus of the spinning loop, which is why that loop is a
counterexample and not a stop.

## 4. Proofs

Every safety property and every action property that a run checks is also a
theorem, for any writers, requests, payloads and bounds, and so is the
refinement of `StackStore`. None of the properties is inductive: each module has an
invariant that is, most of them conjunctions of named parts, and the proof of a
module follows one plan. A few lemmas say what kinds of step there are and
what each kind preserves, one lemma for each action says of which kind it is, and
`NextIInv` (or `Invariance`, `SpecIInv`) puts them together.

Assumptions: the named `ASSUME`s of the modules (sizes are positive naturals,
bounds are naturals, clock values are among the ids, cookies fit their field).
TLC evaluates them.

### Record sizes (`SdkStackProofs`)

For every alignment, header size and payload a record takes whole blocks and
less than one block more than it needs, and the two padding formulas agree. The
other proofs use that a record has a positive size.

### LocalWriter (`LocalWriterProofs`)

`TypeOK`, `IndexAfterData`, `AckedDurable`, `AckedIdsUnique`, `ExclusiveStack`,
`AckedLocated`, `FilesInStep`, and the action properties `NeverRewritten` and
`SealedFrozen`.

1. That a durable record is never lost needs that headers go into empty files
   only (`OwnersOK`), which needs that the stack being opened has no other owner
   (`ExclusiveStack`), which needs `create_new` and that `.data` is created first
   (`FilesOK`). That ids are unique needs that `data_offset` is beyond every
   acknowledged offset of its stack (`OffsetOK`), which needs that records
   have a size. That an index record has its data needs how far the
   put in progress has come (`PutOK`) and that its number is its own
   (`NumbersOK`). `IInv` is the conjunction.
2. Steps that touch no file are handled by one lemma (`QuietStep`), steps on
   files that are still empty by a second (`EmptyFileStep`), and growth of a
   file by its owner by a third (`OwnFileStep`).
3. Where the records are is `FilesIInv`, on top of `IInv`. The offsets kept by
   hand are the lengths of the files (`LenOK`), until a put to the stack fails half
   way (`Clean`), so that what is written after that is not located, but
   what was written before stays: `PlaceOK` for the put in progress, `AckedPlaced`
   for those acknowledged. This needs that failures are recorded under the numbers of
   puts that are over (`SkewOK`), and that puts are booked for stacks that
   exist and in the order of their numbers (`BookOK`). TLC checks `FilesIInv` in
   `LocalWriter`.
4. Records lie in the order of their puts, one for each (`OrderOK`), whatever
   fails. So the rank of an acknowledged put is the number of puts that have a
   record before it in its file. If those that were not acknowledged left nothing,
   these are the acknowledged puts with smaller numbers, in all three files:
   `FilesInStep`, by a bijection between records and puts.
5. `SealedFrozen` follows from `IInv` and a step: files grow only by the hand of
   their owner, or when they are created.

### S3Writer (`S3WriterProofs`)

All six properties, the action property `PublishedStays` included.

1. An upload replaces an object by the content of a buffer. That this loses nothing
   needs that the buffers of a writer hold exactly what was acknowledged in its
   stack, at the offsets the book has, and all that its objects hold
   (`BufferOK`, with `Filled` and `Covered`), as long as no rotation failed after
   its upload; and that no other writer has the stack (`StacksOK`).
2. That the index comes last needs to know how far an upload has got
   (`Covered`): objects uploaded earlier in it are the buffers themselves, and
   buffers do not change during a call.
3. A close promises the puts of stacks rotated away too; that they are published
   is `RotatedOK`. That offsets are not given out twice needs that those in use lie
   below the writer's own (`BookOK`), and that records have positive sizes.
4. What a step may do is stated once (`Step`: `WriterStep`, `BookStep`,
   `ObjectStep`); a lemma for each action shows that it is such a step. Every
   conjunct of `IInv` but `BufferOK` follows from `Step` alone; `BufferOK` of the
   acting writer has a lemma for each action.

### The core writer, the reader and StackStore (`OpendalProofs`)

Of the writers alone (`WriterSpec`): `TypeOK`, `PublishedWhole`, `AckedIdsUnique`,
`ClosedPublished`, the action property `PublishedStays`, and `IndexIdRoundTrip`: an
index_id is parsed into what it was made of, as long as the cookie fits its field.

1. That a published index is whole needs that the buffers of an `InnerWriter`
   hold exactly the acknowledged puts of its stack, at the offsets the writer
   counts, and that its objects closed so far, and no others, are there
   (`InnerOK`); that needs that no other writer works on the stack (`Apart`),
   and that stacks not given out yet are untouched (`FreshOK`).
   `ClosedPublished` needs to know where each acknowledged put is (`Accounted`).
2. Steps that publish nothing and acknowledge nothing are one lemma
   (`QuietStep`), those that publish an object another (`PublishStep`);
   `WriteStep` is the only one that acknowledges.

The writers implement `StackStore` (`SpecImplementsStore`): the initial states map
to the initial state, and every step to a step of `StackStore` or a stutter.

1. The contents computed from the objects of a readable stack are exactly what was
   acknowledged in it: this is `PublishedWhole`, proved before (`ContentsAcked`).
2. A stack that is abandoned has no index and never gets one (`AbandonedOK`); so
   `readable` and `lost` exclude each other, and both are final.
3. Each action of `OpendalWriter` moves the phase of at most one stack
   (`PhaseStep`): an id given out is `Begin`, closing the index is `Publish`,
   whatever drops an `InnerWriter` is `Lose`. A put that is acknowledged is `TakeIn`
   of a number no stack has (`TakeInStep`). Every other step is a stutter.

Of writers and reader together (`Spec`): `ReaderTypeOK`, `IterateRight`,
`FetchRight`, and all of the above again.

1. An iterator adds up the sizes it finds in the index and looks at no offset. That
   it ends up where the writers put the records needs that the three files of a
   stack are laid out in step: the records in one order in all of them, the first
   behind the header, each where the one before ends (`Laid`). This
   holds of the buffers of an `InnerWriter`, and so of what is published
   (`LaidOut`).
2. What an iterator has returned and what is left to it are the whole index of a
   stack that cannot change any more, and its positions are those of the first
   record that is left (`ReaderOK`); after a `next` that failed, what it returned is
   still all that lies before some offset.
3. A fetch reads at an offset. A data object, published or not, holds acknowledged
   puts only, each where its id says (`DataObjects`), and no two of them at one
   offset (`AckedIdsUnique`): what is found is what was asked for, equal cookies or not.
4. Steps of writers preserve what a reader knows, since they change no published
   stack; steps of the reader leave the writers' variables alone, but for
   `faults`. TLC checks the conjunction, `ReadIInv`, in `Opendal_readers`.

### The Go and Python SDKs (`GoWriterProofs`, `PyWriterProofs`)

`TypeOK`, `IndexAfterData` and `AckedKept` of both, over both backends; and what no
run checks, that no step takes a record out of a file or an object
(`SpecNothingRemoved`; in Python with the exception of overwritten buffers).

1. A living writer knows of its stack what it has written (`StackOK`): with files
   in Go the directory holds just that, in Python a part of it that has the payload
   and meta line of whatever the index buffer lists, flushed or not (`FilesOK`);
   with S3 the objects of the kinds it has closed, and no index before
   the others (`ObjectsOK`). As long as no write failed on the stack, its offsets
   are where its files end (`InStep`), and so the records acknowledged next are
   where their ids say.
2. That another writer does not interfere is `Apart`, with `DiskOK`: `O_EXCL` on
   the data file, or an id the Controller gave to one of them only.
3. What a step may do is stated once: `WriterStep`, `DiskStep` (files and objects of
   its own stacks only grow), `BookStep`, and `BufferStep`, which says what becomes
   of buffers nobody has tried to close: they are uploaded, kept, or named in
   `hurt`. The excuses in the properties are those this needs.

### bst and the Controller's sources (`BstProofs`)

`TypeOK`, `LSComplete`, `StatRight` and `SourcesKept`, for any shells, stacks, puts,
locations and failures.

1. A readable stack never changes (`StackStore`), so that what
   a command has collected stays right while it goes on: `LSOK` says that the stacks
   that were due are shown, still to be shown, or ahead of the listing; `StatOK`
   the same of rows; `GetOK` that an answer is what was asked for. `CommandLater`
   carries them over the steps of writers.
2. The sum over the records of a stack is a fold. That it is a
   natural number, and that adding a record adds its size, is induction over
   a finite set, which is here a smallest counterexample (`SmallestSubset`, from
   the well-foundedness of strict subsets): the library's induction theorems are out of
   the provers' reach, this form of the argument is not.
3. What callers conclude from their replies holds of the documents, and no request
   on its way can undo it (`KnownOK`). A call that waits and is clean has no
   opposite request beside it, and once it has been handled its effect is there
   (`CallsOK`).

### pre_load (`PreloadProofs`)

`TypeOK` and the action properties `AdjustExact` and `DeletingIgnored`.

1. What an open transaction has counted and locked stays as it is: others conflict
   with it (`WritesApart`, and `SnapshotOK`: nobody has touched what is locked, and
   whatever is live and was not counted has been touched since the count).
2. That nothing new appears beside it is where the optimistic lock ends: an
   insert conflicts with nothing. But whoever inserts either counted nothing, and
   that is what `overtaken` records, or commits a change to all it counted: one of
   these was counted here too, or is a newcomer itself, and then the same was true
   before. So a newcomer implies that something counted has been touched (`NewcomersOK`); a request with all it counted locked and
   untouched has no newcomers beside it.
3. The progress of the loops is in `left`: the difference between what is
   counted now and the target, until the request commits at zero (`ProgressOK`),
   unless a reply was lost in between.
4. `AdjustExact` follows at the commit: what is live is what was counted, less what
   was deleted and with what was inserted. TLC checks `IInv` in `Preload_requests`.

### Only model-checked

* Liveness: `CallReturns`, `LiveRequestEnds`. They rest on fairness, which is out of
  the prover's reach.
* The violation runs: their counterexamples are what they show.

## 5. Abstractions

* In `LocalWriter` and `S3Writer` the cookie of a record is its put's number:
  two puts never draw the same one, and `AckedIdsUnique` does not use it. In
  `OpendalWriter` it is drawn from a set, and puts may draw the same one.
* Requests of the reader read one object each and are atomic; objects are only
  replaced as wholes.
* Creating a file is durable at once (the code never syncs the directory).
  Of unsynced records a crash keeps any subset; a failed sync keeps the pages,
  so that a later sync may still write them.
* `tokio::fs::File` hands writes to another thread and may report an error at
  the next operation on the file; here it is reported by the operation itself.
* All meta lines have one length; their JSON is not modelled.
* An upload is atomic: S3 replaces whole objects, and a request that failed has
  taken effect by the time the caller knows, or never does.
* `update_many` is one atomic operation of its transaction.
* Payloads are their sizes; checksums are not modelled.

* In `GoWriter` and `PyWriter` the clock's ids are any free ones, and the loop that
  looks for one is a single step; the CRC and JSON lines are left out. Bytes that a
  failed flush leaves in a Python file object reach the file with a later flush, with
  `close`, or not at all.
* `Bst` prints nothing: a line or row shown is a member of a set, since no property
  is about their order or looks.

Not modelled: `batch_fetch` of the core reader and the turbo service (both
`todo!()`), generated protocol code, start-up and argument parsing, configuration
and the operators it builds, logging and printing, byte encodings, checksums and
magic values (but for their presence), examples, the mock Controller of the Go
tests. Two closes of one core writer at once: `&self` allows them, but no caller in
the repository does it, and the interesting outcome, a thread that blocks itself on
a mutex it holds, is a fact about one executor thread rather than about the
writer's states.

## 6. Plan

| Module | Content | Status |
| --- | --- | --- |
| `StackFormat` | sizes | done, proved |
| `LocalWriter` | writer, two inductive invariants | done; its safety proved |
| `S3Writer` | writer, inductive invariant | done, proved |
| `Preload` | replicas, inductive invariant | done; its safety proved |
| `IndexId`, `OpendalWriter` | core writer, inductive invariant | done, proved |
| `OpendalReader` | `list`, iterators and `fetch` while writers publish | done, proved |
| `StackStore`, `OpendalStore` | what the core writers promise, and that they do | done, proved |
| `GoWriter`, `PyWriter` | the other SDKs | done, proved |
| `Bst` | commands, `Handler`, ids and sources of the Controller | done, proved |

What would add most next: a weaker `StackStore` in which published stacks may grow,
for `LocalWriter` and the writers of the other SDKs, whose stacks are readable before
they are closed; that `S3Writer` implements `StackStore` but for its two excuses;
the safety halves of the liveness properties, such as a measure that each turn of
the timestamp loop decreases.
