--------------------------- MODULE SdkStackProofs ---------------------------
(***************************************************************************)
(* What the record sizes of StackFormat promise, by the formula of the     *)
(* Rust core and by the one of the Go and Python SDKs, for every alignment *)
(* and header size; and what the proofs about the Go and the Python writer *)
(* have in common: lemmas about the operators of SdkStack, and the parts   *)
(* of an inductive invariant that are about files.                         *)
(***************************************************************************)
EXTENDS SdkStack, TLAPS

-----------------------------------------------------------------------------
(* Record sizes. *)

(* The remainder by the alignment is below it, and the quotient counts the *)
(* whole blocks.                                                           *)
LEMMA DivMod ==
  ASSUME NEW a \in Nat
  PROVE  /\ a % Alignment \in 0 .. Alignment - 1
         /\ a \div Alignment \in Nat
         /\ a = (Alignment * (a \div Alignment)) + (a % Alignment)
BY AlignmentAssumption

(* Whole blocks and a rest below the alignment leave that rest. *)
LEMMA ModOfBlocks ==
  ASSUME NEW q \in Nat, NEW r \in 0 .. Alignment - 1
  PROVE  ((Alignment * q) + r) % Alignment = r
BY AlignmentAssumption

(* A record's size in terms of what its header and payload take. *)
LEMMA RecordSizeForm ==
  ASSUME NEW n \in Nat, NEW a, a = n + HeaderSize
  PROVE  /\ a \in Nat
         /\ a % Alignment \in 0 .. Alignment - 1
         /\ RecordSize(n) = IF a % Alignment = 0
                              THEN a
                              ELSE (a + Alignment) - (a % Alignment)
<1> DEFINE r == a % Alignment
<1>1. a \in Nat
  BY HeaderAssumption
<1>2. r \in 0 .. Alignment - 1
  BY <1>1, DivMod
<1>3. RecordSize(n) = HeaderSize + (IF r = 0 THEN n ELSE (n + Alignment) - r)
  BY DEF RecordSize, PaddedDataSize
<1>4. RecordSize(n) = IF r = 0 THEN a ELSE (a + Alignment) - r
  <2> HIDE DEF r
  <2> QED BY <1>2, <1>3, HeaderAssumption, AlignmentAssumption
<1> QED BY <1>1, <1>2, <1>4

(* A record occupies whole alignment blocks: the `assert!` of              *)
(* DataRecord::size (core/src/types/data.rs:168) never fires, and a reader *)
(* that walks the file block by block never starts inside a record.        *)
THEOREM RecordSizeAligned ==
  ASSUME NEW n \in Nat
  PROVE  RecordSize(n) \in Nat /\ RecordSize(n) % Alignment = 0
<1> DEFINE a == n + HeaderSize
<1>1. a \in Nat
  BY HeaderAssumption
<1>2. CASE a % Alignment = 0
  <2>1. RecordSize(n) = a
    BY <1>2, RecordSizeForm
  <2> QED BY <2>1, <1>1, <1>2
<1>3. CASE a % Alignment # 0
  <2>1. RecordSize(n) = (a + Alignment) - (a % Alignment)
    BY <1>3, RecordSizeForm
  <2> DEFINE q == a \div Alignment
  <2>2. q \in Nat /\ a = (Alignment * q) + (a % Alignment)
    BY <1>1, DivMod
  <2>3. RecordSize(n) = (Alignment * (q + 1)) + 0
    <3> HIDE DEF a, q
    <3> QED BY <2>1, <2>2, <1>1, DivMod, AlignmentAssumption
  <2>4. q + 1 \in Nat /\ 0 \in 0 .. Alignment - 1
    BY <2>2, AlignmentAssumption
  <2>5. RecordSize(n) % Alignment = 0
    <3> HIDE DEF a, q
    <3> QED BY <2>3, <2>4, ModOfBlocks
  <2>6. Alignment * (q + 1) \in Nat
    <3> HIDE DEF q
    <3> QED BY <2>4, AlignmentAssumption
  <2> QED BY <2>3, <2>5, <2>6
<1> QED BY <1>2, <1>3

(* A record holds its header and its payload and wastes less than a block, *)
(* so no payload byte is cut off by the next record.                       *)
THEOREM RecordSizeTight ==
  ASSUME NEW n \in Nat
  PROVE  /\ RecordSize(n) >= HeaderSize + n
         /\ RecordSize(n) < HeaderSize + n + Alignment
<1> DEFINE a == n + HeaderSize
<1>1. /\ a % Alignment \in 0 .. Alignment - 1
      /\ RecordSize(n) = IF a % Alignment = 0
                           THEN a
                           ELSE (a + Alignment) - (a % Alignment)
  BY RecordSizeForm
<1> QED
  BY <1>1, HeaderAssumption, AlignmentAssumption

(* The padding formula of the Go and Python SDKs (writer.go:455,           *)
(* writer.py:292) and the one of the Rust core lay out every record alike, *)
(* so a stack written by one SDK is walked correctly by the others.        *)
THEOREM SdkSizesAgree ==
  ASSUME NEW n \in Nat
  PROVE  SdkRecordSize(n) = RecordSize(n)
<1> DEFINE a == HeaderSize + n
           r == a % Alignment
<1>1. a \in Nat /\ n + HeaderSize = a
  BY HeaderAssumption
<1>2. r \in 0 .. Alignment - 1
  BY <1>1, DivMod
<1>3. RecordSize(n) = IF r = 0 THEN a ELSE (a + Alignment) - r
  BY <1>1, RecordSizeForm
<1>4. CASE r = 0
  <2>1. SdkPadding(n) = ((Alignment * 1) + 0) % Alignment
    BY <1>4, AlignmentAssumption DEF SdkPadding
  <2>2. SdkPadding(n) = 0
    BY <2>1, ModOfBlocks, AlignmentAssumption
  <2> QED BY <2>2, <1>1, <1>3, <1>4 DEF SdkRecordSize
<1>5. CASE r # 0
  <2> DEFINE p == Alignment - r
  <2>1. p \in 0 .. Alignment - 1 /\ p = (Alignment * 0) + p
    <3> HIDE DEF r
    <3> QED BY <1>5, <1>2, AlignmentAssumption
  <2>2. SdkPadding(n) = p % Alignment
    BY DEF SdkPadding
  <2>3. SdkPadding(n) = p
    <3> HIDE DEF p
    <3> QED BY <2>1, <2>2, ModOfBlocks
  <2> HIDE DEF r
  <2> QED
    BY <2>3, <1>1, <1>2, <1>3, <1>5, AlignmentAssumption DEF SdkRecordSize
<1> QED BY <1>4, <1>5

-----------------------------------------------------------------------------
(* Files. *)

(* Every record the index of these three files lists has a payload and a   *)
(* meta line in them.                                                      *)
Indexed(f) ==
  \A e \in f["idx"].recs \ {MagicHeader} : \A k \in {"data", "meta"} :
    \E g \in f[k].recs : g.put = e.put

(* Holds, for a put with the fields b. *)
HoldsAs(f, b, n) ==
  /\ \A k \in Kinds : MagicHeader \in f[k].recs
  /\ [at |-> b.off, put |-> n] \in f["data"].recs
  /\ [at |-> b.moff, put |-> n] \in f["meta"].recs
  /\ \E e \in f["idx"].recs : e.put = n

-----------------------------------------------------------------------------
(* Headers and records have sizes, and no record is empty.                 *)
LEMMA SizesTyped ==
  /\ \A k \in Kinds : HeadSize(k) \in Nat
  /\ \A k \in Kinds, n \in Nat : SdkEntrySize(k, n) \in Nat /\ SdkEntrySize(k, n) > 0
<1>1. ASSUME NEW n \in Nat PROVE SdkRecordSize(n) \in Nat /\ SdkRecordSize(n) > 0
  BY SdkSizesAgree, RecordSizeAligned, RecordSizeTight, HeaderAssumption
<1>2. \A k \in Kinds : HeadSize(k) \in Nat
  BY AlignmentAssumption, LineAssumption, IdxAssumption DEF HeadSize, Kinds
<1>3. \A k \in Kinds, n \in Nat : SdkEntrySize(k, n) \in Nat /\ SdkEntrySize(k, n) > 0
  BY <1>1, LineAssumption, IdxAssumption DEF SdkEntrySize, EntrySize, Kinds
<1> QED BY <1>2, <1>3

(* The kinds a failed loop is done with: those before the one it fails at. *)
LEMMA BeforeThree ==
  ASSUME NEW a, NEW b, NEW c, a # b, a # c, b # c
  PROVE  /\ Before(<<a, b, c>>, a) = {}
         /\ Before(<<a, b, c>>, b) = {a}
         /\ Before(<<a, b, c>>, c) = {a, b}
<1> DEFINE order == <<a, b, c>>
<1>1. DOMAIN order = 1 .. 3 /\ order[1] = a /\ order[2] = b /\ order[3] = c
  OBVIOUS
<1> HIDE DEF order
<1>2. \A x : Before(order, x) =
        {order[i] : i \in {j \in 1 .. 3 : \A h \in 1 .. j : order[h] # x}}
  BY <1>1 DEF Before
<1>3. {j \in 1 .. 3 : \A h \in 1 .. j : order[h] # a} = {}
  BY <1>1
<1>4. {j \in 1 .. 3 : \A h \in 1 .. j : order[h] # b} = {1}
  BY <1>1
<1>5. {j \in 1 .. 3 : \A h \in 1 .. j : order[h] # c} = {1, 2}
  BY <1>1
<1> QED BY <1>1, <1>2, <1>3, <1>4, <1>5 DEF order

(* openStack creates data before idx before meta.                          *)
LEMMA BeforeOpen ==
  /\ Before(OpenOrder, "data") = {}
  /\ Before(OpenOrder, "idx") = {"data"}
  /\ Before(OpenOrder, "meta") = {"data", "idx"}
BY BeforeThree DEF OpenOrder

(* A put writes data before meta before idx.                               *)
LEMMA BeforeWrite ==
  /\ Before(WriteOrder, "data") = {}
  /\ Before(WriteOrder, "meta") = {"data"}
  /\ Before(WriteOrder, "idx") = {"data", "meta"}
BY BeforeThree DEF WriteOrder

(* Appending makes a file longer and leaves its records where they are.    *)
LEMMA AppendedTyped ==
  ASSUME NEW b \in Blob, NEW n \in Puts, NEW size \in Nat
  PROVE  /\ Appended(b, n, size) \in Blob
         /\ Appended(b, n, size).there = b.there
         /\ Appended(b, n, size).len = b.len + size
         /\ Appended(b, n, size).recs = b.recs \cup {[at |-> b.len, put |-> n]}
<1>1. n \in 0 .. MaxPuts
  BY BoundsAssumption DEF Puts
<1>2. b.recs \cup {[at |-> b.len, put |-> n]} \in SUBSET Entry /\ b.len + size \in Nat
  BY <1>1 DEF Blob, Entry
<1> QED BY <1>2 DEF Appended, Blob

(* So does a write that fails half way.                                    *)
LEMMA PartlyTyped ==
  ASSUME NEW b \in Blob, NEW n \in Puts, NEW size \in Nat, NEW part \in Nat
  PROVE  /\ PartlyAppended(b, n, size, part) \in Blob
         /\ PartlyAppended(b, n, size, part).there = b.there
         /\ b.recs \subseteq PartlyAppended(b, n, size, part).recs
         /\ part # size => /\ PartlyAppended(b, n, size, part).recs = b.recs
                           /\ PartlyAppended(b, n, size, part).len = b.len + part
<1>1. CASE part = size
  BY <1>1, AppendedTyped DEF PartlyAppended
<1>2. CASE part # size
  <2>1. b.len + part \in Nat
    BY DEF Blob
  <2> QED BY <1>2, <2>1 DEF PartlyAppended, Blob
<1> QED BY <1>1, <1>2

(* The files openStack starts with.                                        *)
LEMMA HeadedTyped ==
  /\ Empty \in Blob /\ Empty.there /\ Empty.recs = {}
  /\ Nothing \in Blob /\ ~Nothing.there /\ Nothing.recs = {}
  /\ \A k \in Kinds : /\ Headed(k) \in Blob /\ Headed(k).there
                      /\ Headed(k).len = HeadSize(k)
                      /\ Headed(k).recs = {MagicHeader}
  /\ \A n \in Nat : [Empty EXCEPT !.len = n] \in Blob
                    /\ [Empty EXCEPT !.len = n].there
                    /\ [Empty EXCEPT !.len = n].recs = {}
<1>1. MagicHeader \in Entry
  BY BoundsAssumption DEF MagicHeader, Entry
<1> QED BY <1>1, SizesTyped DEF Empty, Nothing, Headed, Blob

-----------------------------------------------------------------------------
(* A step of one writer leaves the others alone.                           *)
LEMMA BecomesFields ==
  ASSUME NEW W, TypesOK(W), NEW w \in Writers, NEW q, Becomes(w, q)
  PROVE  /\ writer'[w] = q
         /\ \A v \in Writers : v # w => writer'[v] = writer[v]
         /\ q \in W \cup {Dead} =>
              writer' \in [Writers -> W \cup {Dead}]
BY DEF TypesOK, Becomes

(* Failures are counted.                                                   *)
LEMMA FaultTyped ==
  ASSUME faults \in 0 .. MaxFaults, Fault PROVE faults' \in 0 .. MaxFaults
BY BoundsAssumption DEF Fault

(* What holds a put keeps holding it when it grows.                        *)
LEMMA HoldsMore ==
  ASSUME NEW f, NEW g, NEW n, NEW b, HoldsAs(f, b, n),
         \A k \in Kinds : f[k].recs \subseteq g[k].recs
  PROVE  HoldsAs(g, b, n)
<1>1. "data" \in Kinds /\ "meta" \in Kinds /\ "idx" \in Kinds
  BY DEF Kinds
<1> QED BY <1>1 DEF HoldsAs
=============================================================================
