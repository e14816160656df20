---------------------------- MODULE StackFormat ----------------------------
(***************************************************************************)
(* The sizes of the three files of a stack: `.data`, `.meta`, `.idx`.      *)
(*                                                                         *)
(* A `.data` file starts with a magic header padded to one alignment block *)
(* and goes on with records of the form header | payload | padding, each   *)
(* padded to a whole number of blocks (core/src/types/data.rs).  A `.idx`  *)
(* file is a header and fixed-size records (core/src/types/index.rs), a    *)
(* `.meta` file a header line and one line per record                      *)
(* (core/src/types/meta.rs).                                               *)
(*                                                                         *)
(* The three SDKs compute the padding with two different formulas, both    *)
(* kept here.                                                              *)
(***************************************************************************)
EXTENDS Integers

CONSTANTS
  Alignment,     \* ALIGNMENT_SIZE: 4096 in the code
  HeaderSize,    \* DataRecordHeader::size(): 20 bytes
  MetaLine,      \* bytes of a meta line, abstracted to one value
  IdxHeader,     \* IndexMagicHeader::size(): 16 bytes
  IdxSize        \* IndexRecord::size(): 28 bytes

ASSUME AlignmentAssumption == Alignment \in Nat \ {0}
ASSUME HeaderAssumption == HeaderSize \in Nat \ {0}
ASSUME LineAssumption == MetaLine \in Nat \ {0}
ASSUME IdxAssumption == IdxHeader \in Nat \ {0} /\ IdxSize \in Nat \ {0}

Kinds == {"data", "meta", "idx"}

(* padding_data_size: the payload and its padding, for a payload of n bytes. *)
PaddedDataSize(n) ==
  LET withHeader == n + HeaderSize
  IN  IF withHeader % Alignment = 0
        THEN n
        ELSE (n + Alignment) - (withHeader % Alignment)

(* DataRecord::size: what a record takes in the data file. *)
RecordSize(n) == HeaderSize + PaddedDataSize(n)

(* The padding the Go and the Python SDK compute. *)
SdkPadding(n) == (Alignment - ((HeaderSize + n) % Alignment)) % Alignment

SdkRecordSize(n) == HeaderSize + n + SdkPadding(n)

(* Where the first record of a file goes: after the file's magic header.   *)
(* The header of a meta file is a JSON line as its records are, and as     *)
(* long here; that of an index file is shorter than an index record.       *)
HeadSize(k) == CASE k = "data" -> Alignment
                 [] k = "meta" -> MetaLine
                 [] k = "idx"  -> IdxHeader

(* Where the records of an index file begin: behind the header, and from   *)
(* there at multiples of the record size.                                  *)
IdxPlace(at) == /\ HeadSize("idx") <= at
                /\ (at - HeadSize("idx")) % IdxSize = 0

(* What the record of an n-byte payload takes in a file of kind k. *)
EntrySize(k, n) == CASE k = "data" -> RecordSize(n)
                     [] k = "meta" -> MetaLine
                     [] k = "idx"  -> IdxSize
=============================================================================
