------------------------------ MODULE IndexId ------------------------------
(***************************************************************************)
(* The index_id of a record: the hex digits of its offset followed by the  *)
(* eight of its cookie (core/src/types/index.rs), and the parser that      *)
(* splits them again (core/src/utils/index_id.rs).  A string of hex digits *)
(* is abstracted to its value.                                             *)
(***************************************************************************)
EXTENDS Integers

CONSTANT CookieSpan    \* values of a u32, and of eight hex digits: 2^32

ASSUME CookieAssumption == CookieSpan \in Nat \ {0}

(* IndexRecord::index_id: {:x}{:08x}. *)
FormatIndexId(off, cookie) == off * CookieSpan + cookie

(* parse_index_id: the last eight digits, and those before. *)
ParseIndexId(id) == [off |-> id \div CookieSpan, cookie |-> id % CookieSpan]
=============================================================================
