---------------------------- MODULE OpendalStore ----------------------------
(***************************************************************************)
(* The writers of OpendalWriter implement StackStore.  A stack is readable *)
(* when its index is there, since readers find stacks by their indexes;    *)
(* what it contains then is what can be read through the index, and before *)
(* that what its writer has acknowledged.                                  *)
(***************************************************************************)
EXTENDS OpendalWriter

StackPhase ==
  [s \in Sids |->
     IF object[s]["idx"].there THEN "readable"
     ELSE IF s \in abandoned THEN "lost"
     ELSE IF s < nextId THEN "open" ELSE "free"]

(* The puts that have an index record in the bucket, and a payload and a   *)
(* meta line where that record says.                                       *)
Readable(s) ==
  {n \in Puts :
     /\ \E e \in object[s]["idx"].recs : e.put = n
     /\ [at |-> book[n].off, put |-> n] \in object[s]["data"].recs
     /\ [at |-> book[n].moff, put |-> n] \in object[s]["meta"].recs}

StackContents ==
  [s \in Sids |-> IF object[s]["idx"].there THEN Readable(s) ELSE AckedIn(s)]

Store == INSTANCE StackStore WITH
  Stacks <- Sids, Items <- Puts, phase <- StackPhase, contents <- StackContents

(* Any number of core writers on one bucket implement StackStore: a stack  *)
(* becomes readable in one step, with all that was acknowledged in it and  *)
(* nothing else, or never, and stays as it is; two writers never put into  *)
(* one stack (bs_opendal_writer.rs:37-215).                                *)
ImplementsStore == Store!Spec
=============================================================================
