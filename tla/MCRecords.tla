----------------------------- MODULE MCRecords -----------------------------
(* The tables of streams and GB/T 28181 devices, and the libraries of faces *)
(* and plates: what Redis says and what others make of it.  They have no    *)
(* state in common: a behaviour works on the ones or on the others, which   *)
(* reaches the states of both without those of their product.               *)
EXTENDS GbStore, Libraries
CONSTANTS ann, bob, p1, p2
VARIABLE kept
recordVars == <<kept, storeVars, libraryVars>>
\* Of the initial states of the libraries one is enough where nobody uses them.
Init ==
  /\ StoreInit /\ LibraryInit /\ kept \in {"tables", "libraries"}
  /\ kept = "tables" => rows[ann] # None
Next ==
  \/ kept = "tables" /\ StoreNext /\ UNCHANGED <<kept, libraryVars>>
  \/ kept = "libraries" /\ LibraryNext /\ UNCHANGED <<kept, storeVars>>
Spec == Init /\ [][Next]_recordVars

SerialsUpTo3 == 1..3
OwnKeys == (ann :> "ann") @@ (bob :> "bob")
KeyNames == {"ann", "bob"}
AnyOrder == Permutations(Procs) \cup Permutations(Requests)
=============================================================================
