------------------------ MODULE MCSimpleDBDatabase ------------------------
(* The cfg makes clients, keys and values model values: three clients, so *)
(* two Reads can share bufferL while a Write waits and a Read can run     *)
(* while a Write alters the buffer; two keys, so a Write to one key runs  *)
(* beside a Read of the other; two values, so a Read can tell an older    *)
(* write from a newer one.                                                *)
EXTENDS SimpleDBRefinement, TLC

(* Clients, keys and values are only compared for equality.               *)
MCSymmetry == Permutations(Clients) \cup Permutations(Keys) \cup Permutations(Vals)
=============================================================================
