----------------------------- MODULE TupleStore -----------------------------
(***************************************************************************)
(* What a page, and a tree of pages, are for: a bag of tuples, a key and a *)
(* value each, and how many it has.  One at a time comes or goes.  Where a *)
(* tuple is kept, and what is moved to make room for it, is not seen here. *)
(***************************************************************************)
EXTENDS Integers, Bags

CONSTANT Tuples

VARIABLES store, count

StoreInit == store = EmptyBag /\ count = 0

put(t) == store' = store (+) SetToBag({t}) /\ count' = count + 1

remove(t) ==
  /\ BagIn(t, store)
  /\ store' = store (-) SetToBag({t})
  /\ count' = count - 1

StoreNext == \E t \in Tuples : put(t) \/ remove(t)

StoreSpec == StoreInit /\ [][StoreNext]_<<store, count>>
=============================================================================
