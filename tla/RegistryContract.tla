-------------------------- MODULE RegistryContract --------------------------
(***************************************************************************)
(* What the model registry promises its callers, with nothing about how    *)
(* registrations travel: a book of rows in which an id has at most one     *)
(* owner per side, rows come in one at a time and only when admissible,    *)
(* a row never changes, and it leaves only by being struck out.            *)
(***************************************************************************)
CONSTANT Admissible(_, _)       \* may this entry own its id on this side?

VARIABLE book                   \* set of [side, entry, from]

Owner(side, id) == {r \in book : r.side = side /\ r.entry.id = id}

Init == book = {}

\* One new row, for an id nobody owned.
Enter ==
  \E r \in book' \ book :
    /\ Admissible(r.side, r.entry)
    /\ Owner(r.side, r.entry.id) = {}
    /\ book' = book \cup {r}

\* The owner of one id is struck out.
Strike ==
  \E r \in book \ book' : book' = book \ Owner(r.side, r.entry.id)

Next == Enter \/ Strike

Spec == Init /\ [][Next]_book
=============================================================================
