----------------------------- MODULE MCLibrary -----------------------------
(***************************************************************************)
(* Instances of the library with its librarian.  x and y are entries that  *)
(* resemble each other, q is a doctrine proposal.                          *)
(***************************************************************************)
EXTENDS Librarian, TLC

CONSTANTS x, y, q, path

Supersede(refs, where) == [kind |-> "create", refs |-> refs, proposal |-> FALSE, path |-> where]
Propose(refs)          == [kind |-> "create", refs |-> refs, proposal |-> TRUE, path |-> None]
Retire(e)              == [kind |-> "retire", refs |-> <<e>>, proposal |-> FALSE, path |-> None]
Mirror(where)          == [NoBody EXCEPT !.path = where]

MCSimilar == [e \in Entries |-> CASE e = y -> {x} [] e \in Deposits -> {x, q} [] OTHER -> {}]

MCBodies == {Supersede(<<x, y>>, path), Supersede(<<q>>, None),
             Propose(<<q>>), Retire(x), Mirror(path)}
Symmetry == Permutations(Clients) \cup Permutations(Deposits) \cup Permutations(Fresh)

LossBodies == {Retire(x)}
============================================================================
