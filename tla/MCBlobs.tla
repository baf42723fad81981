------------------------------ MODULE MCBlobs ------------------------------
(***************************************************************************)
(* Instances of Blobs for TLC: one content takes two bytes, the others one.*)
(***************************************************************************)
EXTENDS Blobs, TLC

Large   == CHOOSE h \in Hashes : TRUE
MCBytes == [S \in SUBSET Hashes |->
              Cardinality(S) + (IF Large \in S THEN 1 ELSE 0)]

Symmetry == Permutations(Clients) \cup Permutations(Rooms)

AllOps  == {"upload", "brain", "detach", "save", "delete"}
LossOps == {"upload", "detach"}
============================================================================
