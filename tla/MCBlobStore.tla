----------------------------- MODULE MCBlobStore -----------------------------
(***************************************************************************)
(* BlobStore on small sets.  Nodes and handlers are interchangeable.       *)
(***************************************************************************)
EXTENDS BlobStore, TLC

Symmetry == Permutations(Node) \cup Permutations(Handler)

(***************************************************************************)
(* Once every copy is exposed little is left to say about the blob: the    *)
(* states up to the first exposure, and that one, are explored.            *)
(***************************************************************************)
Unexposed == exposed = {}

===============================================================================
