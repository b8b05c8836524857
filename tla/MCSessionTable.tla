--------------------------- MODULE MCSessionTable ---------------------------
(* SessionTable with interchangeable request IDs and requests.             *)
EXTENDS SessionTable, TLC

Symmetry == Permutations(IDs) \cup Permutations(RunRequests) \cup Permutations(StreamRequests)
=============================================================================
