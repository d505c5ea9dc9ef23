-------------------------- MODULE MCKnowledgeStore --------------------------
(***************************************************************************)
(* The store alone, with callers that pass any delta and any bootstrap     *)
(* over two documents and two audiences.                                   *)
(***************************************************************************)
EXTENDS KnowledgeStore, TLC

CONSTANT public

(* Hash, vectors and caveats take one value: no property here tells two of  *)
(* them apart.                                                              *)
MCUpdates == [url : Urls, hash : Hashes, audience : Audiences,
              vectors : Configs, caveats : {TRUE}, entry : {0}]

MCRows == [url : Urls, number : {1, 2}, hash : Hashes, is_active : BOOLEAN,
           supersedes : {NoVersion}, audience : {public}, vectors : Configs,
           caveats : {FALSE}]

Symmetry == Permutations(Urls) \cup Permutations(SnapshotIds)
=============================================================================
