-------------------------- MODULE MCElasticChanges --------------------------
(* ElasticChanges for TLC: the posts are interchangeable. *)
EXTENDS ElasticChanges, TLC

PostSymmetry == Permutations(Post)
=============================================================================
