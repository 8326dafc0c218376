---------------------------- MODULE MCKnowledgeBase ----------------------------
(***************************************************************************)
(* Two contents: one of two chunks, of which one matches better, and one   *)
(* of one chunk.                                                           *)
(***************************************************************************)
EXTENDS KnowledgeBase, TLC

CONSTANTS guide, note, price, setup

Texts == (guide :> <<{price}, {price, setup}>>) @@ (note :> <<{setup}>>)

Asked == {{price, setup}, {setup}}

Symmetric == Permutations(Requests) \cup Permutations(Tenants) \cup Permutations(Projects)
=============================================================================
