------------------------ MODULE MCPopulateEmbeddings ------------------------
(* An instance of PopulateEmbeddings for TLC.                              *)
EXTENDS PopulateEmbeddings

CONSTANTS s1, s2

BothFiles == <<s1, s2>>
=============================================================================
