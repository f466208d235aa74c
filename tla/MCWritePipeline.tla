-------------------------- MODULE MCWritePipeline --------------------------
(* Small instances of WritePipeline for TLC. *)
EXTENDS WritePipeline

CONSTANTS ann, bob
=============================================================================
