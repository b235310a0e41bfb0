---------------------------- MODULE MCCacheFetch ----------------------------
(* Two callers and as many operations as they can make for one key. *)
EXTENDS CacheFetch

CONSTANTS c1, c2
=============================================================================
