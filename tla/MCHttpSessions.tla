---------------------------- MODULE MCHttpSessions ----------------------------
(* Two connections and two requests, on one of them or on both.              *)
EXTENDS HttpSessions

CONSTANTS s1, s2
=============================================================================
