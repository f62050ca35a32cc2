---------------------------- MODULE MCBootstrap ----------------------------
(* Model values for checking Bootstrap: two activations of the pipeline, so *)
(* that a second start can meet a running one, one HTTP prober, and bounds  *)
(* that let a restart meet a finished and an unfinished pipeline.           *)
EXTENDS Bootstrap

CONSTANTS r1, r2, p1, admin

MCRuns == {r1, r2}
MCProbers == {p1}
=============================================================================
