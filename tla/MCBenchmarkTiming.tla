-------------------------- MODULE MCBenchmarkTiming --------------------------
(***************************************************************************)
(* Limits at and around zero, one, ten and a number that is no power of    *)
(* ten; a minimum of samples above the maximum; a clock that stands still. *)
(***************************************************************************)
EXTENDS BenchmarkTiming

MCSettings ==
  [warmup : {0, 2}, min_measurements : {0, 2, 5}, max_measurements : {0, 1, 4},
   max_block_size : {0, 1, 10, 25}, target_block : {0, 3, 9},
   target_ci95_relative : {[part |-> 1, over |-> 4], [part |-> 2, over |-> 1]}]
=============================================================================
