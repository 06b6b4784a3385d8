---------------------------- MODULE MCCallFrames ----------------------------
EXTENDS CallFrames

CONSTANTS t1, t2, w

Process(threads, runtimes, frames) ==
  [threads |-> threads, runtimes |-> runtimes, frames |-> frames]

(* One runtime, as each binding has, with stacks deep enough for run, native *)
(* call, callback and a call from it; one thread that alternates two        *)
(* runtimes; two threads that share two runtimes.                           *)
MCScopes ==
  { Process({t1, t2, w}, {1}, 4), Process({t1}, {1, 2}, 4), Process({t1, t2}, {1, 2}, 2) }
=============================================================================
