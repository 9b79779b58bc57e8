---------------------------- MODULE MCThreadPool ----------------------------
(* Small instances of ThreadPool: the sizes of the jobs. *)
EXTENDS ThreadPool

(* Jobs with tasks around one without. *)
SomeJobs == <<2, 0, 2, 2>>

OneJob == <<1>>
TwoJobs == <<1, 1>>

=============================================================================
