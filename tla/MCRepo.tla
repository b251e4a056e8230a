------------------------------- MODULE MCRepo -------------------------------
(* A cloned and an imported repository; the scheduler syncs what changed and *)
(* then everything, as its two jobs do.                                      *)
EXTENDS RepoSync

MCJobs == <<"changed", "all">>
=============================================================================
