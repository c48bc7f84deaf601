-------------------------------- MODULE MCJobs --------------------------------
EXTENDS Jobs

CONSTANTS j1, j2, j3

(* One job more than threads, so that one has to wait.                     *)
ThreeJobs == {j1, j2, j3}
=============================================================================
