----------------------------- MODULE MCThreadPool -----------------------------
(* ThreadPool with a task of main's that submits a task which submits one.  *)
EXTENDS ThreadPool, TLC

Chain == 2 :> 4 @@ 4 :> 5
=============================================================================
