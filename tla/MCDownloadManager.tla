-------------------------- MODULE MCDownloadManager --------------------------
(* Jobs and destinations for the runs of DownloadManager.                  *)
EXTENDS DownloadManager, TLC

CONSTANTS j1, j2, j3, f1, f2

\* Two jobs compete for one destination; the third shares the slots with them.
Targets == j1 :> f1 @@ j2 :> f1 @@ j3 :> f2
=============================================================================
