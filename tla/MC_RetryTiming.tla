---------------------------- MODULE MC_RetryTiming ----------------------------
(* One window whose title stays empty, so that every check fails and the   *)
(* whole schedule of quick retries and polls runs.                         *)
EXTENDS RetryTiming, TLC

CONSTANT w1

MCWin == {w1}

MCTitles == {<<>>}

MCWinClass == w1 :> <<"a">>

=============================================================================
