----------------------- MODULE MC_ActiveClientEffect -----------------------
(* Model-checking instance of ActiveClientEffect: two window handles of    *)
(* different classes, and captions that are empty, a placeholder, equal to *)
(* one class or the other.                                                 *)
EXTENDS ActiveClientEffect, TLC

CONSTANTS w1, w2

MCWin == {w1, w2}

\* "" , "_", "a", "b"
MCTitles == {<<>>, <<"_">>, <<"a">>, <<"b">>}

\* "", "c" for the liveness run: an empty caption (a title still loading)
\* and one usable for both windows, on a smaller graph.
MCTitlesLive == {<<>>, <<"c">>}

\* w1 belongs to application "a", w2 to application "b".
MCWinClass == (w1 :> <<"a">>) @@ (w2 :> <<"b">>)

=============================================================================
