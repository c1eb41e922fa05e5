------------------------------- MODULE MCPath -------------------------------
(* Two threads with two pages each and one page out of range, over a small *)
(* device: see MCPath.cfg.                                                 *)
EXTENDS Path

SmallVaLine == {0, 1, 2, 3, 4, 5, 16}

\* The orders of the configuration files: rochrababgco, rocorabgbach, rorababgchco,
\* rorabgbachco and, with MOP, rohirababgchlo, rohirababgloch and rorababghichlo.
MCOrders ==
    {<<"ro", "ch", "ra", "ba", "bg", "co">>, <<"ro", "co", "ra", "bg", "ba", "ch">>,
     <<"ro", "ra", "ba", "bg", "ch", "co">>, <<"ro", "ra", "bg", "ba", "ch", "co">>,
     <<"ro", "hi", "ra", "ba", "bg", "ch", "lo">>,
     <<"ro", "hi", "ra", "ba", "bg", "lo", "ch">>,
     <<"ro", "ra", "ba", "bg", "hi", "ch", "lo">>}
=============================================================================
