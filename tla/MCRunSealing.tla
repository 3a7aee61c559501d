----------------------------- MODULE MCRunSealing -----------------------------
(* A small instance: a run of two trials. *)
EXTENDS RunSealing

MCTrials == <<"t1", "t2">>
MCExecNames == <<"e1", "e2">>
MCHistories == {<<>>, <<"ok">>, <<"failed">>, <<"failed", "ok">>, <<"ok", "ok">>,
                <<"none", "ok">>}
===============================================================================
