------------------------------ MODULE MCSession ------------------------------
(* Instances of Session for TLC. *)
EXTENDS Session, TLC

\* A pipeline of three requests, RESP and inline, with an empty one between, and
\* requests after which the parser gives up, with more behind them; requests behind
\* blank lines.
Pipelines == {<<"head", "arg", "empty", "line", "head", "arg">>,
              <<"line", "head", "line", "line">>,
              <<"line", "badhead", "line">>,
              <<"head", "arg", "line", "head", "head", "arg">>,
              <<"line", "blank", "line", "head", "arg">>}
=============================================================================
