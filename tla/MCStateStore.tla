---------------------------- MODULE MCStateStore ----------------------------
(***************************************************************************)
(* Three calls over two instances of the API; connections that log in in   *)
(* every way and are asked two queries.                                    *)
(***************************************************************************)
EXTENDS StateStore

MCLogins ==
  {<<<<"ok", "info", "info", "ready">>>>,
   <<<<"password">>, <<"ok", "info", "ready">>>>,
   <<<<"md5">>, <<"ok", "ready">>>>,
   <<<<"sasl">>, <<"continue">>, <<"final", "ok", "info", "ready">>>>,
   <<<<"sasl">>, <<"continue">>, <<"forged", "ok", "ready">>>>,
   <<<<"sasl">>, <<"error">>>>, <<<<"error">>>>, <<<<"ok", "error">>>>}

MCAnswers == {<<"info", "row", "row", "ready">>, <<"info", "ready">>, <<"error", "ready">>,
             <<"info", "row", "error", "ready">>}

=============================================================================
