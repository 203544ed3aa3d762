------------------------------- MODULE MCHttp -------------------------------
(***************************************************************************)
(* A request that is read in two pieces, for HttpExchange alone.           *)
(***************************************************************************)
EXTENDS HttpExchange

SomeAsks ==
    {[method |-> m, resource |-> <<"/">>, body |-> <<>>, version |-> "HTTP/1.1",
      connection |-> "keep-alive"] : m \in {"GET", "POST", "OPTIONS"}}

SomeReplies == {<<[call |-> "response", code |-> 404, body |-> <<>>]>>}

=============================================================================
