--------------------------- MODULE MCAsyncSocket ---------------------------
(***************************************************************************)
(* What user code does in the runs of AsyncSocket.                         *)
(***************************************************************************)
EXTENDS AsyncSocket, TLC

\* Any thread sends and flushes; reading is turned on and off by the loop.
AnyThread ==
    {<<"other", "send">>, <<"other", "flush">>, <<"read", "send">>, <<"writeCb", "send">>,
     <<"read", "enableRead">>, <<"writeCb", "enableRead">>}

\* Other threads send, and the loop's callbacks reply.
SendAndReply == {<<"other", "send">>, <<"read", "send">>, <<"writeCb", "send">>}

=============================================================================
