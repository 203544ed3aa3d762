---------------------------- MODULE MCConnection ----------------------------
(***************************************************************************)
(* What user code calls on the loop, in the runs of Connection.            *)
(***************************************************************************)
EXTENDS Connection, TLC

Anywhere == {"idle", "polled", "message"}

\* A session writes and closes in tasks, in other sockets' handlers and when a
\* message comes; when its writes are done, it writes more or closes.
SessionCalls ==
    (Anywhere \X Ops) \cup ({"written"} \X {"write", "close"})

\* A client also writes when it is connected.
ClientCalls == SessionCalls \cup {<<"established", "write">>}

\* Replies only: the loop's own writes come from this connection's callbacks.
ReplyCalls ==
    (Anywhere \X (Ops \ {"write"})) \cup {<<"message", "write">>, <<"written", "write">>,
                                         <<"written", "close">>}

WriteCalls == {<<"idle", "write">>, <<"message", "write">>, <<"written", "write">>}

=============================================================================
