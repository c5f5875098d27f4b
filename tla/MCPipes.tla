------------------------------- MODULE MCPipes -------------------------------
(***************************************************************************)
(* The pipe implementations (Pipes) for model checking.                    *)
(***************************************************************************)
EXTENDS Pipes

\* Two messages from end "a" to end "b" and the reads for them; one size is over the
\* limit, and frames reach the stream and leave it in parts
MCTcpOps == {<<"a", "write", 1>>, <<"a", "write", 2>>, <<"b", "read", 1>>, <<"b", "read", 2>>}
MCTcpTimedOps == {<<"a", "write", 1>>, <<"b", "read", 1>>}

MCWinOps == {<<"write", 1>>, <<"read", 1>>, <<"read", 2>>}
MCWinTimedOps == {<<"read", 1>>, <<"read", 2>>}

\* Waits <<client, n>>: two of servers that compete for connections, which either client may
\* call first, and one of a client
MCTcpCreates == {"x", "y"} \X {0, 1}
MCTcpOpens == {<<"x", 4>>}
MCTcpTimedWaits == {<<"x", 0>>, <<"x", 1>>, <<"x", 4>>}

MCWinCreates == {<<"x", 1>>}
MCWinOpens == {<<"x", 4>>, <<"y", 5>>}
MCWinTimedWaits == {<<"x", 1>>, <<"x", 4>>}

=============================================================================
