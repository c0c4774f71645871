---------------------------- MODULE MCRpcServer ----------------------------
(* RpcServer for TLC: what the requests are. *)
EXTENDS RpcServer, TLC

CONSTANTS order, other

OrderService == <<"Order">> :> {<<"makeOrder">>}

Call(parses) == [msg_type_ |-> 0, method_name_ |-> <<"Order", "makeOrder">>, parses |-> parses]

\* A call, and one whose body does not parse.
CallAndBadBody == order :> Call(TRUE) @@ other :> Call(FALSE)

CallAndKeepalive ==
    order :> Call(TRUE) @@ other :> [msg_type_ |-> 1, method_name_ |-> <<>>, parses |-> FALSE]
=============================================================================
