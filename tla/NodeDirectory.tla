--------------------------- MODULE NodeDirectory ---------------------------
(****************************************************************************)
(* What the client expects of the server list kept for one service: the     *)
(* last reported CPU usage of every live server, and a query that returns   *)
(* a live server with the least usage.  It is the abstract specification    *)
(* that ServerNodeManager implements.                                       *)
(****************************************************************************)
EXTENDS Naturals

CONSTANTS
    Keys,       \* servers, "ip:port"
    Usages,     \* CPU usages
    NoUsage,    \* the server is not listed
    NoServer    \* the query found nothing

VARIABLES
    usage,      \* last reported usage of each listed server
    answer      \* what the last query returned

dirVars == <<usage, answer>>

Listed == {k \in Keys : usage[k] # NoUsage}

DirInit ==
    /\ usage = [k \in Keys |-> NoUsage]
    /\ answer = NoServer

Report(k, c) ==
    /\ usage' = [usage EXCEPT ![k] = c]
    /\ UNCHANGED answer

Withdraw(k) ==
    /\ usage' = [usage EXCEPT ![k] = NoUsage]
    /\ UNCHANGED answer

Query ==
    /\ \/ Listed = {} /\ answer' = NoServer
       \/ \E k \in Listed :
            /\ \A j \in Listed : usage[k] <= usage[j]
            /\ answer' = k
    /\ UNCHANGED usage

DirNext ==
    \/ \E k \in Keys, c \in Usages : Report(k, c)
    \/ \E k \in Keys : Withdraw(k)
    \/ Query

DirSpec == DirInit /\ [][DirNext]_dirVars
=============================================================================
