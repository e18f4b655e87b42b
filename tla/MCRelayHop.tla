---------------------------- MODULE MCRelayHop -----------------------------
(* RelayHop with one address for the parent and two for the children.      *)
EXTENDS RelayHop

CONSTANTS p, c1, c2, main, relay

Children == <<c1, c2>>

(* Two threads call only for the parent, as in the programs, where one      *)
(* thread of a node sends to the children: both over TCP, one of them twice. *)
(* Over UDP one of them calls, and for the parent only: elements of a list   *)
(* share nothing there but the numbers.                                      *)
SmallCalls ==
    [t \in Protocols \X NodeTypes |->
        [c \in Callers |->
            CASE c = relay -> IF t = <<"TCP", "PARENT">> THEN 1 ELSE 0
              [] c = main -> IF t = <<"UDP", "CHILDLEN">> THEN 0 ELSE 2]]

(* Only connections to the children break.                                  *)
SmallBreaks == [t \in NodeTypes |-> IF t = "PARENT" THEN 0 ELSE 1]
=============================================================================
