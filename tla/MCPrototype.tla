---------------------------- MODULE MCPrototype ----------------------------
(* Two issues, so that each has a neighbour: one is owned, unread and lent, *)
(* the other neither owned nor read.                                        *)
EXTENDS Prototype

MCBase ==
    <<[number |-> 1, owned |-> TRUE, read |-> FALSE, dupli |-> TRUE, condition |-> 3,
       loaned |-> [to |-> "Marko", since |-> "earlier"]],
      [number |-> 2, owned |-> FALSE, read |-> FALSE, dupli |-> FALSE,
       condition |-> Unknown, loaned |-> NotLent]>>
MCEditions == [s \in Series |-> {"EXTRA"}]
MCPool == <<2, 1>>
MCBatchStart == [from |-> 1, to |-> 3, exc |-> {2}]
=============================================================================
