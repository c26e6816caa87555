--------------------------- MODULE MCSubscriptions ---------------------------
(* Instances of Subscriptions for TLC.                                       *)
EXTENDS Subscriptions, TLC

CONSTANTS s1, a, b

\* One merged stream of two parts over a queue of one event.
MergedParts == s1 :> <<a, b>>
MergedLimit == s1 :> 1
MergedEvents == a :> 2 @@ b :> 0
===============================================================================
