---------------------------- MODULE MCRunVerdict ----------------------------
(* RunVerdict over every envelope whose objects hold one of the five result *)
(* words with an otherwise empty report, plus one full report.              *)
EXTENDS RunVerdict

MCReply ==
         {[NoReply EXCEPT !.result = w] : w \in ResultWord}
    \cup {[result |-> "completed", writes |-> {"context", "comment"},
           followUps |-> <<"other">>]}

MCTopLevel ==
    {NoReply, [NoReply EXCEPT !.writes = {"comment"}]}
=============================================================================
