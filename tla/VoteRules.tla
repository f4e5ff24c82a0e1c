------------------------------- MODULE VoteRules -------------------------------
(***************************************************************************)
(* What a vote key promises to the chain: the votes published with it      *)
(* never conflict.  core/vote/vote_manager.go states it as the rules 1 and *)
(* 2 of UnderRules.                                                        *)
(***************************************************************************)
EXTENDS VoteSpans

CONSTANT Votes  \* the votes that may ever be published

VARIABLES
    published,  \* the votes published with the key
    count       \* how many there are, repetitions included

Init == published = {} /\ count = 0

Publish(d) ==
    /\ \A w \in published : ~Conflict(w, d)
    /\ published' = published \cup {d}
    /\ count' = count + 1

Next == \E d \in Votes : Publish(d)

Spec == Init /\ [][Next]_<<published, count>>
===============================================================================
