------------------------------ MODULE VoteSpans ------------------------------
(***************************************************************************)
(* The arithmetic of fast-finality votes (core/types/vote.go VoteData): a  *)
(* vote spans the block numbers from its source, the justified block the   *)
(* voter builds on, to its target, the block it votes for.  Two votes of   *)
(* one validator are compared by these numbers alone, as UnderRules in     *)
(* core/vote/vote_manager.go does.                                         *)
(***************************************************************************)
EXTENDS Naturals

\* Rule 1: a validator must not publish two distinct votes for one height.
SameHeight(v, w) == v.target = w.target

\* Rule 2: a validator must not vote within the span of its other votes.
Surrounds(v, w) == v.source < w.source /\ w.target < v.target

\* Two votes that one validator may never publish both of.
Conflict(v, w) == SameHeight(v, w) \/ Surrounds(v, w) \/ Surrounds(w, v)
===============================================================================
