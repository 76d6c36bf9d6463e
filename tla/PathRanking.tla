---------------------------- MODULE PathRanking ----------------------------
(***************************************************************************)
(* What an N-best search promises: once the paths are known, they are      *)
(* given out one at a time, none twice, none before a cheaper one, and the *)
(* search says it is exhausted only when all have been given.              *)
(***************************************************************************)
EXTENDS Integers, Sequences

CONSTANT Cost(_)

VARIABLES candidates, ranked, exhausted

rankingVars == <<candidates, ranked, exhausted>>

Ranked == { ranked[i] : i \in DOMAIN ranked }

Init == candidates = {} /\ ranked = <<>> /\ exhausted = FALSE

Offer ==
  /\ candidates = {} /\ ranked = <<>>
  /\ candidates' # {}
  /\ UNCHANGED <<ranked, exhausted>>

Rank ==
  /\ \E p \in candidates \ Ranked :
       /\ \A q \in candidates \ Ranked : Cost(p) <= Cost(q)
       /\ ranked' = Append(ranked, p)
  /\ UNCHANGED <<candidates, exhausted>>

Exhaust ==
  /\ candidates # {}
  /\ candidates = Ranked
  /\ exhausted' = TRUE
  /\ UNCHANGED <<candidates, ranked>>

Spec == Init /\ [][Offer \/ Rank \/ Exhaust]_rankingVars
=============================================================================
