---------------------------- MODULE MCPlanSwitch ----------------------------
(* Instances of PlanSwitch for TLC. *)
EXTENDS PlanSwitch, Sequences, TLC

Prices == [p \in Plans |->
             CASE p = "free" -> 0 [] p = "basic" -> 1 [] p = "pro" -> 2]

Symmetry == Permutations(Actors)

(* One new row and one new code are as good as another: they are taken in  *)
(* this order, which is what a symmetry of rows and codes would leave, at  *)
(* less cost.                                                              *)
RowOrder == <<"r1", "r2", "r3", "r4">>
CodeOrder == <<"k1", "k2", "k3">>
InOrder ==
  /\ \A i \in 2..Len(RowOrder) :
       subs[RowOrder[i]].status # "none" => subs[RowOrder[i - 1]].status # "none"
  /\ \A i \in 2..Len(CodeOrder) :
       provider[CodeOrder[i]].status # "none" => provider[CodeOrder[i - 1]].status # "none"
=============================================================================
