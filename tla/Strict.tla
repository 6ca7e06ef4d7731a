------------------------------- MODULE Strict -------------------------------
(***************************************************************************)
(* Call by value. With(v, Op) is Op(v), and Fold(Op, base, seq) is         *)
(* FoldLeft(Op, base, seq); TLC evaluates v, and each intermediate result, *)
(* once instead of once per use, which the nested walks need.              *)
(***************************************************************************)
EXTENDS SequencesExt

With(v, Op(_)) == CHOOSE y \in {Op(x) : x \in {v}} : TRUE

Fold(Op(_, _), base, seq) ==
  LET Step(r, e) == With(r, LAMBDA x : With(e, LAMBDA y : Op(x, y)))
  IN With(seq, LAMBDA s : FoldLeft(Step, base, s))
=============================================================================
