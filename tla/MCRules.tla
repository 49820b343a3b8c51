------------------------------- MODULE MCRules -------------------------------
(***************************************************************************)
(* The engine as its two users run it.  A program that adds facts and      *)
(* rules as it likes: those of the repository's fixed_point.rs test, and   *)
(* the edges of the language, which are a repeated variable, a literal in  *)
(* a head, an empty body, a head variable no body atom binds, and two      *)
(* arities of one predicate.  And the lens, with the core rules and two    *)
(* continuations of every status, both markers and the two types that      *)
(* rules are about, each no concern of the other's rule.                   *)
(***************************************************************************)
EXTENDS LensRules

X == Var("x")
Y == Var("y")
Z == Var("z")

MCStrings == STRING

MCBaseFacts == {Fact("edge", <<"a", "b">>), Fact("edge", <<"b", "c">>),
                Fact("edge", <<"c", "a">>), Fact("edge", <<"b">>)}

MCRuleSet == {
  Rule(Atom("path", <<X, Y>>), <<Atom("edge", <<X, Y>>)>>),
  Rule(Atom("path", <<X, Z>>), <<Atom("path", <<X, Y>>), Atom("edge", <<Y, Z>>)>>),
  Rule(Atom("loop", <<X, Lit("yes")>>), <<Atom("path", <<X, X>>)>>),
  Rule(Atom("edge", <<Lit("c"), Lit("c")>>), <<>>),
  Rule(Atom("open", <<X, Y>>), <<Atom("edge", <<X>>)>>)}

MCTypes == {"obligation", "opportunity"}

ByLens == continuations # <<>>

ProgramInit == Init /\ continuations = <<>> /\ horizonNear = FALSE /\ left = {}
ProgramNext == ~ByLens /\ Next /\ UNCHANGED <<continuations, horizonNear, left>>

UsesSpec == /\ ProgramInit \/ LensInit
            /\ [][ProgramNext \/ (ByLens /\ LensNext)]_lensVars
            /\ WF_lensVars(EvaluateRound)
=============================================================================
