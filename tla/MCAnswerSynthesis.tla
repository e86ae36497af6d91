----------------------------- MODULE MCAnswerSynthesis -----------------------------
(* Passages of low, of middling and of high score, of two subjects.         *)
EXTENDS AnswerSynthesis

Stating == {[titled |-> FALSE, facts |-> {}], [titled |-> TRUE, facts |-> {}],
            [titled |-> FALSE, facts |-> {"author", "title"}]}
MCPassages ==
  {[score |-> score, subject |-> subject, verified |-> verified, titled |-> of.titled, facts |-> of.facts] :
     score \in {3, 40, 70}, subject \in {"salat", "zakat"}, verified \in BOOLEAN, of \in Stating}

=============================================================================
