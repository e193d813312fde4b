------------------------------- MODULE MCRules -------------------------------
EXTENDS Rules

\* A marathon with all four rules.
Drawdowns == {[minTrades |-> 1, total |-> 50, daily |-> 60, floating |-> 50]}

\* Ruin; a small equity with a floating gain or loss beyond the limit of the rule; and riches.
Courses == {<<0, 0>>, <<4, 3>>, <<4, -3>>, <<9, 0>>}
=============================================================================
