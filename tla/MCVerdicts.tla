----------------------------- MODULE MCVerdicts -----------------------------
EXTENDS Verdicts

Must(name) == [name |-> name, must |-> TRUE, weight |-> 1]
Nice(name, weight) == [name |-> name, must |-> FALSE, weight |-> weight]

MCBatches == << <<"r1", "r2">>, <<"r3">> >>

(* A name may come twice in a list of criteria, and does in one of them.    *)
MCSnapshots ==
  << {<<Must("go"), Nice("sql", 2)>>, <<Nice("go", 1), Nice("sql", 2)>>,
      <<Must("go"), Must("go")>>},
     {<<Nice("sql", 1)>>} >>
=============================================================================
