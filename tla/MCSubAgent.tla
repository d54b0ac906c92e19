----------------------------- MODULE MCSubAgent -----------------------------
(* Instances of SubAgent: the task message and one conclusion per namespace; *)
(* one task concludes, perhaps twice, the other leaves it to the wrapper.    *)
EXTENDS SubAgent

MCKindOf == [f \in Finding |-> IF f = "asked" THEN "user_input" ELSE "conclusion"]
MCMaxConcludes == [t \in Task |-> IF t = "t1" THEN 2 ELSE 0]
=============================================================================
