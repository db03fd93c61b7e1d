--------------------------- MODULE MCPoolSelection ---------------------------
(* Four endpoints, two of one weight, models that some of them serve, and  *)
(* a route that names one.                                                 *)
EXTENDS PoolSelection

MCEndpoints == <<[name |-> "a", weight |-> 3, models |-> {}, timeout |-> 1],
                 [name |-> "b", weight |-> 0, models |-> {"qwen"}, timeout |-> 1],
                 [name |-> "c", weight |-> 2, models |-> {"think"}, timeout |-> 1],
                 [name |-> "d", weight |-> 1, models |-> {"think"}, timeout |-> 1]>>
MCAsked == {[model |-> "none", names |-> {}], [model |-> "qwen", names |-> {}],
            [model |-> "think", names |-> {}], [model |-> "think", names |-> {"c"}]}
=============================================================================
