--------------------------- MODULE MCQueryLanguage ---------------------------
EXTENDS QueryLanguage, TLC

CONSTANTS a, b, i1, i2, o1

MCIdList == {{}, {i1}}

MCLeaf == {[op |-> "equals", value |-> 1], [op |-> "all", value |-> {0}]}

Field(k, v) == [kind |-> k, val |-> v]
Fields == {Field("absent", {}), Field("plain", {1}), Field("list", {0, 1})}

MCDocument ==
  {[id |-> i, owner |-> o, field |-> [p \in {a, b} |-> IF p = a THEN x ELSE y]] :
     i \in {i1}, o \in {o1, None}, x \in Fields, y \in Fields}
  \cup {[id |-> i2, owner |-> o1, field |-> [p \in {a, b} |-> Field("absent", {})]]}
=============================================================================
