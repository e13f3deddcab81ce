------------------------ MODULE MCTemplateBuilder --------------------------
EXTENDS TemplateBuilder

MCAmounts == {1, 2}
MCRelLocks == {[kind |-> "RH", value |-> 1], [kind |-> "RH", value |-> 2],
               [kind |-> "RT", value |-> 1]}
MCAbsLocks == {[kind |-> "AH", value |-> 1], [kind |-> "AT", value |-> 1],
               [kind |-> "AH", value |-> 2]}
=============================================================================
