------------------------------ MODULE MCCodeJudge ------------------------------
(* CodeJudge on a problem with two samples and one with none: a right        *)
(* program, which passes the second sample even without input, one that      *)
(* compiles with a warning, one that does not compile, one that does not     *)
(* end, and none at all.                                                     *)
EXTENDS CodeJudge

CONSTANTS right, warned, broken, endless, empty

MCPrograms == {right, warned, broken, endless, empty}
MCBroken   == {broken, empty}
MCWarned   == {warned}
MCEndless  == {endless}
MCProblems == {2, 6}
MCCases    == [p \in {2} |-> 2]
MCOnSample == [p \in MCPrograms |-> IF p \in {right, warned} THEN Samples ELSE {}]
MCOnEmpty  == [p \in MCPrograms |-> IF p = right THEN {<<2, 2>>} ELSE {}]
===============================================================================
