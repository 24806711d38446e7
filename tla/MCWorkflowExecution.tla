------------------------- MODULE MCWorkflowExecution -------------------------
(* TLC instances of WorkflowExecution: events of one customer, and one of   *)
(* none, against two rules of a note and a task, or three of tasks.         *)
EXTENDS WorkflowExecution

CONSTANTS e1, e2, e3, w1, w2, c1

MCCustomerOf == [e \in Events |-> IF e = e3 THEN NoCustomer ELSE c1]
MCKind == <<<<"note", "task">>, <<"task">>>>
MCKind3 == <<<<"task", "task">>, <<"task">>, <<"task">>>>
MCLimit == [r \in Rules |-> 1]
MCAll == Events \X Rules
MCMatches == MCAll \ {<<e2, 1>>}
MCNever == {}
MCSometimes == {<<e2, 1>>}
=============================================================================
