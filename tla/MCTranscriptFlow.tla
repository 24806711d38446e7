--------------------------- MODULE MCTranscriptFlow ---------------------------
(* TLC instance of TranscriptFlow: a call and three rules, one that acts    *)
(* and lets the run go on, one that does not match and one after them.      *)
EXTENDS TranscriptFlow

CONSTANTS e1, w1, w2, c1

MCCustomerOf == [e \in Events |-> c1]
MCKind == <<<<"task">>, <<"task">>, <<"note">>>>
MCNoLimit == [r \in Rules |-> 0]
MCMatches == Events \X {1, 3}
MCNever == {}
=============================================================================
