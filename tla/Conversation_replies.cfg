\* Repeated and overlapping calls that may raise or die at any step, with and without the hook.
CONSTANTS
    Replies = {c1, c2}
    Acks = {a1, a2}
    Nobody = Nobody
    MaxFailures = 2
SPECIFICATION Spec
SYMMETRY Symmetry
INVARIANTS TypeOK OneReply
PROPERTIES ImplementsReplyContract AnswerSurvives ReportedReplyIsRecorded
CHECK_DEADLOCK FALSE
