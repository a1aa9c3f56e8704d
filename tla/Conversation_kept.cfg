\* A completed answer among weaker acknowledgements, interruptions and the hook.
CONSTANTS
    Replies = {c1, c2}
    Acks = {a1}
    Nobody = Nobody
    MaxFailures = 1
SPECIFICATION Spec
SYMMETRY Symmetry
PROPERTIES CompletedAnswerKept
CHECK_DEADLOCK FALSE
