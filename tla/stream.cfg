SPECIFICATION Spec
CONSTANTS
    Tokens = {"word", "blank", "pre", "post", "bit", "echo", "dsml", "half"}
    Apis = {"chat", "responses", "messages"}
    Frags = 2
    EchoLen = 2
    MaxIndex = 2
    MaxLines = 4
    MaxAhead = 1
INVARIANTS
    WholeAnswer
    NothingHidden
    ShownIsReported
    EchoNeverShown
