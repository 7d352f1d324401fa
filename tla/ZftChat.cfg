SPECIFICATION FairSpec
CONSTANTS
    c1 = c1
    WeCom = WeCom
    Pages <- OnePage
    Questions <- ThreeQuestions
    AskedOn <- AskedOnPageOrWeCom
    MaxPosts = 2
    HistoryLength = 2
INVARIANTS
    TranscriptPairs
    PromptWellFormed
PROPERTY
    PageRecovers
\* The system stops when every question was asked.
CHECK_DEADLOCK FALSE
