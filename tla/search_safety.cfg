SPECIFICATION Spec
CONSTANTS
    Peers = {p1, p2}
    Files = {f1}
    Overflow <- AllFit
    Digests = {d1, d2}
    Shell = shell
    Searchers = {shell, retry1, retry2}
    SearchRetries = 2
SYMMETRY Symmetry
INVARIANTS
    TypeOK
    OneSearchPerFile
    EntryWhileSearching
    HeardOrGivenUp
PROPERTIES
    AnswerPrecedence
    PollsAndPosts
