SPECIFICATION Spec
CONSTANTS
    Peers = {p1}
    Files = {f1, f2}
    Overflow <- OthersAsFirst
    Digests = {d1}
    Shell = shell
    Searchers = {shell, retry}
    SearchRetries = 1
INVARIANTS
    EntryWhileSearching
    HeardOrGivenUp
PROPERTY SearchEnds
