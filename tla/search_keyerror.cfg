SPECIFICATION Spec
CONSTANTS
    Peers = {p1}
    Files = {f1}
    Overflow <- AllFit
    Digests = {d1}
    Shell = shell
    Searchers = {shell, retry1, retry2}
    SearchRetries = 1
INVARIANT EntryClearedAtTheEnd
