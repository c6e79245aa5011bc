SPECIFICATION Spec
CONSTANTS
    NotUsed = NotUsed
    Parts = {"cache", "retries", "external", "index", "ctx"}
INVARIANTS
    ServedIsWhole OneProvider FileIsThere IndexAgrees NoProxyLeftBehind
PROPERTIES
    SavedFilesKept ProxySettles
