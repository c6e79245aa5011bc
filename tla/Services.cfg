SPECIFICATION Spec
CONSTANTS
    NotUsed = NotUsed
    Parts = {"status", "ecus", "servicer", "supervisor", "client", "config"}
INVARIANTS
    StatusIsTrue ProxyWhileDownloading AnswersAreTrue HandsOverClean ClientIsWhole
    ConfigOfItsSlot
PROPERTIES
    RebootWaits ServicesSettle
