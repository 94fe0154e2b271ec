CONSTANTS
    None = None
    Routings <- MCRoutings
    Worlds <- MCWorlds
    Calls <- MCCalls
SPECIFICATION Spec
INVARIANTS
    ReuseIsSound
    ExactOffersAll
    DrawingsEarnTheirPlace
    ContactsAreExact
    MeasuresAreExact
