CONSTANTS
    Fibers = {f1, f2}
    Outside = {p1, p2}
    Nobody = Nobody
    Nowhere = Nowhere
    Once = Once
    Again = Again
    Either = Either
    Cvs = {Once, Again, Either}
    AutoEvents = {Again, Either}
    AnyEvent = Either
    Listed <- MCListed
    MaxCalls = 6
SPECIFICATION Spec
SYMMETRY Symmetry
INVARIANTS
    TypeOK NoMissedSignal OneWaitPerSignal AnyMissesNothing WaitersCounted
    NoLockCircle
