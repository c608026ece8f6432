SPECIFICATION Spec
CONSTANTS
    t1 = t1
    t2 = t2
    hs256 = hs256
    custom = custom
    h1 = h1
    h2 = h2
    Threads = {t1, t2}
    Names = {hs256, custom}
    Defaults = {hs256}
    Whitelists <- AllWhitelists
    Handlers = {h1, h2}
    Builtin = Builtin
    NotAlgorithm = NotAlgorithm
    NoHandler = NoHandler
SYMMETRY Symmetric
INVARIANTS
    TypeOK
    ListAgrees
PROPERTY
    NoReplacement
