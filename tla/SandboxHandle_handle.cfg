SPECIFICATION Spec
CONSTANTS
    Threads = {t1, t2}
    Endpoints = {api, h1, h2}
    Api = api
    h1 = h1
    h2 = h2
    MaxTokens = 2
SYMMETRY Symmetry
INVARIANT TypeOK
INVARIANT DeletedIsTrue
INVARIANT StatusHasBeen
INVARIANT RetryIsFresh
INVARIANT NoChannelLeft
PROPERTY DeletedIsFinal
