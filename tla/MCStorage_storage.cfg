\* One file store after the other: a trail of three entries with one change from
\* outside; two threads and two sessions; two requests and two changes of the tokens
\* file; two vault records of this version or older ones, one damage, two migrations.
SPECIFICATION StorageSpec
CONSTANTS
    None = None
    NoKey = NoKey
    k1 = k1
    Altered = Altered
    artA = artA
    ok = ok
    Keys = {NoKey, k1}
    Artifacts = {artA}
    Contents = {ok}
    MaxEntries = 3
    MaxEdits = 1
    NoThread = NoThread
    t1 = t1
    t2 = t2
    s1 = s1
    s2 = s2
    Threads = {t1, t2}
    Sessions = {s1, s2}
    Missing = Missing
    Corrupt = Corrupt
    MaxWrites = 1
    Unbound = Unbound
    Unreadable = Unreadable
    sA = sA
    sB = sB
    redB = redB
    quote1 = quote1
    quote2 = quote2
    short = short
    VaultKeys = {NoKey, k2, k3}
    k2 = k2
    k3 = k3
    VaultSessions = {sA, sB}
    Redacted <- MCRedacted
    Payloads <- MCPayloads
    ShortQuotes = {short}
    MaxRecords = 2
    MaxDamage = 1
    MaxMigrations = 2
    ann = ann
    bob = bob
    r1 = r1
    r2 = r2
    o1 = o1
    NoRegistry = NoRegistry
    NoName = NoName
    Names = {ann, bob}
    Requests = {r1, r2}
    Operators = {o1}
    MaxTokenEdits = 2
SYMMETRY MCVaultKeys
INVARIANTS
    
    AnchoredPartIsGenuine
    
    VerifiedQuotesWereCollected
    RevokedTokensAreRefused
    IssuedTokensWork
PROPERTIES
    AnchorStaysOnItsChain
    NoWriteIsLost
    MigrationLosesNoEvidence
CHECK_DEADLOCK FALSE
