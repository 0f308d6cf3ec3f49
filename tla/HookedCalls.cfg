SPECIFICATION CallsFairSpec
CONSTANTS
    t1 = t1  g1 = g1  p1 = p1  p2 = p2
    app = app  sys = sys  nameA = nameA  nameS = nameS
    m1 = m1  s1 = s1  sig = sig  b1 = b1  b2 = b2
    Thread = {t1}
    ForeignThread = {t1}
    Class = {app, sys}
    Method = {m1, s1}
    Callback = {b1, b2}
    HasCode = {m1, s1}
    NoThread = NoThread  NoMethod = NoMethod
    NoCallback = NoCallback  NoName = NoName
    ClassOf <- MCClassOf
    ClassName <- MCClassName
    Sig <- MCSig
    Listeners <- MCListeners
    Caller = {p1}
    BootClass = {sys}
    PubCopied = TRUE
    HookerLoader = {TRUE, FALSE}
    Static = {}
    ReturnType <- MCReturnType
    PrimitiveParam = {m1}
CONSTRAINT MCRefused
INVARIANTS CallsInv NoAssertionError
PROPERTIES MissedOnlyInWindow NullListenerOnlyIfReplaced CallsEnd
