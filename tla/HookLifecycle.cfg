SPECIFICATION Spec
CONSTANTS
    t1 = t1  t2 = t2  g1 = g1
    c1 = c1  c2 = c2  nameC = nameC
    m1 = m1  m2 = m2  m4 = m4
    sigA = sigA  sigB = sigB
    b1 = b1  b2 = b2
    Thread = {t1, t2}
    ForeignThread = {t1, t2, g1}
    Class = {c1, c2}
    Method = {m1, m2, m4}
    Callback = {b1, b2}
    HasCode = {m1, m2, m4}
    NoThread = NoThread  NoMethod = NoMethod
    NoCallback = NoCallback  NoName = NoName
    ClassOf <- MCClassOf
    ClassName <- MCClassName
    Sig <- MCSig
    Listeners <- MCListeners
SYMMETRY MCSymmetry
CONSTRAINT MCOneRefused
INVARIANTS WovenIsRegistered KindsMatchCallback IInv
PROPERTIES WovenAsLastAsked ImplementsSlots
