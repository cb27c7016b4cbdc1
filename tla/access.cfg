SPECIFICATION Spec
CONSTANTS
    Orgs = {o1, o2}
    Seeded = {o1}
    People = {p1, p2}
    Invites = {i1, i2}
    Clients = {c1, c2}
    Offers = {"owner", "admin"}
    Changes = {"owner", "member"}
    None = None
SYMMETRY Symmetry
INVARIANTS
    TypeOK
PROPERTIES
    OrgKeepsItsOwner
    JoinsOnlyByInvitation
    RevokedAtOnce
    RacesExplainDuplicates
