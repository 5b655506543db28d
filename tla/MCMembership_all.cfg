SPECIFICATION Spec
CONSTANTS
    Users = {u1, u2, u3}
    Founder = u1
    Invites = {i1}
    Handlers = {h1, h2}
    Offered = {"owner", "admin"}
    Nobody = Nobody
SYMMETRY Symmetry
INVARIANTS SerialHasOwner SerialInviteOnce
PROPERTY SerialOwnersChangeOwners
CHECK_DEADLOCK FALSE
