CONSTANTS
    alice = alice
    alice_ = alice_
    bob = bob
    Nicks = {alice, alice_, bob}
    MyNick = alice
    Channels = {a, b}
    Requests = {r1, r2}
    None = None
    Underscored <- NextNick
    UnderWayMax = 2
    Inputs <- NoGhost
SPECIFICATION MCSpec
SYMMETRY Twins
INVARIANT TypeOK
INVARIANT RosterMatches
INVARIANT MembershipKnown
INVARIANT SavedIsJoined
INVARIANT NickKnown
INVARIANT ConfirmedJoinIsAnswered
