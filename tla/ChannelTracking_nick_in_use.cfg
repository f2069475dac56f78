CONSTANTS
    alice = alice
    alice_ = alice_
    bob = bob
    Nicks = {alice, alice_, bob}
    MyNick = alice
    Channels = {a}
    Requests = {r1}
    None = None
    Underscored <- NextNick
    UnderWayMax = 2
    Inputs <- OnlyJoins
SPECIFICATION Spec
INVARIANT ConfirmedJoinIsAnswered
