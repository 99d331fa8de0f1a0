SPECIFICATION PublicationSpec
CONSTANTS
    None = None
    Obstacle = Obstacle
    i1 = i1
    d1 = d1
    d2 = d2
    l1 = l1
    l2 = l2
    b1 = b1
    b2 = b2
    DeliveryIntake = {i1}
    Delivery = {d1, d2}
    IntakeOfDelivery <- MCIntakeOf
    Location = {l1, l2}
    LocationOfDelivery <- MCLocationOf
    Bytes = {b1, b2}
    PayloadOfDelivery <- MCPayloadOf
    Publisher = {p1, p2}
    PublicationCommand = {c1, c2, c3}
    Reader = {u1}
    MaxFileChanges = 3
    MaxInvoked = 3
CONSTRAINT FewCalls
SYMMETRY Symmetry
INVARIANTS
    PublicationsAreValid
    PublicationsAreHonoured
    StableAvailabilityIsRight
CHECK_DEADLOCK FALSE
