CONSTANTS
    lead = lead
    wing = wing
    hq = hq
    jet = jet
    order = order
    report = report
    Role = {lead, wing}
    Unit = {hq, jet}
    Nowhere = Nowhere
    At <- MCAt
    Message = {order, report}
    C2 = {order}
    Private = {order}
    Author <- MCAuthor
    From <- MCFrom
    To <- MCTo
    Late = {order}
    Days = 1
    Batch = 2
    Limit = 1
    Capacity = 2
    MaxDay = 2
    MaxObserved = 4
    Scenes = {"durable", "upgraded", "volatile"}
SPECIFICATION Spec
INVARIANTS  NumbersAreNotReused
PROPERTIES OnlyDeadHistoryGoes HistoryIsCleared
CHECK_DEADLOCK FALSE
