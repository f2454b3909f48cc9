CONSTANTS
    Publishers = {p1}
    Capacity = 2
    Policies = {"DropNewest", "DropOldest", "Block", "BlockTimed"}
    MaxMessages = 6
    MaxSubscribers = 1
SPECIFICATION Spec
CHECK_DEADLOCK FALSE
INVARIANTS RingIsSound
PROPERTIES AcceptedIsDelivered PublishReturns
