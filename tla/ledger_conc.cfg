SPECIFICATION Spec
CONSTANTS
    p1 = p1
    p2 = p2
    p3 = p3
    alice = alice
    bob = bob
    Null = Null
    Payments = {p1, p2}
    Levels = {1}
    Agents = {alice}
    AgentOf <- OneAgent
    AmountOf <- SomeAmounts
    Batches = {b1, b2}
    Handlers = {h1, h2}
    InOrder = FALSE
INVARIANTS PaidRowsInPaidBatch OpenBatchCovered
PROPERTY AttachedOnce
SYMMETRY Symmetry
