SPECIFICATION WebhookSpec
CONSTANTS
    h1 = h1
    h2 = h2
    k1 = k1
    k2 = k2
    v1 = v1
    v2 = v2
    None = None
    Webhooks = {h1, h2}
    Keys = {k1, k2}
    KeyOf <- MCKeyOf
    Workers = {v1, v2}
    MaxAttempts = 5
SYMMETRY WorkerSymmetry
CHECK_DEADLOCK FALSE
INVARIANT
    DeliveredIsAcknowledged
