SPECIFICATION Spec
CONSTANTS
    r1 = r1
    r2 = r2
    g1 = g1
    g2 = g2
    agent = agent
    partner = partner
    stray = stray
    None = None
    System = System
    Requests = {}
    Inputs <- MCInputs
    Scale = 10
    Owners = {agent, partner, stray}
    Walleted = {agent, partner}
    Length <- MCLength
    Reports = {}
    Runners = {g1, g2}
    Jobs = {"aggregate_commissions", "archive_old_data", "create_future_partitions"}
    Retention = 1
    Ahead = 1
CHECK_DEADLOCK FALSE
INVARIANT
    DroppedIsArchived
