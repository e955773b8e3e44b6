SPECIFICATION Spec
CONSTANTS
    ann = ann
    bob = bob
    cleo = cleo
    bot = bot
    ci = ci
    r1 = r1
    r2 = r2
    None = None
    Members = {ann, bob, cleo}
    FirstAdmins = {ann, bob}
    Keys = {bot}
    AssignKeys = {bot}
    Requests = {r1, r2}
INVARIANTS
    LastAdminStays
CHECK_DEADLOCK FALSE
