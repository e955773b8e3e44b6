SPECIFICATION Spec
CONSTANTS
    ann = ann
    bob = bob
    cleo = cleo
    bot = bot
    ci = ci
    r1 = r1
    r2 = r2
    None = None
    Members = {ann, bob}
    FirstAdmins = {ann, bob}
    Keys = {bot, ci}
    AssignKeys = {bot}
    Requests = {r1, r2}
SYMMETRY Alike
INVARIANTS
    TypeOK
    AdminRemains
PROPERTIES
    HoldEndsByRight
CHECK_DEADLOCK FALSE
