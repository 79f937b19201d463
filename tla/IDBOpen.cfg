\* Three open() calls with versions 1 and 2 or none, against one database.
\* An open() made while another algorithm spins waits on top of it forever,
\* and the tab's event loop then has nothing left to do: such states have
\* no successor.
CONSTANTS
    NumRequests = 3
    Versions = {1, 2}
SPECIFICATION Spec
INVARIANTS
    TypeOK
    OpenConnectionsCurrent
    UpgradeReportsOldVersion
CHECK_DEADLOCK FALSE
