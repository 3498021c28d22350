CONSTANTS
    Machines <- MCMachines
    Timeout = 2
SPECIFICATION Spec
INVARIANTS TypeOK NoReset
PROPERTIES ResultAccurate EnableReturns
