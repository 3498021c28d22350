CONSTANTS
    Machines <- MCMachinesKey
    Timeout = 2
SPECIFICATION Spec
INVARIANT NoReset
