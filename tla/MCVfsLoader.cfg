SPECIFICATION Spec
CONSTANTS
    Threads = {t1, t2}
    Names <- MCNames
    Packages <- MCPackages
    Modules <- MCModules
    MaxObject = 4
    MaxFrames = 5
SYMMETRY Interchangeable
INVARIANTS NoFailedModule OneObject
CHECK_DEADLOCK FALSE
