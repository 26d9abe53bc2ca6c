SPECIFICATION Spec
CONSTANTS
    Path <- MCPath
    Module <- MCModule
    DefinedIn = "ab"
    Grants <- MCGrants
    MaxGrants = 3
INVARIANTS WorkerDecidesAlike TraversalMeansImport FromMeansAttribute PrivilegesDeclared
