SPECIFICATION Spec
CONSTANTS
    Kinds <- FewKinds
    Nests <- FewNests
    DrawerKinds <- Exempt
    OwnOnly <- Own
    Unchecked <- Free
    LogOff = "LogOff"
    Staff <- TwoStaff
    Grants <- FewGrants
    NoOne = NoOne
    Lanes <- TwoLanes
    lane1 = lane1
    lane2 = lane2
SYMMETRY Alike
INVARIANT TypeOK
INVARIANT ElevationKept
INVARIANT NotInherited
INVARIANT RevertedToSelf
