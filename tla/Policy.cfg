SPECIFICATION Spec
CONSTANTS
    a1 = a1
    a2 = a2
    l1 = l1
    l2 = l2
    Accounts = {1}
    Ids <- AllIds
    MaxChanges = 4
INVARIANTS TypeOK SnapshotsComplete PermissionsNested
PROPERTIES OnlyLabelsTakeAway FurtherLabelsOnlyTake
SYMMETRY Interchangeable
