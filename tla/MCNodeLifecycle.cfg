SPECIFICATION Spec
CONSTANTS
    Images = {i1, i2}
    NoImage = NoImage
    Callers = {k1, k2}
    MaxAborts = 1
    InstallDiskExists = TRUE
SYMMETRY Symmetry
INVARIANTS NodeTypeOK RebootNeverConflicts ChangeCausesReboot ReportsCurrent
