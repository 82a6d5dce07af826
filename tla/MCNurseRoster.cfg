SPECIFICATION RosterSpec
CONSTANTS
    Weeks = 2
    AnyShift = AnyShift
    NoNurse = NoNurse
    NoShift = NoShift
    ann = ann
    bo = bo
    Drifts = {0, 10}
    Instances <- MCInstances
INVARIANT RosterTypeInv
INVARIANT ModelIsValidator
INVARIANT HardScoreIsVerdict
INVARIANT RowsAdmitTheValid
INVARIANT OptimalIsBest
