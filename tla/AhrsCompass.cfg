SPECIFICATION Spec
CONSTANTS
    I16_MAX = 31
    Q15_ONE = 4
    ALPHA_Q15 = 3
    MAG_MEAS_MAX = 15
    MIN_SAMPLES = 3
    MAX_SAMPLES = 4
    MIN_SPAN = 3
    UINT16_MAX = 5
    Samples <- MCSamples
    ImuReadings <- MCImuReadings
    MAX_REQUESTS = 3
INVARIANTS
    TypeOK
    WholeCalibration
    BoundsAreHeard
    DecodedIsPublished
PROPERTIES
    VerdictIsDeserved
    CentresTheTurn
    HeadingTurnsWithField
    CalibrationEnds
