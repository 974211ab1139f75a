SPECIFICATION Spec
CONSTANTS
    I16_MAX = 7
    Q15_ONE = 4
    Accel = {"ax"}
    Gyro = {"gx"}
    Readings <- MCReadings
    Alphas <- MCAlphas
    MAX_REQUESTS = 4
INVARIANT CalibratedReadsZero
