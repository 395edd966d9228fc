SPECIFICATION Spec
CONSTANTS
    p1 = p1
    Payments <- OnePayment
    BatchSize = 1
    MaxPayments = 1
    MaxHeaders = 2
    Validity = 2
    MaxBlocks = 3
    MaxLag = 1
CHECK_DEADLOCK FALSE
INVARIANTS
    NoFalsePaymentAlarm
    ProofsAreFinal
    BodiesAttributed
    RetiredIsDead
