SPECIFICATION FairSpec
CONSTANTS
    p1 = p1
    Payments <- OnePayment
    BatchSize = 1
    MaxPayments = 1
    MaxHeaders = 2
    Validity = 3
    MaxBlocks = 2
    MaxLag = 1
CHECK_DEADLOCK FALSE
PROPERTIES
    CertifiedIsWitnessed
