CONSTANTS
    Initiator = Initiator
    Responder = Responder
    Sm2Suite = Sm2Suite
    HybridSuite = HybridSuite
    Sm2Sig = Sm2Sig
    OtherSig = OtherSig
    Zero = Zero
SPECIFICATION Spec
INVARIANTS
    TypeOK
    SameOutcome
    BestSuite
    NoNeedlessFailure
CHECK_DEADLOCK FALSE
