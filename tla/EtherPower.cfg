\* The shipped wiring; the system is never meant to stop.
CONSTANT PhyAccess <- ShippedPhyAccess
SPECIFICATION Spec
INVARIANT TypeOK
INVARIANT RunsIffNeeded
INVARIANT OpenHasPower
INVARIANT PowerOnPowers
INVARIANT WakeIsSeen
