\* The claim of the comments of check_mpde_bit.
CONSTANT PhyAccess <- ShippedPhyAccess
SPECIFICATION Spec
INVARIANT MpdeReferredRuns
