SPECIFICATION Spec
CONSTANT Regs <- MCRegs
INVARIANT TypeOK
INVARIANT ReadIsOwn
INVARIANT HolderIsInside
PROPERTY CallsReturn
