\* Two descriptors, a set size that changes between one and two, two handler functions,
\* registrations with a barrier; safety and liveness of the loop.
SPECIFICATION Spec
CONSTANTS
    NumFds = 2
    SetSizes <- SizesOneTwo
    Procs = {p, q}
    NewMasks <- BarrierMasks
INVARIANTS
    TypeOK
    KernelMirrorsSlots
    MaxfdExact
    RegisteredIsOpen
    BarrierOrder
PROPERTIES
    ResizeKeepsSlots
    BatchCompletes
    SignalEndsBusyProgram
CHECK_DEADLOCK FALSE
