SPECIFICATION Spec
CONSTANTS
    Period = 3
    Share = 2
    Slack = 3
    Limits = {1, 3, 5, 8}
    SleepTime = 4
    Far = 7
    Word = 32
INVARIANTS TimeLimitHonoured StoppedInTime KernelUndisturbed DescriptorsFresh
PROPERTIES ProgramEnds SleepEnds
