\* See README.md: the "sequences" run.
SPECIFICATION Spec
CONSTANTS
    MaxPrompt = 7
    ResponseLength = 2
    ExtraWidth = 1
    QHeads = 4
    Jobs <- MCJobs
INVARIANT TrainedAsGenerated
INVARIANT OutputsBelong
INVARIANT GradientsWhole
