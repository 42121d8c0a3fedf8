SPECIFICATION OvSpec
CONSTANTS
    Kinds = {"rknn", "sophon", "tensorrt", "openvino"}
    Ins = 1
    Outs = 2
    Shapes = {1, 2}
    ModelShape = 1
    MaxCalls = 4
    MaxRequests = 2
INVARIANTS FailuresAreContained
PROPERTY ReleasedInOrder
CHECK_DEADLOCK FALSE
