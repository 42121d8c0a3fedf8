CONSTANT Graphs <- DiamondGraphs
SPECIFICATION Spec
INVARIANT AllArrive
