SPECIFICATION Spec
CONSTANT MaxTrayBacklog = 1
INVARIANT AcceptedBlockStartsLayers
