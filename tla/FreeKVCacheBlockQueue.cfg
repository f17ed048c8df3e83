CONSTANT NumBlocks = 4
SPECIFICATION Spec
INVARIANTS
    LinksConsistent
PROPERTY ImplementsFreeList
