SPECIFICATION Spec
CONSTANT num_process = 4
INVARIANTS IndexSafe OneResumed
PROPERTY ImplementsRunQueue
