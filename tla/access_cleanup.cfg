CONSTANT SetupDevs = 2
SPECIFICATION SetupSpec
INVARIANT CleanupOwned
