------------------------------ MODULE MCRestore ------------------------------
EXTENDS RestoreCoordinator

MCPlatforms == {"linux/amd64", "darwin/arm64"}
=============================================================================
