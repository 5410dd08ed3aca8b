---------------------------- MODULE MCPgUnitOfWork ----------------------------
EXTENDS PgUnitOfWork
CONSTANTS b1, b2
MCBlocks == {b1, b2}
=============================================================================
