---------------------------- MODULE MCFileTable ----------------------------
EXTENDS FileTable, TLC

CONSTANTS data, dir, null

MCInodes == {data, dir, null}
MCType == (data :> "data") @@ (dir :> "dir") @@ (null :> "null")
MCModes == {{"read"}, {"read", "write"}, {"create", "write", "append"}}
=============================================================================
