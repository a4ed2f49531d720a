----------------------------- MODULE MCCmdProc -----------------------------
(* Instances of EmmcCmdProc for TLC: one command of each kind.             *)
EXTENDS EmmcCmdProc

Cmd(dir, rsp, blocks) ==
  [dir |-> dir, rsp |-> rsp, blocks |-> blocks, bustest |-> FALSE]

Status  == Cmd("none", "R1", 0)    \* CMD13 and its like
GoIdle  == Cmd("none", "R0", 0)    \* CMD0
SendCid == Cmd("none", "R2", 0)    \* CMD2, CMD9, CMD10
OpCond  == Cmd("none", "R3", 0)    \* CMD1
Boot    == Cmd("boot", "R0", 0)
Read(n)  == Cmd("rd", "R1", n)     \* CMD17, CMD18, CMD8
Write(n) == Cmd("wr", "R1", n)     \* CMD24, CMD25

MCAll == {Status, GoIdle, SendCid, OpCond, Boot, Read(1), Read(2), Write(1), Write(2)}
MCWrites == {Status, Write(1)}
MCReads == {Status, Read(1), Read(2)}
=============================================================================
