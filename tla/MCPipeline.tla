---------------------------- MODULE MCPipeline ----------------------------
(***************************************************************************)
(* Small instances of the out-of-order core.                               *)
(***************************************************************************)
EXTENDS Pipeline

CONSTANTS r1, r2

Op(unit, src, dst) == [unit |-> unit, src |-> src, dst |-> dst, muldiv |-> FALSE, pipelined |-> unit = "fp",
                       ser |-> unit = "sys", lock |-> "clear", direct |-> {}]
IntOp(src, dst)    == Op("int", src, dst)
Branch(src, dst)   == Op("br", src, dst)
Sys(src, dst, lock) == [Op("sys", src, dst) EXCEPT !.lock = lock]

FpOp(src, dst)     == Op("fp", src, dst)
FpDiv(src, dst)    == [FpOp(src, dst) EXCEPT !.pipelined = FALSE]

\* Renaming: an integer and a floating point instruction that write each other's operands,
\* a branch that waits for one of them, and one that writes a register.
MixKinds == {IntOp(<<r1, r2>>, <<r2>>), FpOp(<<r2>>, <<r1>>), Branch(<<r1>>, <<>>), Branch(<<>>, <<r2>>)}

\* Serialization: an instruction that waits for the carry, a move from a special
\* register, an mtcrf of several fields, and a branch without a reorder buffer entry.
SerialKinds == {IntOp(<<r1>>, <<r1>>),
                [IntOp(<<r1>>, <<>>) EXCEPT !.ser = TRUE, !.muldiv = TRUE],
                Sys(<<r1>>, <<r1>>, "clear"), [Sys(<<r1>>, <<>>, "set") EXCEPT !.direct = {r1}],
                Branch(<<r1>>, <<>>)}

\* The same with an mcrf, whose decoding does not touch the interlock flag.
KeepKinds == {IntOp(<<>>, <<r1>>), Sys(<<>>, <<>>, "set"), Sys(<<r1>>, <<r1>>, "keep")}

\* Pipelined and other floating point instructions, without branches.
FpDivKinds == {FpOp(<<>>, <<r1>>), FpDiv(<<r1>>, <<r2>>), FpDiv(<<>>, <<r1>>), IntOp(<<r2>>, <<r1>>)}

\* A divide after a branch that waits for an integer instruction.
FpDivFlushKinds == {IntOp(<<>>, <<r1>>), FpDiv(<<>>, <<>>), Branch(<<r1>>, <<>>)}

\* A move from the FPSCR after a compare.
FpSerialKinds == {FpOp(<<>>, <<r1>>), [FpOp(<<>>, <<r2>>) EXCEPT !.ser = TRUE]}
=============================================================================
