--------------------------- MODULE RegisterLayout ---------------------------
(***************************************************************************)
(* Which registers the transforms take for themselves                      *)
(* (instrumentation.cc, modify_parameter_transform.cc).                    *)
(*                                                                         *)
(* A method has `registers' registers; its arguments arrive in the last    *)
(* `ins' of them, `this' first.  thisIndex is the register of `this' (of   *)
(* the first argument if the method is static) as it was compiled.         *)
(***************************************************************************)
EXTENDS Integers

\* EntryHook and ModifyParameter work in v0, v1, v2: what must be added so
\* that no argument arrives there.
HeadRoom(registers, ins) ==
    IF registers - ins >= 3 THEN 0 ELSE 3 - (registers - ins)

----------------------------------------------------------------------------
(* ExitHook: a pair of registers for the jmethodID at a return of `count'  *)
(* registers from reg on.                                                  *)

\* isVRegEnough: are there two registers besides the result?
Enough(thisIndex, count) == thisIndex - count >= 2

\* The first register after the result and after `this'.
ParamBegin(thisIndex, static, reg, count) ==
    LET afterThis == thisIndex + IF static THEN 0 ELSE 1
    IN  IF afterThis >= reg + count THEN afterThis ELSE reg + count

\* What AllocateScratchRegs has to add.
ExitScratch(registers, thisIndex, static, reg, count) ==
    LET begin == ParamBegin(thisIndex, static, reg, count)
    IN  IF ~Enough(thisIndex, count) /\ begin > registers - 2
        THEN begin + 2 - registers ELSE 0

\* regIndexMethodId, of a pair.
MethodIdReg(thisIndex, static, reg, count) ==
    IF Enough(thisIndex, count) THEN reg + count
    ELSE ParamBegin(thisIndex, static, reg, count)

\* A pair at id is usable: it exists, and holds neither the result nor `this'.
Usable(id, registers, thisIndex, static, reg, count) ==
    /\ id >= 0 /\ id + 1 < registers
    /\ \A r \in {id, id + 1} :
          /\ ~(reg <= r /\ r < reg + count)
          /\ ~static => r # thisIndex
=============================================================================
