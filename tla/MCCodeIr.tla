------------------------------ MODULE MCCodeIr ------------------------------
(***************************************************************************)
(* Small methods.  Targets are written as the numbers of instructions.     *)
(***************************************************************************)
EXTENDS CodeIr

Insn(op, size, to) == [op |-> op, size |-> size, to |-> to]

Plain(size) == Insn("plain", size, << >>)
Return == Insn("return", 1, << >>)
Goto(to) == Insn("goto", 1, << to >>)
If(to) == Insn("if", 2, << to >>)

\* A switch refers to its payload; a payload counts from the first switch.
Insns(code) ==
    LET at == Offsets(code)
        BaseOf(i) == IF code[i].op = "payload"
                     THEN at[Min({j \in DOMAIN code : code[j].op = "switch" /\ code[j].to[1] = i})]
                     ELSE at[i]
    IN  [i \in DOMAIN code |->
            [id |-> i, op |-> code[i].op, size |-> code[i].size, args |-> 0,
             rel |-> [j \in DOMAIN code[i].to |-> at[code[i].to[j]] - BaseOf(i)]]]

\* A try block over instructions first .. last.
Try(code, first, last, count, to) ==
    LET at == Offsets(code)
    IN  [start |-> at[first], insn_count |-> at[last + 1] - at[first], catch_count |-> count,
         addresses |-> [j \in DOMAIN to |-> at[to[j]]]]

Method(code, tries, debug) ==
    [insns |-> Insns(code), outs_count |-> 0, tries |-> tries, debug |-> debug]

Debug(start, ops) == [line_start |-> start, param_names |-> << >>, data |-> ops]

Special(line, pc) ==
    Op("special", DBG_FIRST_SPECIAL + line - DBG_LINE_BASE + DBG_LINE_RANGE * pc)

\* The line moves by the most and by more than a special opcode can.
Lines == << Special(0, 0), Special(10, 2), Op("advance_pc", 1), Op("advance_line", -9),
            Special(0, 0), Special(-4, 1) >>

\* Another file and back, and a local that ends with the code.
Notes == << Op("prologue_end", 0), Special(0, 0), Op("file", 1), Op("start_local", 7),
            Special(1, 2), Op("file", 0), Special(0, 1), Op("advance_pc", 4),
            Op("end_local", 7) >>

Debugs == {NoDebug, Debug(5, << >>), Debug(5, Lines), Debug(5, Notes),
           [Debug(5, Notes) EXCEPT !.param_names = << "p" >>]}

\* Three instructions and a return, with every branch between them.
Branches ==
    {Method(<< a, b, c, Return >>, << >>, NoDebug) :
        a \in {Plain(1), If(2), If(3), Goto(4)},
        b \in {Plain(3), If(1), Goto(4), Return},
        c \in {Plain(2), If(1), If(2), Goto(1), Goto(2), Insn("goto32", 3, << 3 >>)}}

Five == << Plain(2), Plain(1), Plain(1), Return, Plain(1), Return >>

\* Typed handlers, a catch-all, and both; one block or two that touch.
Tries ==
    {Method(Five, tries, debug) :
        debug \in Debugs,
        tries \in {<< >>,
                   << Try(Five, 1, 3, 0, << 5 >>) >>,
                   << Try(Five, 1, 2, -1, << 3, 5 >>), Try(Five, 3, 4, 2, << 5, 6 >>) >>,
                   << Try(Five, 6, 6, 1, << 1 >>) >>}}

\* A payload of size 4 + 2 * 2 after code of odd or even size, array data,
\* and a payload that two switches share.
Switches ==
    {Method(<< Insn("switch", 3, << 5 >>), Plain(n), Return, Plain(2), Insn("payload", 8, << 2, 3 >>) >>,
            << >>, Debug(5, << Special(1, 3) >>)) :
        n \in {2, 4}}
    \cup {Method(<< Plain(1), Insn("fill", 3, << 5 >>), Insn("switch", 3, << 6 >>), Return,
                    Insn("data", 4, << >>), Insn("payload", 6, << 1 >>) >>, << >>, NoDebug),
          Method(<< Insn("switch", 3, << 4 >>), Insn("switch", 3, << 4 >>), Plain(2),
                    Insn("payload", 6, << 3 >>) >>, << >>, NoDebug)}

MCMethods == Branches \cup Tries \cup Switches

MCHooks == {[size |-> 1, args |-> 0], [size |-> 3, args |-> 4]}

\* Positions from line 0.
LineZero == {Method(Five, << >>, Debug(0, << Special(5, 0), Special(1, 2) >>))}
=============================================================================
