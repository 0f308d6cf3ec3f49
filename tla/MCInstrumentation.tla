------------------------- MODULE MCInstrumentation -------------------------
(***************************************************************************)
(* Small methods: every number of registers before the arguments from none *)
(* to one more than the transforms need, with wide and narrow parameters,  *)
(* and results in the first and the last of these registers or in an       *)
(* argument; methods that reuse the register of `this'; constructors;      *)
(* methods of about sixteen registers; methods that start with a loop.     *)
(***************************************************************************)
EXTENDS Instrumentation

AsItIs(r) == [reg |-> r, own |-> TRUE, this |-> "kept"]
Computed(r) == [reg |-> r, own |-> FALSE, this |-> "kept"]
Reusing(r, what) == [reg |-> r, own |-> FALSE, this |-> what]

Shape(static, params, locals, ret, rets, loop) ==
    [static |-> static, params |-> params, locals |-> locals, ret |-> ret,
     rets |-> rets, loop |-> loop, ctor |-> FALSE]

MCParams == { << >>, << "int" >>, << "wide" >>, << "int", "wide" >>,
              << "wide", "ref" >>, << "ref", "int" >> }

\* Returns by way of the first registers, and by way of the last before
\* the arguments.
Void == {Shape(s, p, n, "void", << Computed(0) >>, FALSE) :
            s \in BOOLEAN, p \in MCParams, n \in 0..4}
Narrow == {Shape(s, p, n, "ref", << Computed(0), Computed(n - 1) >>, FALSE) :
            s \in BOOLEAN, p \in MCParams, n \in 1..4}
Wide == {Shape(s, p, n, "wide", << Computed(0), Computed(n - 2) >>, FALSE) :
            s \in BOOLEAN, p \in MCParams, n \in 2..4}
\* return this
This == {Shape(FALSE, p, n, "ref", << AsItIs(n) >>, FALSE) :
            p \in MCParams, n \in 0..4}

FewParams == { << >>, << "int" >>, << "wide", "ref" >> }

\* Something else in the register of `this' at one return or at both, or the
\* result, or part of it.
Reused ==
    {Shape(FALSE, p, n, "int", << Computed(0), Reusing(0, what) >>, FALSE) :
            p \in FewParams, n \in {1, 4}, what \in {"object", "local"}}
    \cup {Shape(FALSE, p, n, "void", << Reusing(0, "object"), Reusing(0, what) >>, FALSE) :
            p \in FewParams, n \in {0, 3}, what \in {"object", "local"}}
    \cup {Shape(FALSE, p, n, ret, << Computed(n) >>, FALSE) :
            p \in FewParams, n \in {0, 3}, ret \in {"ref", "int"}}
    \cup {Shape(FALSE, p, n, "wide", << Computed(n - 1) >>, FALSE) :
            p \in FewParams, n \in {1, 3}}

Constructors == {[m EXCEPT !.ctor = TRUE] : m \in {v \in Void : ~v.static /\ v.params \in FewParams}}

MCMethods == Void \cup Narrow \cup Wide \cup This \cup Reused \cup Constructors

MCHooks ==
    {[enter |-> e, exit |-> x, params |-> p] :
        e \in BOOLEAN, x \in BOOLEAN, p \in {<< >>, << 0 >>, << 1 >>, << 0, 1 >>}}

EnterOnly == [enter |-> TRUE, exit |-> FALSE, params |-> << >>]
ExitOnly == [enter |-> FALSE, exit |-> TRUE, params |-> << >>]

\* Methods that start with a loop: only their exit can be hooked.
Loops == {Shape(s, p, n, "void", << Computed(0) >>, TRUE) :
            s \in BOOLEAN, p \in MCParams, n \in 0..3}

\* Around the sixteen registers an invoke without range can name.
Large == {Shape(s, << "int" >>, n, "ref", << Computed(n - 1), Computed(0) >>, FALSE) :
            s \in BOOLEAN, n \in 14..17}

MCJobs == [method : MCMethods \cup Large, hooks : MCHooks]
            \cup [method : Loops, hooks : {ExitOnly}]

----------------------------------------------------------------------------
(* One job each, for what does not hold.                                   *)

\* static void f(int n) { while (n > 0) n--; }: the loop starts the method.
LoopJob == {[method |-> Shape(TRUE, << "int" >>, 0, "void", << Computed(0) >>, TRUE),
             hooks  |-> EnterOnly]}
=============================================================================
