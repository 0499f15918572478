----------------------------- MODULE MCConsole -----------------------------
(* Instances of Console for TLC.  An application says which thread makes    *)
(* which calls; a session, what is typed.                                   *)
EXTENDS Console

CONSTANTS t1, t2, o1, o2, o3, d1, d2, n1, n2

ClassOf == [o \in Objs |-> IF o \in {d1, d2} THEN "Device" ELSE "Semaphore"]

None == [t \in Threads |-> {}]
Both(a, b) == [t \in Threads |-> IF t = t1 THEN a ELSE b]
Idle == [inits |-> None, creates |-> None, lists |-> None, registers |-> None,
         uses |-> None, consoles |-> None, inputs |-> None,
         prints |-> [t \in Threads |-> FALSE]]
Apps == {
  [Idle EXCEPT !.inits = Both({o1, o2, o3}, {}), !.lists = Both({}, {"Semaphore"})],
  [Idle EXCEPT !.creates = Both({o1, o2}, {}), !.inits = Both({}, {o3}), !.lists = Both({}, {"Semaphore"})],
  [Idle EXCEPT !.inits = Both({o1}, {o2}), !.lists = Both({"Semaphore"}, {"Semaphore"})],
  [Idle EXCEPT !.lists = Both({}, Classes)],
  [Idle EXCEPT !.registers = Both({d1}, {d2}), !.uses = Both({d1}, {d1})],
  [Idle EXCEPT !.registers = Both({d1, d2}, {}), !.uses = Both({d2},{}), !.consoles = Both({d1, d2}, {}),
               !.prints = Both(TRUE, TRUE), !.inputs = Both({}, {d1, d2})] }

\* Lines that are remembered, completed and gone through.
Names3 == <<<<"a", "b", "a">>, <<"b", "b">>, <<"a", "b", "b">>, <<"a">>>>
Browsing == [keys |-> {"a", "b"}, length |-> 3, lines |-> 3]

\* A line with words and strings.
Quoting == [keys |-> {"a", " ", "quote", "backslash"}, length |-> 5, lines |-> 1]

Short == {Browsing, Quoting}
Large == {[keys |-> {"a", "b"}, length |-> 6, lines |-> 3]}
=============================================================================
