---------------------------- MODULE MCSubprocess ----------------------------
(***************************************************************************)
(* Calls for TLC: pipes of one or two bytes, inputs that do and do not fit *)
(* them, and every short program.                                          *)
(***************************************************************************)
EXTENDS Subprocess

MCCapacity == 2

CallsOver(pipes, sizes, times, stops, handlers, progs) ==
    [pipes : pipes, size : sizes, limit : times, stops : stops, handler : handlers,
     prog : progs]

Programs(instrs, n) == UNION {[1..m -> instrs] : m \in 0..n}

\* Programs that end by themselves.
Finite == Instr \ {"hang"}

PassingCalls ==
    CallsOver({Chan}, {0, 3}, {0}, {FALSE}, {FALSE}, Programs(Finite, 3))
    \cup CallsOver({{"in", "out"}}, {1, 3}, {0}, BOOLEAN, {TRUE},
                   Programs({"all", "in", "out", "close in", "hang"}, 3))
    \cup CallsOver({{"in", "out"}}, {3}, {3}, {FALSE, TRUE}, {FALSE},
                   Programs({"all", "out", "crash", "hang"}, 2))
    \cup CallsOver({Output, {}}, {0}, {2}, {FALSE}, BOOLEAN,
                   Programs({"in", "out", "err", "hang"}, 2))
    \cup CallsOver({{"in", "out"}}, {2}, {2}, {FALSE}, {FALSE},
                   {<<"out", "out", "out", "out", "all">>,
                    <<"out", "out", "out", "close out", "crash">>})

\* A filter: it copies its input to its output, byte for byte.
FilterCalls ==
    CallsOver({{"in", "out"}}, {7}, {0}, {FALSE}, {FALSE},
              {[i \in 1..14 |-> IF i % 2 = 1 THEN "in" ELSE "out"]})

HangCalls == CallsOver({Chan}, {1}, {2}, {FALSE}, {FALSE}, {<<"out", "hang">>})

\* A write() that is cut short, by a stop or by a handler.
CutCalls ==
    CallsOver({{"in"}}, {4}, {0}, {TRUE}, {FALSE}, {<<"all">>})
    \cup CallsOver({{"in"}}, {4}, {0}, {FALSE}, {TRUE}, {<<"all">>})

\* Programs that end while the process handles a signal, or never.
HandlerCalls == CallsOver({{}}, {0}, {0}, {FALSE}, {TRUE}, {<< >>, <<"hang">>})
=============================================================================
