--------------------------- MODULE MCStickyDecider ---------------------------
(* Small workflows for StickyDecider, one per way of waiting. *)
EXTENDS StickyDecider

Op(op, of) == [op |-> op, of |-> of, caught |-> FALSE]
Caught(op, of) == [op |-> op, of |-> of, caught |-> TRUE]
Of(op, of, calls) == [op |-> op, of |-> of, caught |-> FALSE, calls |-> calls]
All(calls, limit, mode) ==
  [op |-> "all", of |-> "", caught |-> TRUE, calls |-> calls, limit |-> limit, mode |-> mode]

Plain(ops) ==
  [old |-> ops, new |-> ops, signals |-> {}, events |-> 1, cancels |-> FALSE, failing |-> {"a"}]

Sequential == [Plain(<<Op("now", ""), Caught("step", "a"), Op("sleep", ""), Op("now", ""), Op("step", "b")>>)
                 EXCEPT !.failing = {"a"}, !.signals = {"x"}]
Listening == [Plain(<<Op("listen", "x"), Op("step", "a"), Op("signal", "x"), Op("step", "b")>>)
                EXCEPT !.signals = {"x"}, !.events = 2, !.failing = {}]
Racing == [Plain(<<Op("listen", "x"), Of("select", "", <<Op("step", "a"), Op("sleep", "")>>), Op("step", "b")>>)
             EXCEPT !.signals = {"x"}]
Parallel(mode, failing) ==
  [Plain(<<Op("listen", "x"), All(<<Op("step", "a"), Op("child", "c"), Op("step", "b")>>, 2, mode), Op("continue", "")>>)
     EXCEPT !.signals = {"x"}, !.failing = failing]
Unsignalled == [Parallel("settled", {"a"}) EXCEPT !.signals = {}]
Saga == [Plain(<<Op("onCancel", "undo1"), Op("step", "a"), Op("onCancel", "undo2"),
                 All(<<Op("step", "b"), Op("step", "c")>>, 1, "all"), Op("step", "d")>>)
           EXCEPT !.cancels = TRUE, !.failing = {"undo2"}]
Patched ==
  [Plain(<<Op("step", "a"), Op("step", "b")>>)
     EXCEPT !.new = <<Op("step", "a"), Of("patch", "p", <<Op("step", "b2"), Op("step", "b")>>)>>,
            !.failing = {}]

Workflows == {Sequential, Listening, Racing, Parallel("all", {"c"}), Unsignalled, Saga, Patched}

\* A cancelled sleep: the timer may still fire while the compensation runs.
Sleeping == [Plain(<<Op("onCancel", "undo1"), Op("step", "a"), Op("sleep", ""), Op("step", "b")>>)
               EXCEPT !.cancels = TRUE, !.failing = {}]

OnlySequential == {Sequential}
OnlySleeping == {Sleeping}

Symmetry == Permutations(Worker)
=============================================================================
