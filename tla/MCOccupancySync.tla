---- MODULE MCOccupancySync ----
EXTENDS OccupancySync, TLC

OneKind == {[guest |-> TRUE, clean |-> TRUE, late |-> FALSE]}

Event(s, e) == [start |-> s, end |-> e, cancelled |-> FALSE]

(* For each block: not listed, the first night, both nights (the end       *)
(* missing or given), cancelled, unreadable.                               *)
SomeFeeds ==
  [Blocks -> {NoRaw, Event(0, None), Event(0, 2), Event(None, 2),
              [start |-> 0, end |-> 0, cancelled |-> TRUE]}]
====
