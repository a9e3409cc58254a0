------------------------------- MODULE MCBatch -------------------------------
(***************************************************************************)
(* Instances of Batch for TLC: three strains, room for one legacy table,   *)
(* and deals whose values differ for every trump and leader.               *)
(***************************************************************************)
EXTENDS Batch

MCDeals == {"a", "b", "faulty", "unreadable"}
MCValue ==
  [deal \in MCDeals |-> [trump \in Strains |-> [first \in Hands |->
     IF deal = "a" THEN (trump * 4 + first) % 14 ELSE (13 + 5 * trump - 3 * first) % 14]]]

Ask(entry, deals, filter) ==
  [entry |-> entry, pbn |-> "unreadable" \in {deals[k] : k \in DOMAIN deals},
   deals |-> deals, filter |-> filter, mode |-> 0, par |-> TRUE,
   threads |-> 2, chunkSize |-> 1]

DealLists == {<<>>, <<"a">>, <<"a", "b">>, <<"faulty", "b">>, <<"b", "unreadable">>}
Long == <<"a", "b", "a", "b">>

FirstRequests ==
  {Ask(entry, deals, {1}) : entry \in {"tables", "tablesX"}, deals \in DealLists}
  \union {Ask("tables", <<deal>>, filter) :
            deal \in {"a", "faulty"}, filter \in {{}, {0, 2}, {0, 1, 2}}}
  \union {Ask("tables", <<"b", "a">>, filter) : filter \in {{}, {0, 2}}}
  \union {Ask("tablesX", <<"b", "a">>, {})}
  \union {[Ask("tablesX", <<"a">>, {}) EXCEPT !.mode = -1, !.par = FALSE],
          [Ask("tablesX", <<"a">>, {}) EXCEPT !.par = FALSE],
          Ask("tablesX", <<"a">>, {0, 1, 2})}
  \union {Ask(entry, <<deal>>, {}) : entry \in {"table", "context"}, deal \in MCDeals}
  \union {Ask(entry, deals, {}) : entry \in {"solve", "seq"},
            deals \in DealLists \union {<<"a", "faulty", "b">>, Long}}
  \union {Ask("chunks", <<"a", "b">>, {}),
          [Ask("chunks", <<"a">>, {}) EXCEPT !.chunkSize = 0]}

(* After any of these, a call on one thread that fails half-way, that is   *)
(* refused, or that fills some rows only.                                  *)
NextRequests ==
  {Ask("seq", <<"b", "faulty">>, {}),
   Ask("tables", <<"b", "a">>, {}),
   [Ask("tables", <<"b">>, {0, 1}) EXCEPT !.threads = 1],
   [Ask("tables", <<"faulty">>, {0, 1}) EXCEPT !.threads = 1]}

MCRequests == <<FirstRequests, NextRequests>>
=============================================================================
