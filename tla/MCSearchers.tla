----------------------------- MODULE MCSearchers -----------------------------
(***************************************************************************)
(* Small instances of Searchers for TLC.                                   *)
(***************************************************************************)
EXTENDS Searchers, TLC

\* Single searchers, and interleavings that mix the kinds of containers.
CoreLists == {<<c>> : c \in Cores}
               \cup {<<"random-path", "nurs">>, <<"bfs", "nurs">>, <<"dfs", "param", "bfs">>}

\* Every combination of them with the other options; low scores matter only to
\* the parameterized searcher.
AllSearches ==
  {s \in [cores : CoreLists, batching : BOOLEAN, deepening : BOOLEAN, lowScores : BOOLEAN] :
     s.lowScores => \E i \in DOMAIN s.cores : s.cores[i] = "param"}
=============================================================================
