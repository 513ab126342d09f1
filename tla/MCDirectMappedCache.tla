------------------------- MODULE MCDirectMappedCache -------------------------
(* Two and four words competing for one, two or three lines (three is      *)
(* refused), with one byte address inside a word (a sub-word access).      *)
EXTENDS DirectMappedCache

MCAddrs == {0, 4, 8, 13}

Raw(enabled, lines, lineBytes, writeBack) ==
    [enabled |-> enabled, lines |-> lines, lineBytes |-> lineBytes,
     latency |-> 3, writeBack |-> writeBack]

MCRawConfigs ==
    {Raw(TRUE, n, 4, wb) : n \in {1, 2}, wb \in BOOLEAN}
        \cup {Raw(FALSE, 2, 4, TRUE), Raw(TRUE, 3, 4, TRUE),
              Raw(TRUE, 0, 4, TRUE), Raw(TRUE, 2, 8, TRUE)}
=============================================================================
