---------------------------- MODULE MCLogFormat -----------------------------
(* Values for the constants of LogFormat when TLC checks it.               *)
EXTENDS LogFormat

CONSTANTS a, b, f, g, x, null

Request(ev, p, size, result, bt, skip, name) ==
  [ev |-> ev, p |-> p, size |-> size, result |-> result, bt |-> bt, skip |-> skip,
   name |-> name, thread |-> 1 + Len(bt)]
\* With frames and without, as many as there can be, and names of odd lengths,
\* of the longest that fits and of one letter more.
MCRequests ==
  {Request(MALLOC, null, 7, a, <<f, g>>, 0, <<>>),
   Request(MALLOC, null, 0, null, <<f, g, f>>, 1, <<>>),
   Request(FREE, a, 0, null, <<g, f>>, 0, <<>>),
   Request(REALLOC, a, 9, b, <<f, g, f>>, 0, <<>>),
   Request(REALLOC, b, 9, null, <<f>>, 1, <<>>),
   Request(TAG, null, 0, null, <<>>, 0, <<x, x, x>>),
   Request(TAG, null, 0, null, <<>>, 0, <<>>),
   Request(TAG, null, 0, null, <<>>, 0, [i \in 1..16 |-> x]),
   Request(TAG, null, 0, null, <<>>, 0, [i \in 1..17 |-> x])}
=============================================================================
