------------------------------ MODULE MCDuckCache ------------------------------
(* Three digests, two of which share the hash, in a cache of few pages. *)
EXTENDS DuckCache

MCDigest == {<<1, 1>>, <<1, 2>>, <<2, 1>>}
\* 1, 1, 2 and 4 pages; the last is more than the cache has.
MCLens == {0, 2, 3, 7}
=============================================================================
