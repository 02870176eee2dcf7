--------------------------- MODULE MCRateLimiter ---------------------------
(* Two keys: a token that comes from two addresses, and an address.        *)
EXTENDS RateLimiter, TLC

MCFrom(path, bearer, query, forwarded, real, peer) ==
    [path |-> path, bearer |-> bearer, query |-> query,
     forwarded |-> forwarded, real |-> real, peer |-> peer]

MCRequest ==
    { MCFrom("api", "t", "none", "none", "none", "a"),
      MCFrom("api", "none", "t", "none", "none", "b"),
      MCFrom("api", "none", "none", "a", "b", "b"),
      MCFrom("api", "none", "none", "none", "a", "b"),
      MCFrom("open", "none", "none", "none", "none", "a") }

MCWatched == <<"apikey", "t">>

MCSymmetry == Permutations(Slot)
=============================================================================
