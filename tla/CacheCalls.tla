----------------------------- MODULE CacheCalls -----------------------------
(***************************************************************************)
(* The calls of a cache (ICache), as requests a state can record.          *)
(***************************************************************************)
ReadCall(a)     == [op |-> "read", address |-> a]
WriteCall(a, v) == [op |-> "write", address |-> a, value |-> v]
FlushCall       == [op |-> "flushAll"]

NoCall == [op |-> "none"]   \* before the first one

Calls(addresses, values) ==
  [op : {"read"}, address : addresses]
    \cup [op : {"write"}, address : addresses, value : values]
    \cup {FlushCall, NoCall}
=============================================================================
