---------------------------- MODULE CacheHistory ----------------------------
(***************************************************************************)
(* The write-through cache with history variables, to say what the         *)
(* replacement strategies promise: in which order the sets of a line were  *)
(* last used, and which were hit since the line's last replacement.  The   *)
(* history never restricts what the cache does.                            *)
(***************************************************************************)
EXTENDS WriteThroughCache, Sequences

VARIABLES
  uses,   \* of each line: its sets, the one used longest ago first
  hits,   \* of each line: the sets hit since its last replacement
  idle    \* of each line: the sets not hit since they were filled

historyVars == <<vars, uses, hits, idle>>

Last(order, s) == Append(SelectSeq(order, LAMBDA q : q # s), s)

HistoryInit ==
  /\ Init
  /\ uses = [l \in LineIndex |-> <<>>]
  /\ hits = [l \in LineIndex |-> {}]
  /\ idle = [l \in LineIndex |-> {}]

(* An access to a leaves a in the set SetOf(a)'.                           *)
Access(a) ==
  LET l == IndexOf(a)
      s == SetOf(a)'
  IN  /\ Read(a) \/ \E v \in Value : Write(a, v)
      /\ uses' = [uses EXCEPT ![l] = Last(@, s)]
      /\ hits' = CASE Hit(a)             -> [hits EXCEPT ![l] = @ \cup {s}]
                   [] ~Hit(a) /\ Full(l) -> [hits EXCEPT ![l] = {}]
                   [] OTHER              -> hits
      /\ idle' = [idle EXCEPT ![l] = IF Hit(a) THEN @ \ {s} ELSE @ \cup {s}]

HistoryNext ==
  \/ \E a \in Used : Access(a)
  \/ FlushAll /\ UNCHANGED <<uses, hits, idle>>

HistorySpec == HistoryInit /\ [][HistoryNext]_historyVars
-----------------------------------------------------------------------------
(* Set s of line l, in use so far, gives way to another block.             *)
Replaced(s, l) ==
  lines[s][l].valid /\ lines'[s][l].tag # lines[s][l].tag

(* Second chance and LRU: a set that was hit since the last replacement is *)
(* kept as long as there is one whose block was never used again.          *)
RecentHitsAreKept ==
  [][strategy.kind \in {"SecondChance", "LRU"} =>
       \A s \in SetIndex, l \in LineIndex :
         Replaced(s, l) => s \notin hits[l] \/ idle[l] = {}]_historyVars

(* Least recently used: the set replaced is the one used longest ago.      *)
LeastRecentlyUsed ==
  [][\A s \in SetIndex, l \in LineIndex :
       Replaced(s, l) => s = Head(uses[l])]_historyVars
=============================================================================
