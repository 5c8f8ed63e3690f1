---------------------------- MODULE MCEBRSkipList ----------------------------
(***************************************************************************)
(* The reclamation and the structure that uses it least carefully, in one  *)
(* run: subject says which of the two a behaviour is about, and the other  *)
(* stands still.                                                           *)
(***************************************************************************)
EXTENDS EBR, TLC

CONSTANTS Updaters, Nodes, head, tail, NULL,    \* of LazySkipList, where Updaters
          MaxKey, MaxLevels, LookupKeys,        \* are called Threads
          MaxUpdates, MaxSurplus

VARIABLES subject,
          next, sign, key, height, free, queue, surplus, updates, alive, fault,
          inside, pending, place, op, k, h, lev, preds, succs, found, node, word, ret

Skip == INSTANCE LazySkipList WITH Threads <- Updaters, waits <- pending, pc <- place

ASSUME SkipListAssumption == Skip!SkipListAssumption

Symmetric == Permutations(Updaters) \cup Permutations(Nodes)

list == <<next, sign, key, height, free, queue, surplus, updates, alive, fault,
          inside, pending, place, op, k, h, lev, preds, succs, found, node, word, ret>>

BothInit == /\ Init /\ Skip!Init
            /\ \/ subject = "ebr"
               \/ subject = "skip list" /\ local_epoch = [t \in Threads |-> 0]

BothNext == \/ subject = "ebr" /\ Next /\ UNCHANGED <<subject, list>>
            \/ subject = "skip list" /\ Skip!Next /\ UNCHANGED <<subject, vars>>

BothSpec == BothInit /\ [][BothNext]_<<subject, vars, list>>
-----------------------------------------------------------------------------
(* No sl_insert or sl_remove follows a wild pointer, and calls never all   *)
(* wait, except for a turn that a second unlock gave away: OnlyKnownHarm   *)
(* of LazySkipList (lazy_sync/skiplist.c:112-280).                         *)
OnlyKnownHarm == subject = "skip list" => Skip!OnlyKnownHarm

(* Each sl_insert and sl_remove that returns 0 changed the set, once, when *)
(* it linked the lowest level or marked the node, and nothing else did;    *)
(* sl_destroy ends the set (lazy_sync/skiplist.c:112-280).                 *)
ImplementsSet == Skip!ImplementsSet
=============================================================================
