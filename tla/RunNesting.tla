------------------------------ MODULE RunNesting -------------------------------
(***************************************************************************)
(* The nesting cursor of one RunLog (rey_lib/logs/run_log.py): the level   *)
(* records are written at, and the anchors, the record that opened each    *)
(* level, which say what a record hangs from.                              *)
(***************************************************************************)
EXTENDS Integers

CONSTANT NoRecord   \* the parent of a root record

(* SEMANTIC_BASES, of the levels this project uses. *)
Base == [app |-> 3, workflow |-> 4, workflow_step |-> 5]

(* Before anything is set. *)
Fresh == [level |-> 0, minimum |-> 1, anchors |-> <<>>, parent |-> NoRecord]

(* _largest_anchor_below *)
AnchorBelow(anchors, l) ==
    LET below == {k \in DOMAIN anchors : k < l}
    IN IF below = {} THEN NoRecord
       ELSE anchors[CHOOSE k \in below : \A j \in below : j <= k]

(* _clear_from(l): what is left is above l. *)
KeepAbove(anchors, l) == [k \in {j \in DOMAIN anchors : j < l} |-> anchors[k]]

(* Slip: a scope keeps the anchor of the one before. *)
SetLevelAnchored(n, base) ==
    LET kept == KeepAbove(n.anchors, base + 1)
    IN [level |-> base, minimum |-> base + 1, anchors |-> kept,
        parent |-> AnchorBelow(kept, base)]

(* _on_level_set: a named scope starts at a base. *)
SetLevel(n, base) ==
    LET kept == KeepAbove(n.anchors, base)
    IN [level |-> base, minimum |-> base + 1, anchors |-> kept,
        parent |-> AnchorBelow(kept, base)]

(* _on_level_next, as enter() takes it. *)
Enter(n) ==
    LET l == IF n.level + 1 > n.minimum THEN n.level + 1 ELSE n.minimum
        kept == KeepAbove(n.anchors, l)
    IN [n EXCEPT !.level = l, !.anchors = kept, !.parent = AnchorBelow(kept, l)]

(* set_nest_level("sibling"): the level again, without its anchor. *)
Sibling(n) ==
    LET kept == KeepAbove(n.anchors, n.level)
    IN [n EXCEPT !.anchors = kept, !.parent = AnchorBelow(kept, n.level)]

(* exit(), _on_level_previous: never above the first level under the base; *)
(* the anchor of the level returned to is kept.                            *)
Exit(n) ==
    LET l == IF n.level - 1 > n.minimum THEN n.level - 1
             ELSE IF n.minimum < n.level THEN n.minimum ELSE n.level
        kept == KeepAbove(n.anchors, l + 1)
    IN [n EXCEPT !.level = l, !.anchors = kept, !.parent = AnchorBelow(kept, l)]

(* recorded(): the first record of a level anchors it. *)
Recorded(n, id) ==
    IF n.level \in DOMAIN n.anchors THEN n
    ELSE [n EXCEPT !.anchors = [k \in DOMAIN @ \cup {n.level} |->
                                  IF k = n.level THEN id ELSE @[k]]]
================================================================================
