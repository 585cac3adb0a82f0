------------------------------- MODULE LiveView -------------------------------
(* What a live query promises, whatever keeps it: while it is settled the    *)
(* client shows the query's result, and both stay as they are; anything that *)
(* alters the result unsettles it first; and it only settles on something    *)
(* else than the result when there is an excuse.                             *)
VARIABLES truth,    \* what the query returns now
          shown,    \* what the client shows
          settled,  \* nothing is under way
          excused   \* something went wrong that excuses a wrong display

view == <<truth, shown, settled, excused>>

Init == settled = FALSE

(* A write, a new query, a reload or the end of the subscription. *)
Disturb == settled /\ ~settled' /\ shown' = shown

Work == ~settled /\ ~settled'

Settle == ~settled /\ settled' /\ (shown' = truth' \/ excused')

Next == Disturb \/ Work \/ Settle

Spec == Init /\ [][Next]_view
===============================================================================
