---------------------------- MODULE MCSiteCrawl ----------------------------
(***************************************************************************)
(* Instances of SiteCrawl for TLC: a root that links to one page, and two   *)
(* worker processes with one slot each.                                     *)
(***************************************************************************)
EXTENDS SiteCrawl, TLC

CONSTANTS home, page, a1, b1, procA, procB

HomeLinksToAll == [p \in Pages |-> IF p = Root THEN Pages \ {Root} ELSE {}]

Planned(advanced_, automatic_, site_, starts_, stops_, events_) ==
  [advanced |-> advanced_, automatic |-> automatic_, site |-> site_,
   starts |-> starts_, stops |-> stops_, events |-> events_]

Crawls ==
  {Planned(FALSE, FALSE, Pages, 0, 0, 1), Planned(FALSE, TRUE, Pages, 0, 0, 0),
   Planned(FALSE, TRUE, {Root}, 0, 0, 1), Planned(TRUE, FALSE, {Root}, 1, 0, 1),
   Planned(TRUE, FALSE, Pages, 1, 0, 0), Planned(TRUE, FALSE, {Root}, 2, 1, 0),
   Planned(TRUE, TRUE, Pages, 0, 1, 0), Planned(TRUE, TRUE, {Root}, 1, 1, 0)}

OnePerProcess == [s \in {a1, b1} |-> IF s = a1 THEN procA ELSE procB]
=============================================================================
