--------------------------- MODULE BrowserSession ---------------------------
(***************************************************************************)
(* core/browser.py: what BrowserManager does to the browser it manages, as *)
(* sets of outcomes.  A session is the window the manager holds, the xAI   *)
(* identity its cookies carry, what the sites' storage keeps beside them,  *)
(* and the browsers that run with no manager left to close them.  Every    *)
(* start is on a fresh temporary profile.                                  *)
(***************************************************************************)
EXTENDS Naturals

CONSTANTS
    None,
    MaxOrphans   \* bound: unmanaged browsers counted

Sessions(Values) ==
    [window : {"none", "live", "dead"}, tab : Values \cup {None},
     kept : Values \cup {None}, orphans : 0 .. MaxOrphans]
NoBrowser == [window |-> "none", tab |-> None, kept |-> None, orphans |-> 0]

Outcome(ok, session) == [ok |-> ok, chrome |-> session]

Orphaned(c) == [c EXCEPT !.orphans = IF @ < MaxOrphans THEN @ + 1 ELSE @]

\* start(): _browser and _page are overwritten, whatever they were.
Started(c) ==
    [(IF c.window = "live" THEN Orphaned(c) ELSE c)
        EXCEPT !.window = "live", !.tab = None, !.kept = None]

\* start() raises: before a browser was made, after the ninety seconds of a
\* browser that comes up all the same, or at the first look at its tabs.
StartFailures(c) == {c, Orphaned(c), Started(c)}

\* stop(): quit, and a kill for a process that outlives it; the profile is removed.
Stopped(c) == [c EXCEPT !.window = "none", !.tab = None, !.kept = None]

Starts(c, mayFail) ==
    {Outcome(TRUE, Started(c))} \cup
    {Outcome(FALSE, d) : d \in IF mayFail THEN StartFailures(c) ELSE {}}

\* restart(force_close=True)
Restarts(c, mayFail) == Starts(Stopped(c), mayFail)

\* refresh_active_page(): a window that does not answer is restarted.
Refreshes(c, mayFail) ==
    CASE c.window = "none" -> Starts(c, mayFail)
      [] c.window = "live" -> {Outcome(TRUE, c)}
      [] c.window = "dead" -> Restarts(c, mayFail)

\* The page property: a browser is started only when there is no page at all.
Pages(c, mayFail) == IF c.window = "none" THEN Starts(c, mayFail) ELSE {Outcome(TRUE, c)}

\* get() and run_js(): the same, and a page that is gone raises.
Uses(c, mayFail) ==
    {[o EXCEPT !.ok = o.ok /\ o.chrome.window = "live"] : o \in Pages(c, mayFail)}

\* Cookie removal over CDP, whose errors every caller swallows.
Cleared(c, maySlip) == {[c EXCEPT !.tab = None]} \cup (IF maySlip THEN {c} ELSE {})
=============================================================================
