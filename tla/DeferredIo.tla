----------------------------- MODULE DeferredIo -----------------------------
(***************************************************************************)
(* How fbdev/dummy-fb.c learns what was drawn.  Screen memory is vmalloc   *)
(* memory that applications map.  The first store to a page faults, and    *)
(* fb_defio (external) makes the page writable, puts it on a list and      *)
(* schedules a delayed work; the work write-protects the listed pages,     *)
(* hands the list to dummy_fb_deferred_io(), which turns it into a dirty   *)
(* area, and empties it.  write() does not fault: dummy_fb_write()         *)
(* schedules the work itself, after fb_sys_write() has copied the data.    *)
(*                                                                         *)
(* Actors: applications that store through a mapping, threads in write(),  *)
(* and the work, which never runs twice at a time and holds fbdefio->lock. *)
(***************************************************************************)
EXTENDS Integers, FiniteSetsExt

CONSTANTS
    xres, yres,      \* the visible resolution (480 x 320)
    line_length,     \* bytes in a line (960)
    PAGE_SIZE,       \* bytes in a page (4096)
    Writers,         \* threads that use write()
    WriteLines       \* bound: the lines that write() is tried on

smem_len == line_length * yres

Pages == 0 .. (smem_len - 1) \div PAGE_SIZE
Lines == 0 .. yres - 1

\* A page holds more than two lines, as 4096 bytes do with 960 a line: the
\* driver takes the width of the area from "y_end > 1".
ASSUME GeometryAssumption ==
    /\ xres \in Nat \ {0, 1} /\ yres \in Nat /\ yres > 2
    /\ line_length \in Nat \ {0}
    /\ PAGE_SIZE \in Nat /\ PAGE_SIZE >= 2 * line_length
ASSUME WriteAssumption == WriteLines \subseteq Lines

VARIABLES
    pagereflist,  \* fbdefio->pagereflist: kept sorted by offset, so a set
    writable,     \* pages that an application may store to without a fault
    armed,        \* info->deferred_work is pending
    workPc,       \* where the work is
    area,         \* the area reported, a local variable of the callback
    unreported,   \* <<page, line>>: stored to and in no reported area since
    copying,      \* threads in dummy_fb_write() that have not scheduled yet
    written       \* lines written by write() since the last flush began

vars == <<pagereflist, writable, armed, workPc, area, unreported, copying,
          written>>

WorkPcs == {"idle", "report", "put"}

\* fbdefio->lock is held by the work from beginning to end.
LockFree == workPc = "idle"

\* The lines that have a byte in page p.
LinesOf(p) ==
    {l \in Lines : /\ l >= (p * PAGE_SIZE) \div line_length
                   /\ l =< ((p + 1) * PAGE_SIZE - 1) \div line_length}

-----------------------------------------------------------------------------
(* dummy_fb_deferred_io()                                                  *)

y_cur(p) == (p * PAGE_SIZE) \div line_length

\* Faulty variant: the end of the page is taken for its beginning.
y_end_NoPage(p) == Min({(p * PAGE_SIZE) \div line_length, yres - 1})

\* Faulty variant: not clamped to the screen.
y_end_NoClamp(p) == (p * PAGE_SIZE + PAGE_SIZE) \div line_length

y_end(p) == Min({(p * PAGE_SIZE + PAGE_SIZE) \div line_length, yres - 1})

\* Faulty variant: area.y1 stays at its initial value.
Top_Initial(list) == yres - 1

Top(list) == Min({yres - 1} \cup {y_cur(p) : p \in list})

\* wide: the test "y_end > 1" after the loop.
DirtyArea(list, wide) ==
    [x1 |-> 0,
     y1 |-> Top(list),
     x2 |-> IF wide THEN xres - 1 ELSE 0,
     y2 |-> Max({0} \cup {y_end(p) : p \in list})]

NoArea == [x1 |-> 0, y1 |-> 0, x2 |-> 0, y2 |-> 0]

Inside(a, l) == a.x1 = 0 /\ a.x2 = xres - 1 /\ a.y1 =< l /\ l =< a.y2

\* Faulty variant: the width is taken from the top of the area.
Wide_FromTop(list) == IF list = {} THEN BOOLEAN ELSE {y_cur(Min(list)) > 1}

\* What "y_end > 1" yields after the loop: y_end keeps the value of the last
\* page of the list.  With an empty list it is never assigned, and what the
\* test finds is arbitrary.
Wide(list) == IF list = {} THEN BOOLEAN ELSE {y_end(Max(list)) > 1}

Report ==
    /\ workPc = "report"
    /\ \E wide \in Wide(pagereflist) : area' = DirtyArea(pagereflist, wide)
    /\ unreported' = {pl \in unreported : ~Inside(area', pl[2])}
    /\ workPc' = "put"
    /\ UNCHANGED <<pagereflist, writable, armed, copying, written>>

-----------------------------------------------------------------------------
(* fb_defio, external                                                      *)

\* fb_deferred_io_work() takes the lock and write-protects the pages.
WorkStart ==
    /\ armed /\ workPc = "idle"
    /\ armed' = FALSE
    /\ writable' = writable \ pagereflist
    /\ written' = {}
    /\ workPc' = "report"
    /\ UNCHANGED <<pagereflist, area, unreported, copying>>

\* It empties the list, deferred_io() having run, and lets go of the lock.
Put ==
    /\ workPc = "put"
    /\ pagereflist' = {}
    /\ area' = NoArea
    /\ workPc' = "idle"
    /\ UNCHANGED <<writable, armed, unreported, copying, written>>

\* fb_deferred_io_track_page(): the page stays locked until the fault has
\* made it writable, so the work cannot write-protect it in between.
Fault(p) ==
    /\ p \notin writable
    /\ LockFree
    /\ pagereflist' = pagereflist \cup {p}
    /\ writable' = writable \cup {p}
    /\ armed' = TRUE
    /\ UNCHANGED <<workPc, area, unreported, copying, written>>

\* An application stores to line l of page p.
Store(p, l) ==
    /\ p \in writable
    /\ unreported' = unreported \cup {<<p, l>>}
    /\ UNCHANGED <<pagereflist, writable, armed, workPc, area, copying,
                   written>>

-----------------------------------------------------------------------------
(* dummy_fb_write()                                                        *)

\* fb_sys_write()
WriteCopy(w, l) ==
    /\ w \notin copying
    /\ copying' = copying \cup {w}
    /\ written' = written \cup {l}
    /\ UNCHANGED <<pagereflist, writable, armed, workPc, area, unreported>>

\* Faulty variant: not while a flush is running.
schedule_delayed_work_IfIdle == armed \/ workPc = "idle"

schedule_delayed_work == TRUE

\* schedule_delayed_work() does nothing when the work is pending.
WriteSchedule(w) ==
    /\ w \in copying
    /\ copying' = copying \ {w}
    /\ armed' = schedule_delayed_work
    /\ UNCHANGED <<pagereflist, writable, workPc, area, unreported, written>>

-----------------------------------------------------------------------------
Init ==
    /\ pagereflist = {} /\ writable = {}
    /\ armed = FALSE /\ workPc = "idle"
    /\ area = NoArea
    /\ unreported = {}
    /\ copying = {} /\ written = {}

Next ==
    \/ WorkStart \/ Report \/ Put
    \/ \E p \in Pages : Fault(p)
    \/ \E p \in Pages : \E l \in LinesOf(p) : Store(p, l)
    \/ \E w \in Writers : WriteSchedule(w)
    \/ \E w \in Writers, l \in WriteLines : WriteCopy(w, l)

Spec == Init /\ [][Next]_vars

\* A pending work runs when its delay is over, and to its end; a thread in
\* write() returns.
Fairness ==
    /\ WF_vars(WorkStart) /\ WF_vars(Report) /\ WF_vars(Put)
    /\ \A w \in Writers : WF_vars(WriteSchedule(w))

FairSpec == Spec /\ Fairness
-----------------------------------------------------------------------------
(* Properties                                                              *)

\* Every variable keeps its type; the corners of a reported area are pixels
\* of the screen.
TypeOK ==
    /\ pagereflist \subseteq Pages /\ writable \subseteq Pages
    /\ armed \in BOOLEAN /\ workPc \in WorkPcs
    /\ area \in [x1 : 0 .. xres - 1, y1 : Lines, x2 : 0 .. xres - 1, y2 : Lines]
    /\ unreported \subseteq Pages \X Lines
    /\ copying \subseteq Writers
    /\ written \subseteq WriteLines

\* When the work is about to empty the list, every line stored to through a
\* mapping, by any application and up to the moment the pages were
\* write-protected, lies inside an area that was reported, over its whole
\* width.
FlushCoversStores == workPc = "put" => unreported = {}

\* A store that no reported area covers yet is on a listed page, and a flush
\* that will look at the list is pending or running.
StoresPending ==
    /\ \A pl \in unreported : pl[1] \in pagereflist
    /\ writable \subseteq pagereflist
    /\ pagereflist # {} => armed \/ workPc # "idle"

\* The area reported for a nonempty list is not inside out.
AreaOrdered ==
    workPc = "put" /\ pagereflist # {}
        => area.x1 =< area.x2 /\ area.y1 =< area.y2

\* What write() has copied since the last flush began is due for a flush,
\* also when it was copied in the middle of one.
WritesPending == written # {} => armed \/ copying # {}

\* Each store through a mapping is reported in the end.
StoresReported ==
    \A p \in Pages, l \in Lines : <<p, l>> \in unreported
                                      ~> <<p, l>> \notin unreported

\* A flush comes after each write().
WritesFlushed == \A l \in WriteLines : l \in written ~> l \notin written

\* "dmesg reports the dirty area on every deferred IO flush (values depend on
\* what was written)": there is an area, whatever asked for the flush.
EveryFlushReports ==
    workPc = "put" => area.x1 =< area.x2 /\ area.y1 =< area.y2
=============================================================================
