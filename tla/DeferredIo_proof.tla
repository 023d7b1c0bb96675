-------------------------- MODULE DeferredIo_proof --------------------------
(***************************************************************************)
(* For any screen and any page size of at least two lines: the area that   *)
(* dummy_fb_deferred_io() computes from the dirty pages covers every line  *)
(* that was stored to, and no store falls between two flushes.             *)
(***************************************************************************)
EXTENDS DeferredIo, WellFoundedInduction, TLAPS

-----------------------------------------------------------------------------
(* Division                                                                *)

\* The quotient of a division by a positive divisor, pinned down.
LEMMA Quotient ==
    ASSUME NEW a \in Nat, NEW b \in Nat \ {0}
    PROVE  /\ a \div b \in Nat
           /\ b * (a \div b) =< a
           /\ a < b * (a \div b) + b
  OBVIOUS

\* Whoever fits k times into a divides it at least k times.
LEMMA QuotientAtLeast ==
    ASSUME NEW a \in Nat, NEW b \in Nat \ {0}, NEW k \in Nat, b * k =< a
    PROVE  k =< a \div b
  <1>1. SUFFICES ASSUME a \div b + 1 =< k PROVE FALSE
    BY Quotient
  <1>2. b * (a \div b + 1) =< b * k
    BY <1>1, Quotient
  <1> QED
    BY <1>2, Quotient

\* Whatever is less than k times the divisor divides less than k times.
LEMMA QuotientBelow ==
    ASSUME NEW a \in Nat, NEW b \in Nat \ {0}, NEW k \in Nat, a < b * k
    PROVE  a \div b < k
  <1>1. SUFFICES ASSUME k =< a \div b PROVE FALSE
    BY Quotient
  <1>2. b * k =< b * (a \div b)
    BY <1>1, Quotient
  <1> QED
    BY <1>2, Quotient

LEMMA QuotientMonotone ==
    ASSUME NEW a \in Nat, NEW c \in Nat, NEW b \in Nat \ {0}, a =< c
    PROVE  a \div b =< c \div b
  BY Quotient, QuotientAtLeast

-----------------------------------------------------------------------------
(* The least and the greatest of some natural numbers                      *)

\* A nonempty set of natural numbers has a least element.
LEMMA MinOfNats ==
    ASSUME NEW S, S \subseteq Nat, S # {}
    PROVE  Min(S) \in S /\ \A y \in S : Min(S) =< y
  <1> DEFINE R == OpToRel(<, Nat)
  <1>1. \A x, y \in Nat : y < x => <<y, x>> \in R
    BY DEF OpToRel
  <1>2. IsWellFoundedOn(R, Nat)
    BY NatLessThanWellFounded
  <1> HIDE DEF R
  <1>3. PICK x \in S : \A y \in S : ~(<<y, x>> \in R)
    BY <1>2, WFMin
  <1>4. ASSUME NEW y \in S PROVE x =< y
    <2>1. ~(y < x)
      BY <1>1, <1>3, Zenon
    <2>2. x \in Nat /\ y \in Nat
      OBVIOUS
    <2> QED
      BY <2>1, <2>2
  <1> QED
    BY <1>4 DEF Min

\* A nonempty bounded set of natural numbers has a greatest element.
LEMMA MaxOfNats ==
    ASSUME NEW N \in Nat, NEW S, S \subseteq 0 .. N, S # {}
    PROVE  Max(S) \in S /\ \A y \in S : y =< Max(S)
  <1> DEFINE T == {N - x : x \in S}
  <1>1. T \subseteq Nat /\ T # {}
    <2>1. \A x \in S : N - x \in Nat
      OBVIOUS
    <2> QED
      BY <2>1
  <1>2. Min(T) \in T /\ \A y \in T : Min(T) =< y
    BY <1>1, MinOfNats
  <1>3. PICK x \in S : Min(T) = N - x
    BY <1>2
  <1>4. \A y \in S : x >= y
    <2> TAKE y \in S
    <2>1. N - y \in T /\ x \in 0 .. N /\ y \in 0 .. N
      OBVIOUS
    <2>2. N - x =< N - y
      BY <1>2, <1>3, <2>1
    <2> QED
      BY <2>1, <2>2
  <1>5. Max(S) \in S /\ \A y \in S : Max(S) >= y
    BY <1>4 DEF Max
  <1> QED
    BY <1>5

\* The smaller of two.
LEMMA MinOfTwo ==
    ASSUME NEW a \in Nat, NEW b \in Nat
    PROVE  Min({a, b}) = IF a =< b THEN a ELSE b
  <1>1. Min({a, b}) \in {a, b} /\ \A y \in {a, b} : Min({a, b}) =< y
    BY MinOfNats
  <1> QED
    BY <1>1

-----------------------------------------------------------------------------
(* The geometry of the screen                                              *)

\* The first line that has a byte in a page is on the screen, above or at the
\* clamped end of the page, and the end is below line 1.
LEMMA PageLines ==
    ASSUME NEW p \in Pages
    PROVE  /\ p \in Nat /\ y_cur(p) \in Lines /\ y_end(p) \in Lines
           /\ y_cur(p) =< y_end(p) /\ y_end(p) > 1
           /\ \A l \in LinesOf(p) : y_cur(p) =< l /\ l =< y_end(p)
  <1> USE GeometryAssumption
  <1> DEFINE first == p * PAGE_SIZE
             next  == p * PAGE_SIZE + PAGE_SIZE
  <1>1. smem_len \in Nat \ {0} /\ p \in Nat
    BY DEF smem_len, Pages
  <1>2. first \in Nat /\ next \in Nat /\ first =< next /\ 2 * line_length =< next
    BY <1>1
  <1>3. first < line_length * yres
    <2>1. /\ (smem_len - 1) \div PAGE_SIZE \in Nat
          /\ PAGE_SIZE * ((smem_len - 1) \div PAGE_SIZE) =< smem_len - 1
      BY <1>1, Quotient
    <2>2. p =< (smem_len - 1) \div PAGE_SIZE
      BY DEF Pages
    <2>3. p * PAGE_SIZE =< PAGE_SIZE * ((smem_len - 1) \div PAGE_SIZE)
      BY <1>1, <2>1, <2>2
    <2> QED
      BY <1>1, <2>1, <2>3 DEF smem_len
  <1> HIDE DEF first, next
  <1>4. y_cur(p) = first \div line_length
    BY DEF y_cur, first
  <1>5. y_cur(p) \in Nat /\ y_cur(p) < yres
    BY <1>2, <1>3, <1>4, Quotient, QuotientBelow
  <1>6. /\ next \div line_length \in Nat /\ next \div line_length >= 2
        /\ y_cur(p) =< next \div line_length
    BY <1>2, <1>4, Quotient, QuotientAtLeast, QuotientMonotone
  <1>7. y_end(p) = IF next \div line_length =< yres - 1
                   THEN next \div line_length ELSE yres - 1
    BY <1>6, MinOfTwo DEF y_end, next
  <1>8. ASSUME NEW l \in LinesOf(p) PROVE y_cur(p) =< l /\ l =< y_end(p)
    <2>1. l \in Lines /\ y_cur(p) =< l
      BY DEF LinesOf, y_cur
    <2>2. (p + 1) * PAGE_SIZE = next /\ next - 1 \in Nat
      BY <1>1, <1>2 DEF next
    <2>3. l =< (next - 1) \div line_length
      BY <2>2 DEF LinesOf
    <2>4. (next - 1) \div line_length =< next \div line_length
      BY <1>2, <2>2, QuotientMonotone
    <2>5. (next - 1) \div line_length \in Nat
      BY <2>2, Quotient
    <2> QED
      BY <1>6, <1>7, <2>1, <2>3, <2>4, <2>5 DEF Lines
  <1> QED
    BY <1>1, <1>5, <1>6, <1>7, <1>8 DEF Lines

\* The area of a list of pages lies on the screen, and when there is a page it
\* is the right way round and reaches from edge to edge.
LEMMA AreaOfList ==
    ASSUME NEW list \in SUBSET Pages, NEW w \in Wide(list)
    PROVE  /\ DirtyArea(list, w) \in [x1 : 0 .. xres - 1, y1 : Lines,
                                     x2 : 0 .. xres - 1, y2 : Lines]
           /\ \A p \in list :
                 /\ DirtyArea(list, w).x1 = 0
                 /\ DirtyArea(list, w).x2 = xres - 1
                 /\ DirtyArea(list, w).y1 =< y_cur(p)
                 /\ y_end(p) =< DirtyArea(list, w).y2
  <1> USE GeometryAssumption
  <1> DEFINE tops == {yres - 1} \cup {y_cur(p) : p \in list}
             ends == {0} \cup {y_end(p) : p \in list}
  <1>1. \A p \in list : y_cur(p) \in Lines /\ y_end(p) \in Lines
    BY PageLines
  <1>2. yres - 1 \in Lines /\ 0 \in Lines /\ Lines = 0 .. yres - 1
        /\ yres - 1 \in Nat
    BY DEF Lines
  <1>3. tops \subseteq Lines /\ ends \subseteq Lines
    BY <1>1, <1>2
  <1>4. Min(tops) \in tops /\ \A y \in tops : Min(tops) =< y
    <2>1. tops \subseteq Nat /\ tops # {}
      BY <1>2, <1>3
    <2> QED
      BY <2>1, MinOfNats, Zenon
  <1>5. Max(ends) \in ends /\ \A y \in ends : y =< Max(ends)
    <2>1. ends \subseteq 0 .. yres - 1 /\ ends # {}
      BY <1>2, <1>3
    <2> QED
      BY <1>2, <2>1, MaxOfNats, Zenon
  <1>6. ASSUME list # {} PROVE w = TRUE
    <2>1. list \subseteq 0 .. (smem_len - 1) \div PAGE_SIZE
      BY DEF Pages
    <2>2. (smem_len - 1) \div PAGE_SIZE \in Nat
      BY Quotient DEF smem_len
    <2>3. Max(list) \in list
      BY <1>6, <2>1, <2>2, MaxOfNats
    <2>4. (y_end(Max(list)) > 1) = TRUE
      BY <2>3, PageLines
    <2> QED
      BY <1>6, <2>4 DEF Wide
  <1> DEFINE a == DirtyArea(list, w)
  <1>7. /\ a.x1 = 0 /\ a.x2 = (IF w THEN xres - 1 ELSE 0)
        /\ a.y1 = Min(tops) /\ a.y2 = Max(ends)
        /\ a = [x1 |-> a.x1, y1 |-> a.y1, x2 |-> a.x2, y2 |-> a.y2]
    BY DEF DirtyArea, Top
  <1>8. Min(tops) \in Lines /\ Max(ends) \in Lines
    BY <1>3, <1>4, <1>5
  <1>9. 0 \in 0 .. xres - 1 /\ xres - 1 \in 0 .. xres - 1
    OBVIOUS
  <1>10. \A p \in list : y_cur(p) \in tops /\ y_end(p) \in ends
    OBVIOUS
  <1> HIDE DEF tops, ends, a
  <1>11. a \in [x1 : 0 .. xres - 1, y1 : Lines, x2 : 0 .. xres - 1, y2 : Lines]
    <2>1. a.x2 \in 0 .. xres - 1
      BY <1>7, <1>9
    <2> QED
      BY <1>7, <1>8, <1>9, <2>1
  <1>12. ASSUME NEW p \in list
         PROVE  a.x1 = 0 /\ a.x2 = xres - 1 /\ a.y1 =< y_cur(p) /\ y_end(p) =< a.y2
    BY <1>4, <1>5, <1>6, <1>7, <1>10
  <1> QED
    BY <1>11, <1>12 DEF a

-----------------------------------------------------------------------------
(* The invariant                                                           *)

\* A stored-to line belongs to its page; while the work runs no page can be
\* stored to and none can be added to the list.
Tracked ==
    /\ \A pl \in unreported : pl[2] \in LinesOf(pl[1])
    /\ workPc # "idle" => writable = {}

\* What was computed last is the area of the list as it still is.
Computed ==
    workPc = "put" => \E w \in Wide(pagereflist) : area = DirtyArea(pagereflist, w)

DInv == TypeOK /\ StoresPending /\ FlushCoversStores /\ Tracked /\ Computed

LEMMA DInvInit == Init => DInv
  <1> SUFFICES ASSUME Init PROVE DInv
    OBVIOUS
  <1>1. NoArea \in [x1 : 0 .. xres - 1, y1 : Lines, x2 : 0 .. xres - 1, y2 : Lines]
    BY GeometryAssumption DEF NoArea, Lines
  <1> QED
    BY <1>1
    DEF Init, DInv, TypeOK, WorkPcs, StoresPending, FlushCoversStores, Tracked,
        Computed

LEMMA DInvStep == DInv /\ [Next]_vars => DInv'
  <1> SUFFICES ASSUME DInv, [Next]_vars PROVE DInv'
    OBVIOUS
  <1> USE DEF DInv, StoresPending, FlushCoversStores, Tracked, Computed
  <1>1. CASE WorkStart
    <2>1. TypeOK'
      BY <1>1 DEF WorkStart, TypeOK, WorkPcs
    <2> QED
      BY <1>1, <2>1 DEF WorkStart
  <1>2. CASE Report
    <2>1. PICK w \in Wide(pagereflist) : area' = DirtyArea(pagereflist, w)
      BY <1>2 DEF Report
    <2>2. pagereflist \in SUBSET Pages
      BY DEF TypeOK
    <2>3. area' \in [x1 : 0 .. xres - 1, y1 : Lines, x2 : 0 .. xres - 1, y2 : Lines]
      BY <2>1, <2>2, AreaOfList
    <2>4. TypeOK'
      BY <1>2, <2>3 DEF Report, TypeOK, WorkPcs
    <2>5. ASSUME NEW pl \in unreported PROVE Inside(area', pl[2])
      <3>1. pl[1] \in pagereflist /\ pl[1] \in Pages /\ pl[2] \in LinesOf(pl[1])
        BY <2>2
      <3>2. /\ area'.x1 = 0 /\ area'.x2 = xres - 1
            /\ area'.y1 =< y_cur(pl[1]) /\ y_end(pl[1]) =< area'.y2
        BY <2>1, <2>2, <3>1, AreaOfList
      <3>3. y_cur(pl[1]) =< pl[2] /\ pl[2] =< y_end(pl[1])
            /\ y_cur(pl[1]) \in Lines /\ y_end(pl[1]) \in Lines
        BY <3>1, PageLines
      <3>4. pl[2] \in Int /\ area'.y1 \in Int /\ area'.y2 \in Int
            /\ y_cur(pl[1]) \in Int /\ y_end(pl[1]) \in Int
        BY <2>3, <3>1, <3>3, GeometryAssumption DEF LinesOf, Lines
      <3> QED
        BY <3>2, <3>3, <3>4 DEF Inside
    <2>6. unreported' = {}
      BY <1>2, <2>5 DEF Report
    <2>7. Computed'
      BY <1>2, <2>1 DEF Report
    <2> QED
      BY <1>2, <2>4, <2>6, <2>7 DEF Report
  <1>3. CASE Put
    <2>1. NoArea \in [x1 : 0 .. xres - 1, y1 : Lines, x2 : 0 .. xres - 1, y2 : Lines]
      BY GeometryAssumption DEF NoArea, Lines
    <2>2. TypeOK'
      BY <1>3, <2>1 DEF Put, TypeOK, WorkPcs
    <2> QED
      BY <1>3, <2>2 DEF Put
  <1>4. ASSUME NEW p \in Pages, Fault(p) PROVE DInv'
    <2>1. TypeOK'
      BY <1>4 DEF Fault, TypeOK
    <2> QED
      BY <1>4, <2>1 DEF Fault, LockFree
  <1>5. ASSUME NEW p \in Pages, NEW l \in LinesOf(p), Store(p, l) PROVE DInv'
    <2>1. l \in Lines
      BY DEF LinesOf
    <2>2. TypeOK'
      BY <1>5, <2>1 DEF Store, TypeOK
    <2> QED
      BY <1>5, <2>2 DEF Store
  <1>6. ASSUME NEW t \in Writers, WriteSchedule(t) PROVE DInv'
    <2>1. TypeOK'
      BY <1>6 DEF WriteSchedule, schedule_delayed_work, TypeOK
    <2> QED
      BY <1>6, <2>1 DEF WriteSchedule, schedule_delayed_work
  <1>7. ASSUME NEW t \in Writers, NEW l \in WriteLines, WriteCopy(t, l) PROVE DInv'
    <2>1. TypeOK'
      BY <1>7 DEF WriteCopy, TypeOK
    <2> QED
      BY <1>7, <2>1 DEF WriteCopy
  <1>8. CASE UNCHANGED vars
    BY <1>8 DEF vars, TypeOK
  <1> QED
    BY <1>1, <1>2, <1>3, <1>4, <1>5, <1>6, <1>7, <1>8 DEF Next

LEMMA DInvAlways == Spec => []DInv
  BY DInvInit, DInvStep, PTL DEF Spec

\* Every variable keeps its type: whatever pages are dirty, the corners of the
\* area are pixels of the screen.
THEOREM TypeCorrect == Spec => []TypeOK
  <1>1. DInv => TypeOK
    BY DEF DInv
  <1> QED
    BY DInvAlways, <1>1, PTL

\* When the work drops its list of pages, every line stored to on any of them
\* has been inside the area computed by dummy_fb_deferred_io().
THEOREM FlushCoversStoresHolds == Spec => []FlushCoversStores
  <1>1. DInv => FlushCoversStores
    BY DEF DInv
  <1> QED
    BY DInvAlways, <1>1, PTL

\* No store is lost between two flushes: its page is on the list, and work is
\* due, until it is reported.
THEOREM StoresPendingHolds == Spec => []StoresPending
  <1>1. DInv => StoresPending
    BY DEF DInv
  <1> QED
    BY DInvAlways, <1>1, PTL

\* The area reported for dirty pages is the right way round.
THEOREM AreaOrderedHolds == Spec => []AreaOrdered
  <1>1. DInv => AreaOrdered
    <2> SUFFICES ASSUME DInv, workPc = "put", NEW p \in pagereflist
                 PROVE  area.x1 =< area.x2 /\ area.y1 =< area.y2
      BY DEF AreaOrdered
    <2>1. pagereflist \in SUBSET Pages /\ p \in Pages
      BY DEF DInv, TypeOK
    <2>2. PICK w \in Wide(pagereflist) : area = DirtyArea(pagereflist, w)
      BY DEF DInv, Computed
    <2>3. /\ area.x1 = 0 /\ area.x2 = xres - 1
          /\ area.y1 =< y_cur(p) /\ y_end(p) =< area.y2
      BY <2>1, <2>2, AreaOfList
    <2>4. /\ y_cur(p) =< y_end(p) /\ y_cur(p) \in Lines /\ y_end(p) \in Lines
      BY <2>1, PageLines
    <2>5. area.y1 \in Lines /\ area.y2 \in Lines
      BY DEF DInv, TypeOK
    <2> QED
      BY <2>3, <2>4, <2>5, GeometryAssumption DEF Lines
  <1> QED
    BY DInvAlways, <1>1, PTL

\* What write() copies is never without a flush that is due: a thread that has
\* copied schedules one, and a flush in progress does not swallow it.
THEOREM WritesPendingHolds == Spec => []WritesPending
  <1>1. Init => WritesPending
    BY DEF Init, WritesPending
  <1>2. WritesPending /\ [Next]_vars => WritesPending'
    BY DEF WritesPending, Next, vars, WorkStart, Report, Put, Fault, Store,
           WriteCopy, WriteSchedule, schedule_delayed_work
  <1> QED
    BY <1>1, <1>2, PTL DEF Spec
=============================================================================
