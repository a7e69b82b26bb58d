------------------------------- MODULE DailyReport -------------------------------
(***************************************************************************)
(* The report of a tenant's day (telegram-search-report.service.ts:        *)
(* report, tenantDayBounds).  The first instant of a local date is found   *)
(* by bisection over dateInZone, whatever the offset of the zone and       *)
(* wherever it changes; a date that a zone skips has none, and the report  *)
(* of the date before fails.  Time is in hours.                            *)
(***************************************************************************)
EXTENDS Integers, FiniteSets

CONSTANTS Zones,      \* [base, change, by]: the offset is base, and base + by
                      \* from the instant change
          Instants,   \* of orders
          Nows,       \* of reports
          MaxOrders,  \* (bound)
          NoReport

VARIABLES zone, orders, report

reportVars == <<zone, orders, report>>

HOURS == 24

Order == [at : Instants, is : {"sale", "unreadable", "pending"}]

ReportInit == zone \in Zones /\ orders = {} /\ report = NoReport

dateInZone(t) ==
    (t + zone.base + (IF t >= zone.change THEN zone.by ELSE 0)) \div HOURS

\* Mutant: the search starts at midnight UTC.
firstInstantEastOnly(date) ==
    LET low[l \in Int, h \in Int] ==
            IF l >= h THEN l
            ELSE LET m == (l + h) \div 2
                 IN  IF dateInZone(m) < date THEN low[m + 1, h] ELSE low[l, m]
    IN  low[date * HOURS, date * HOURS + 2 * HOURS]

firstInstantOfDate(date) ==
    LET low[l \in Int, h \in Int] ==
            IF l >= h THEN l
            ELSE LET m == (l + h) \div 2
                 IN  IF dateInZone(m) < date THEN low[m + 1, h] ELSE low[l, m]
    IN  low[date * HOURS - 2 * HOURS, date * HOURS + 2 * HOURS]

\* Or the report fails.
HasDay(date) == dateInZone(firstInstantOfDate(date)) = date

\* Those between the bounds, and what they add up to.
Reports(now) ==
    LET date == dateInZone(now)
        today == {o \in orders : /\ firstInstantOfDate(date) <= o.at
                                 /\ o.at < firstInstantOfDate(date + 1)}
    IN  /\ HasDay(date) /\ HasDay(date + 1)
        /\ report' = [date |-> date, today |-> Cardinality(today),
                      sales |-> Cardinality({o \in today : o.is = "sale"}),
                      omitted |-> Cardinality({o \in today : o.is = "unreadable"})]
        /\ UNCHANGED <<zone, orders>>

OrderComes(o) ==
    /\ Cardinality(orders) < MaxOrders /\ o \notin orders
    /\ orders' = orders \cup {o}
    /\ UNCHANGED <<zone, report>>

ReportNext ==
    \/ \E now \in Nows : Reports(now)
    \/ \E o \in Order : OrderComes(o)

ReportSpec == ReportInit /\ [][ReportNext]_reportVars

-----------------------------------------------------------------------------
\* A report counts the orders of its local date and no others, so that none is
\* counted twice or never, on days of 23 and 25 hours, too.
ReportIsOfItsDay ==
    [][report' # report =>
          LET day == {o \in orders : dateInZone(o.at) = report'.date}
          IN  /\ report'.today = Cardinality(day)
              /\ report'.sales = Cardinality({o \in day : o.is = "sale"})
              /\ report'.omitted = Cardinality({o \in day : o.is = "unreadable"})
      ]_reportVars
=============================================================================
