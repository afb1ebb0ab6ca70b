---------------------------- MODULE CreditHistory ----------------------------
(***************************************************************************)
(* The credit history of one account, read page by page while requests,    *)
(* purchases and the expiry sweep write to the ledger                      *)
(* (CreditService.listHistory, DatabaseCreditRepository.listEntries).      *)
(*                                                                         *)
(* The user sees one line per entry: the rows of one reference together.   *)
(* A line stands at the time of its newest row, so a hold's line moves to  *)
(* the front when it is settled or refunded.  A row carries the time its   *)
(* transaction began and is seen when it commits, in any order.            *)
(***************************************************************************)
EXTENDS Integers, FiniteSets, FiniteSetsExt

CONSTANTS
    Generations,     \* entries of generations: a hold, then its settle or refund
    Grants,       \* entries of one positive row: signup, plan, pack
    Expiries,     \* entries of one negative row: expired plan credits
    Limit,        \* lines on a page
    HoldUnits,    \* what a request holds
    Costs,        \* what a request may cost
    GrantUnits,
    MaxTime       \* bound: the clock

(* Entries are numbers as their ids are ordered. *)
Entries == Generations \cup Grants \cup Expiries

ASSUME HistoryAssumption ==
    /\ Entries \subseteq Nat /\ IsFiniteSet(Entries)
    /\ Generations \cap Grants = {} /\ (Generations \cup Grants) \cap Expiries = {}
    /\ {Limit, HoldUnits, GrantUnits} \subseteq Nat \ {0}
    /\ Costs \subseteq Nat \ {0}
    /\ MaxTime \in Nat

VARIABLES
    rows,      \* credit_ledger: entry, kind, amount, created_at
    begun,     \* transactions under way: the row they will write
    now,       \* the database's clock
    pc,        \* where the reader is
    cursor,    \* the cursor it got with its last page
    lines,     \* the lines it has been shown
    firstRows  \* history: the ledger when the first page was read

historyVars == <<rows, begun, now, pc, cursor, lines, firstRows>>

-----------------------------------------------------------------------------
(* A point in the list: a time and, among equal times, an id. *)
Point(at, entry) == [at |-> at, entry |-> entry]

Precedes(p, q) == p.at > q.at \/ (p.at = q.at /\ p.entry > q.entry)

Kinds == {"GRANT", "EXPIRE", "RESERVE", "SETTLE", "REFUND"}

RowsOf(entry) == {row \in rows : row.entry = entry}

ListedEntries == {entry \in Entries : RowsOf(entry) # {}}

(* max(created_at) of the entry's rows. *)
IsTimeOf(entry, at) ==
    /\ \E row \in RowsOf(entry) : row.at = at
    /\ \A row \in RowsOf(entry) : row.at <= at

\* Mutant: what a settle gives back is not counted.
NetUnsettled(entry) ==
    MapThenSumSet(LAMBDA row : row.amount, {row \in RowsOf(entry) : row.kind # "SETTLE"})

Net(entry) == MapThenSumSet(LAMBDA row : row.amount, RowsOf(entry))

Has(entry, kind) == \E row \in RowsOf(entry) : row.kind = kind

\* Mutant: any closed or open hold reads as a generation.
KindHoldFirst(entry) ==
    CASE Has(entry, "GRANT") -> "GRANT"
      [] Has(entry, "EXPIRE") -> "EXPIRE"
      [] Has(entry, "RESERVE") \/ Has(entry, "SETTLE") -> "SETTLE"
      [] OTHER -> "REFUND"

(* The kind of a line; the kinds of grant are one here. *)
KindOf(entry) ==
    CASE Has(entry, "GRANT") -> "GRANT"
      [] Has(entry, "EXPIRE") -> "EXPIRE"
      [] Has(entry, "REFUND") -> "REFUND"
      [] OTHER -> "SETTLE"

-----------------------------------------------------------------------------
Line == [entry : Entries, kind : Kinds, amount : Int, at : Nat]

HistoryTypeOK ==
    /\ rows \subseteq Line /\ begun \subseteq Line
    /\ now \in 0..MaxTime
    /\ pc \in {"new", "paging", "done"}
    /\ cursor \in [at : 0..MaxTime, entry : Entries] \cup {Point(MaxTime + 1, 0)}
    /\ lines \subseteq Line
    /\ firstRows \subseteq Line

(* Before the first page: a point in front of every entry. *)
NoCursor == Point(MaxTime + 1, 0)

HistoryInit ==
    /\ rows = {} /\ begun = {} /\ now = 0
    /\ pc = "new" /\ cursor = NoCursor /\ lines = {} /\ firstRows = {}

Reader == <<pc, cursor, lines, firstRows>>

Tick ==
    /\ now < MaxTime
    /\ now' = now + 1
    /\ UNCHANGED <<rows, begun, Reader>>

Waiting(entry) == \E row \in begun : row.entry = entry

BeginRow(entry, kind, amount) ==
    /\ ~Waiting(entry)
    /\ begun' = begun \cup {[entry |-> entry, kind |-> kind, amount |-> amount, at |-> now]}
    /\ UNCHANGED <<rows, now, Reader>>

Open(entry) == Has(entry, "RESERVE") /\ ~Has(entry, "SETTLE") /\ ~Has(entry, "REFUND")

Grant(entry) == RowsOf(entry) = {} /\ BeginRow(entry, "GRANT", GrantUnits)

Expire(entry) == RowsOf(entry) = {} /\ BeginRow(entry, "EXPIRE", -GrantUnits)

Reserve(entry) == RowsOf(entry) = {} /\ BeginRow(entry, "RESERVE", -HoldUnits)

Settle(entry) ==
    /\ Open(entry)
    /\ \E cost \in Costs : BeginRow(entry, "SETTLE", HoldUnits - cost)

Refund(entry) == Open(entry) /\ BeginRow(entry, "REFUND", HoldUnits)

(* The transaction got the account's lock and commits, or it rolls back.   *)
End(row) ==
    /\ begun' = begun \ {row}
    /\ rows' = rows \cup {row} \/ UNCHANGED rows
    /\ UNCHANGED <<now, Reader>>

-----------------------------------------------------------------------------
(* Reading.                                                                *)

\* Mutant: the rows are filtered before they are grouped.
AfterByRow(c, entry) == \E row \in RowsOf(entry) : Precedes(c, Point(row.at, entry))

\* Mutant: the cursor is compared by time alone.
AfterTimeOf(c, entry) == \A row \in RowsOf(entry) : row.at < c.at

(* having (max(created_at), id) < cursor *)
After(c, entry) == \A row \in RowsOf(entry) : Precedes(c, Point(row.at, entry))

(* Entry e stands in front of entry f. *)
InFront(e, f) ==
    \E r \in RowsOf(e) : \A s \in RowsOf(f) : Precedes(Point(r.at, e), Point(s.at, f))

(* order by max(created_at) desc, id desc limit n *)
Newest(n, entries) ==
    {e \in entries : Cardinality({f \in entries : InFront(f, e)}) < n}

(* The cursor names the last line of the page. *)
CursorEntry(found, page) ==
    {e \in page : \A f \in page \ {e} : InFront(f, e)}

\* Mutant: the time of the cursor is rounded up.
CursorRoundedUp(at, entry) == Point(at + 1, entry)

(* encodeCursor: the time at the database's precision. *)
EncodeCursor(at, entry) == Point(at, entry)

LineOf(entry, at) ==
    [entry |-> entry, kind |-> KindOf(entry), amount |-> Net(entry), at |-> at]

LinesOf(page) ==
    {line \in {LineOf(e, row.at) : e \in page, row \in rows} : IsTimeOf(line.entry, line.at)}

(* One request for a page: one row more than fits tells whether another    *)
(* page follows.                                                           *)
ReadPage ==
    /\ pc # "done"
    /\ LET found == Newest(Limit + 1, {e \in ListedEntries : After(cursor, e)})
           page == Newest(Limit, found)
       IN  /\ lines' = lines \cup LinesOf(page)
           /\ IF Cardinality(found) > Limit
              THEN /\ pc' = "paging"
                   /\ \E e \in CursorEntry(found, page) : \E at \in 0..now :
                        IsTimeOf(e, at) /\ cursor' = EncodeCursor(at, e)
              ELSE pc' = "done" /\ UNCHANGED cursor
    /\ firstRows' = IF pc = "new" THEN rows ELSE firstRows
    /\ UNCHANGED <<rows, begun, now>>

HistoryNext ==
    \/ Tick
    \/ \E entry \in Grants : Grant(entry)
    \/ \E entry \in Expiries : Expire(entry)
    \/ \E entry \in Generations : Reserve(entry) \/ Settle(entry) \/ Refund(entry)
    \/ \E row \in begun : End(row)
    \/ ReadPage

HistorySpec == HistoryInit /\ [][HistoryNext]_historyVars

-----------------------------------------------------------------------------
(* Properties.                                                             *)

(* No line is shown twice, however much moves between two pages: a line    *)
(* that moves, moves to the front, away from what is still to be read.     *)
(* credits.md:230: "grouped history pages without repeats".                *)
PagesNeverRepeat ==
    \A a, b \in lines : a.entry = b.entry => a = b

Unchanged(entry) ==
    {row \in firstRows : row.entry = entry} = RowsOf(entry)

(* "so a cursor never skips a row": an entry that was there when the first *)
(* page was read and has not changed since is on one of the pages, with    *)
(* its net amount.                                                         *)
NothingUnchangedIsSkipped ==
    pc = "done" =>
        \A entry \in ListedEntries : Unchanged(entry) =>
            \E line \in lines : line.entry = entry /\ line.amount = Net(entry)

(* credits.md:209: a charge or an open hold is a negative line, a failed   *)
(* request is a line of 0, whichever rows of it were there when its page   *)
(* was read.                                                               *)
LinesSayWhatHappened ==
    \A line \in lines :
        /\ line.kind = "SETTLE" => line.amount < 0
        /\ line.kind = "REFUND" => line.amount = 0

(* A history that was read while nothing was written adds up to the        *)
(* balance.                                                                *)
QuietHistoryAddsUp ==
    (pc = "done" /\ rows = firstRows) =>
        MapThenSumSet(LAMBDA line : line.amount, lines)
            = MapThenSumSet(LAMBDA row : row.amount, rows)

(* Pages of the history read while requests, grants and expiries go on      *)
(* show every entry that stands still once, and say what happened          *)
(* (listHistory, credit.service.ts).                                       *)
PagesAddUp ==
    /\ HistoryTypeOK /\ PagesNeverRepeat /\ NothingUnchangedIsSkipped
    /\ LinesSayWhatHappened /\ QuietHistoryAddsUp
=============================================================================
