----------------------------- MODULE FileQueries -----------------------------
(***************************************************************************)
(* The paged lists of the REST API: files, upload logs, the upload logs of  *)
(* one agent, the deliveries of one event rule.  A client follows           *)
(* next_cursor from page to page while rows are inserted, tagged and marked *)
(* as deleted.  Every page is two queries: the rows (filters, the keyset    *)
(* condition on (created_at, id), one row more than the limit), then the    *)
(* total.                                                                   *)
(***************************************************************************)
EXTENDS Naturals, FiniteSets, Sequences

CONSTANTS Id,           \* ids of entries, numbers: uuids compare, in no order of time
          EntryKind,    \* what filters see of a row: [owner, tags, status]
          Query,        \* requests: [list, owner, tag, status, limit]
          DefaultLimit, MaxLimit,
          Created,      \* created_at of the rows that are there
          LateCreated,  \* created_at of the rows that become visible later
          MaxEdit       \* bound: changes of the rowsOf in one behaviour

Range2(s) == {s[i] : i \in DOMAIN s}

\* A limit of 0 is none, or none that parses; the lists of an agent and of an event rule
\* have its id in their path.
ASSUME QueryAssumption ==
  /\ IsFiniteSet(Id) /\ Id \subseteq Nat /\ Created \subseteq Nat /\ LateCreated \subseteq Nat
  /\ MaxLimit \in Nat /\ DefaultLimit \in 1..MaxLimit /\ MaxEdit \in Nat
  /\ \A q \in Query :
       /\ DOMAIN q = {"list", "owner", "tag", "status", "limit"}
       /\ q.list \in {"files", "logs", "agentLogs", "deliveries"} /\ q.limit \in Nat
       /\ q.list \in {"agentLogs", "deliveries"} => q.owner # "any"
       /\ IsFiniteSet(Range2(q.tag)) /\ \A p \in Range2(q.tag) : p = <<p[1], p[2]>>

VARIABLES
  rowsOf,  \* the visible rows: id -> [ca, kind]
  edits,
  query,  \* the client's query
  step,   \* "start", "page", "count" (the total), "done", "refused"
  more,   \* has_more of the page being answered
  total,  \* total of the last page
  cursor, \* <<created_at, id>>, or <<>>
  got,    \* ids received, in order
  stayed  \* ids that matched all the time since the walk began

fqVars == <<rowsOf, edits, query, step, more, total, cursor, got, stayed>>

Entries == UNION {[S -> [ca : Created, kind : EntryKind]] : S \in SUBSET Id}

-----------------------------------------------------------------------------
(* The request: parseLimitParam, parseTagPredicates, the other filters.     *)

ParseLimit(raw) ==
  IF raw = 0 THEN DefaultLimit ELSE IF raw > MaxLimit THEN MaxLimit ELSE raw

\* Two values for one key are refused.
Conflicting(tag) == \E p, q \in Range2(tag) : p[1] = q[1] /\ p[2] # q[2]

\* Exact duplicates are dropped: the predicates, without repetition.
Predicates(tag) == Range2(tag)

\* tagFilterClause: as many rows of file_tags as predicates.
HasTags(kind, preds) ==
  Cardinality({k \in DOMAIN kind.tags : <<k, kind.tags[k]>> \in preds}) = Cardinality(preds)

\* An id in the query string that does not parse is no filter.
FileMatches(kind, q) ==
  /\ q.owner \in {"any", "malformed"} \/ kind.owner = q.owner
  /\ q.status = "any" \/ kind.status = q.status
  /\ HasTags(kind, Predicates(q.tag))

LogMatches(kind, q) ==
  /\ q.owner \in {"any", "malformed"} \/ kind.owner = q.owner
  /\ q.status = "any" \/ kind.status = q.status

\* The agent or the event rule of the path.
OwnerMatches(kind, q) == kind.owner = q.owner

Matches(kind, q) ==
  CASE q.list = "files" -> FileMatches(kind, q)
    [] q.list = "logs" -> LogMatches(kind, q)
    [] OTHER -> OwnerMatches(kind, q)

\* The total repeats the filters, in a query of its own.
CountsFile(kind, q) == FileMatches(kind, q)
CountsLog(kind, q) == LogMatches(kind, q)

-----------------------------------------------------------------------------
(* ListFileEntries.                                                         *)

\* (created_at, id) < (cursor): rows come in descending order.
Before(a, b) == a[1] < b[1] \/ (a[1] = b[1] /\ a[2] < b[2])
BeforeByTime(a, b) == a[1] < b[1]

Position(i) == <<rowsOf[i].ca, i>>

AfterCursorByTime(i) == cursor = <<>> \/ BeforeByTime(Position(i), cursor)
AfterCursor(i) == cursor = <<>> \/ Before(Position(i), cursor)

Hits == {i \in DOMAIN rowsOf : Matches(rowsOf[i].kind, query) /\ AfterCursor(i)}

\* ORDER BY created_at DESC, id DESC LIMIT n
Top(S, n) == {i \in S : Cardinality({j \in S : Before(Position(i), Position(j))}) < n}
Sorted(S) ==
  CHOOSE s \in [1..Cardinality(S) -> S] :
    \A i, j \in DOMAIN s : i < j => Before(Position(s[j]), Position(s[i]))

Fetch == Top(Hits, ParseLimit(query.limit) + 1)

-----------------------------------------------------------------------------
QueryInit ==
  /\ rowsOf \in Entries /\ edits = 0 /\ query \in Query
  /\ step = "start" /\ more = TRUE /\ total = 0 /\ cursor = <<>> /\ got = <<>> /\ stayed = {}

\* What the handlers refuse: two values for a tag; an id in the path that
\* does not parse.
Refused(q) ==
  \/ q.list = "files" /\ Conflicting(q.tag)
  \/ q.list \in {"agentLogs", "deliveries"} /\ q.owner = "malformed"

AskFirst ==
  /\ step = "start"
  /\ IF Refused(query)
       THEN step' = "refused" /\ UNCHANGED stayed
       ELSE /\ step' = "page"
            /\ stayed' = {i \in DOMAIN rowsOf : Matches(rowsOf[i].kind, query)}
  /\ UNCHANGED <<rowsOf, edits, query, more, total, cursor, got>>

\* The rows: the extra one only tells that there is more.
ReadPage ==
  /\ step = "page" /\ more
  /\ LET has == Cardinality(Fetch) > ParseLimit(query.limit)
         page == Sorted(IF has THEN Top(Fetch, ParseLimit(query.limit)) ELSE Fetch)
     IN /\ got' = got \o page
        /\ more' = has
        /\ cursor' = IF has THEN Position(page[Len(page)]) ELSE cursor
  /\ step' = "count"
  /\ UNCHANGED <<rowsOf, edits, query, total, stayed>>

Answered(count) ==
  /\ total' = count
  /\ step' = IF more THEN "page" ELSE "done"
  /\ UNCHANGED <<rowsOf, edits, query, more, cursor, got, stayed>>

\* The total, and the answer.
FilesList ==
  /\ step = "count" /\ query.list = "files"
  /\ Answered(Cardinality({i \in DOMAIN rowsOf : CountsFile(rowsOf[i].kind, query)}))

UploadLogsList ==
  /\ step = "count" /\ query.list = "logs"
  /\ Answered(Cardinality({i \in DOMAIN rowsOf : CountsLog(rowsOf[i].kind, query)}))

AgentListUploadLogs ==
  /\ step = "count" /\ query.list = "agentLogs"
  /\ Answered(Cardinality({i \in DOMAIN rowsOf :
                 CountsLog(rowsOf[i].kind, [query EXCEPT !.status = "any"])}))

ListDeliveries ==
  /\ step = "count" /\ query.list = "deliveries"
  /\ Answered(Cardinality({i \in DOMAIN rowsOf : rowsOf[i].kind.owner = query.owner}))

-----------------------------------------------------------------------------
(* Meanwhile.  created_at is when the inserting transaction began, so a row *)
(* may become visible with an older one.                                    *)

Inserted ==
  /\ edits < MaxEdit /\ edits' = edits + 1 /\ step \in {"page", "count"}
  /\ \E i \in Id \ DOMAIN rowsOf, c \in LateCreated, k \in EntryKind :
       rowsOf' = [j \in DOMAIN rowsOf \cup {i} |->
                   IF j = i THEN [ca |-> c, kind |-> k] ELSE rowsOf[j]]
  /\ UNCHANGED <<query, step, more, total, cursor, got, stayed>>

\* An upload over a file, a tag, a deletion: created_at stays.  Logs are
\* never changed, and of a delivery nothing a filter sees.
Edited ==
  /\ query.list = "files"
  /\ edits < MaxEdit /\ edits' = edits + 1 /\ step \in {"page", "count"}
  /\ \E i \in DOMAIN rowsOf, k \in EntryKind :
       /\ rowsOf' = [rowsOf EXCEPT ![i].kind = k]
       /\ stayed' = IF Matches(k, query) THEN stayed ELSE stayed \ {i}
  /\ UNCHANGED <<query, step, more, total, cursor, got>>

QueryNext ==
  \/ AskFirst \/ ReadPage \/ FilesList \/ UploadLogsList \/ AgentListUploadLogs \/ ListDeliveries
  \/ Inserted \/ Edited

QuerySpec == QueryInit /\ [][QueryNext]_fqVars

-----------------------------------------------------------------------------
(* A walk through the pages gives no row twice, and when it ends it has     *)
(* given every row that matched from its beginning to its end, whatever was *)
(* inserted or changed meanwhile.                                           *)
WalkExact ==
  /\ \A i, j \in DOMAIN got : i # j => got[i] # got[j]
  /\ step = "done" => stayed \subseteq Range2(got)

(* The total is of the same rows as the pages: while nothing changes, a     *)
(* complete walk gives as many rows as every page announced.                *)
TotalIsOfList == step = "done" /\ edits = 0 => total = Len(got)

(* The tags of a query are a conjunction: an entry is listed only if it has *)
(* each of them when its page is read, and a repeated predicate changes     *)
(* nothing.                                                                 *)
TagsAreAnd ==
  step = "page" =>
    \A i \in DOMAIN rowsOf :
      HasTags(rowsOf[i].kind, Predicates(query.tag)) <=>
        \A p \in Range2(query.tag) :
          p[1] \in DOMAIN rowsOf[i].kind.tags /\ rowsOf[i].kind.tags[p[1]] = p[2]

\* A list is exact: its pages, its total and its tag filter.
ListsAreExact == WalkExact /\ TotalIsOfList /\ TagsAreAnd
=============================================================================
